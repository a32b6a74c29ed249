# A TLA+ verification of intent

This directory holds TLA+ models of the parts of *intent* (`src/old/src`, the C++
core library and lexer, and `src/intent`, the Python tools) in which something
can go wrong that a unit test would hardly reach, the TLC configurations that
check them on small instances, and TLAPS proofs of the main results for every
instance. `PROJECT.json` lists components, runs, the source lines each
definition stands for, hazards and theorems.

## 1. The system

| component | state | operations | hard behaviours |
|---|---|---|---|
| curl session (`core/net/curl/session.cpp`) | atomic `state`, mutex, condition variable, current request and response, libcurl easy handle | configure, `send`, `start_get`, `reset`, `wait`, `cleanup_after_transfer` | state read with and without the mutex; two routes to the end of a transfer; lost wake-ups; late data |
| curl channel and callbacks (`channel.cpp`, `libcurl_callbacks.cpp`) | list of sessions, multi handle, io_service and its queue, reactor threads, socket map | `open`, `attach`, `detach`, socket events and updates, time-outs, destruction | edge-triggered events; raw pointers in queued handlers; several threads in one multi handle; lifetimes of channel and sessions |
| request and response handles | reference counts, pointers to the session, strings, body | copy, move, destruction, `set_url`, `set_verb`, `store_bytes`, `get_session` | a response outliving its session; sessions that a response owns; the cap on stored bytes |
| `net/headers` | reference-counted layers, chained by `defaults` | copy, move, `set`, `get_defaults_from`, look-ups, counting | releases that cascade; cycles; objects that were moved from |
| `time/assignable_clock` | unsigned atomic session counter, fake time | sessions, `deactivate(force)`, `now`, `sleep_for`, `sleep_until` | underflow of the counter and its correction in two atomic steps |
| `time/stopwatch` | state, split start, elapsed time | `start`, `pause`, `resume`, `stop` | a clock that goes back; pausing before stopping |
| `work/progress_tracker`, `work/discrete_task` | work expected and done per type | `expect_work`, `complete_work`, `skip_work`, `request_stop` | completing more than is expected |
| `err/circuit_breaker`, `util`, `mux`, `marks` | little or none | - | ids that wrap |
| `cli` and `i/main.cpp` | lifecycle phase of a command line | define, `set_args`, `validate` | operations out of phase |
| `data/json` | readers: position, stack of values, errors, comments, a global depth; values: a tree with strings it owns; writers: a document in the making | `parse`, the accessors and modifiers of `value`, `path`, four writers | recovery from errors; pointers into a tree that changes; comments that must find their value; limits of number types |
| `text` | none | wrapping, UTF-8, escapes, punycode, numbers, interpolation, splitting | boundary cases: the width, the end of the buffer, the largest number |
| `data/xsv`, `io`, `process`, `dev` | none | I/O | - |
| C++ lexer (`lang/lexer.cpp`) | position, stack of indents, queued dedents, pending error | `advance` and the scanners it calls | layout changes found while another token is being read; widths and depths at their limits; the end of a text |
| C++ parser, notes, ast | - | stubs, formatting, data types | - |
| Python lexer and parser (`intent/lang`) | position, state stack, indent; pending tokens of a line | `lex`, `syntax_checked_token_stream`, `parse_text` | loops that do not advance; errors that outlive their line |
| Python spaces and commands | - | directory walks, dispatch | - |

How they interact: a user thread configures a session and sends it; the session
opens its channel, which starts a reactor thread that runs asio handlers; a
handler calls into libcurl, which calls back (`on_socket_update`,
`on_receive_data`, `on_open_socket`, `on_close_socket`, `on_adjust_timeout`)
into the channel, the session and the response. Responses own `headers`
objects. The clock is used by the stopwatch and by tests. The parser pulls
tokens from the lexer. The lexer and the command line read numbers with the
functions of `text`, and the map of headers compares names with one of them.
JSON readers build values, which writers turn into text again.

What makes each modelled component correct: the session ends a transfer once,
tells waiters the truth and forgets none of them; the channel leaves no socket
unwatched and no transfer behind, and nobody uses what is deleted; a layer of
headers lives exactly as long as somebody refers to it; the clock is active
exactly while sessions exist; the lexer's indents and dedents match, describe
the text, and come to an end; a handle keeps its object alive and nothing else
does; a JSON reader accepts JSON, says so truthfully, and what a writer makes of
the value reads as the same value; a function on text computes what it is meant
to, for inputs at its limits too. Where the code falls short of that, the
property says exactly where, and the wider statement is listed as refuted.

## 2. The modules

| module | models | proved about in |
|---|---|---|
| `AssignableClock` | the clock | `AssignableClockProofs` |
| `CurlSession` | one session, its users and its reactors | `CurlSessionProofs` |
| `TransferContract` | what `response::wait()` promises (abstract) | `CurlSessionProofs` (implemented by `CurlSession`) |
| `CurlChannel` | a channel, several sessions, reactors and queue | `CurlChannelProofs` |
| `CurlHandles` | handles, requests, responses and the sessions behind them | `CurlHandlesProofs` |
| `Headers` | headers objects and their layers | `HeadersProofs` |
| `Lexer` | the layout of a text | `LexerProofs` |
| `LexerTokens` | the tokens of one line: operators, numbers, phrases | |
| `JsonText` | lexemes, documents and trees of JSON | |
| `JsonReader` | `reader`, one step per loop of its functions | `JsonReaderProofs` |
| `JsonOurReader` | `our_reader`, as a function from text and settings | |
| `JsonWriter` | the four writers | |
| `JsonDocuments` | readers and writers together, with the properties | |
| `JsonValue` | the tree of values, its memory, and what follows a path | `JsonValueProofs` |
| `JsonPath` | how the text of a path is read | |
| `JsonOrder` | the comparison of values | |
| `JsonScalars` | numbers, strings and places in JSON, conversions | |
| `TextWrap`, `Unicode`, `Punycode`, `NumberScan`, `Interp`, `TextPieces` | the functions of `core/text` | |
| `IntentLexer` | the Python lexer, filter and parser | |
| `TextFunctions` | `Lexer` together with a caller of the functions of the previous seven, of `JsonScalars` and of `LexerTokens` | |

Each `MC...` module instantiates the module of that name; `MCCurlSession` has
four configurations and `MCHeaders` two. Definitions marked
"faulty variant" are mistakes that could be made in that place of the code; no
action uses them, and substituting one for its neighbour makes TLC report the
property it belongs to. In every module the properties come last, and behind
them the statements of comments, documents and tests that the code does not
keep.

### AssignableClock

`session_count`, `value` and the life of each `session` object are the state;
constructors, destructors, `deactivate(true)`, `set_now`/`elapse` and the free
functions are the actions. A destructor is two actions, `Destroy` (the
`fetch_sub`) and `CorrectUnderflow` (the `++`), and a caller of `now()` or a
sleep looks at `is_active()` in one step and acts in another. `forced` only
remembers that `deactivate(true)` was called. `activate()` and `deactivate()`
without a session object are the constructor and destructor of one, so they are
assumed to be paired. Conversions between clocks are left out.

### CurlSession

Every store to the atomic `state` and every acquisition or release of `mtx` is
a step. `wait()` is `WaitLoad` (the switch without the mutex), `WaitLocked`
(the filter under the mutex, then sleeping), `SpuriousWakeup`, `TimeOut` and
`WaitTimedOut`. `cleanup_after_transfer()` is a step per line that another
thread could observe, from `CleanupLoad` to `NotifyAll`. libcurl is external:
`EndTransfer` ends a transfer with a CURLMSG_DONE message, with a
CURL_POLL_REMOVE callback, or with both, as the comments in the code describe.
A null `http_method` for an unknown verb stops the process (`process`). So may a
send after the channel was deleted: the code tests for a null pointer to it, but
the destructor of a channel clears that pointer only if `is_open()`, which is
never true, so the pointer dangles; what is found there is null, and the
`state_error` "Session is detached from channel." is thrown, or it is followed.
The body is counted in pieces, of which libcurl delivers at most `MaxChunks`.

### CurlChannel

The life of a transfer is taken in one step here; the module is about what
sessions share. The pointer that libcurl hands back for a socket points to the
session object but is used as an `int *`: `ChangeAssigned` and `RemoveSocket`
therefore store into `id`, the first field, while handlers queued by
`AddSocket` look at `curl_socket_state`. Using a deleted session, socket or
channel sets `freed` and ends the behaviour, since anything could follow.
`open()` detaches its thread, so `joinable` is never true and every send adds a
reactor. Simplifications: one socket per transfer (no redirects, no reused
connections), CURL_POLL_REMOVE only at the end of a transfer, equal handlers
merged, no deletion during a send, sockets of c-ares ignored (as the code does),
and not the immediate `on_timeout()` of `on_adjust_timeout()` for a time-out of
zero.

### Headers

Handles, layers (`ref_count`, `map`, `defaults`) and at most one operation
under way. Operations that release a layer have a beginning and an end, with
one `ReleaseRef` per layer in between, because a release may delete a chain.
Maps are sets of names. Preconditions throw and change nothing, hence are
guards; following a null pointer or an endless chain sets `fault`.

### Lexer

Lines are chosen when the lexer reaches them: their width, whether they begin
with `...`, whether a line break ends them and what their last token is. The
dedents that `advance()` still has to report, the stack of byte-sized widths
and the total are those of the code; `depth` counts the tokens that a caller
has seen, and `cut` remembers that a width was too large for its byte.
Writing past the 64 places of `indent_stack` leads to the place `overflow`, where
the model stops.

`LexerTokens` is the other half: given one line, `advance()` without layout.
`Operators` is the table of `operator.tuples`, which the hand-written scanners
must agree with.

### CurlHandles

Sessions, requests, responses, handles (the variables of a user) and the strings
that requests own. An operation on a handle is one step, because it is one
change of an atomic counter; sending and cleaning up are taken in one step, since
`CurlSession` has their steps. `fault` says what an operation that follows a bad
pointer did, and ends the behaviour, as does a verb that no `http_method` has.

### JSON

A document is a sequence of lexemes and of the blanks, line breaks and comments
between them, so that places in the text are places in the sequence. Strings are
lexemes too: one with a wrong escape, one that holds a zero byte, and in single
quotes a plain one, one with a double quote and one with an escaped single quote. Characters
within strings and numbers are in `JsonScalars`, with integer types of few bits.
`JsonReader` is the state of `reader` (`nodes_`, `errors_`, `last_value_`,
`comments_before_` and the rest) and one step per turn of the loops in
`read_value`, `read_object`, `read_array` and `recover_from_error`, with the
global `stack_depth_g` shared by all readers; what concerns this reader alone is
stated there, the rest in `JsonDocuments`. `JsonOurReader` is the other copy
of that code; it is written as the recursive functions it consists of, so that
the comparison of the two (`CopiesAgree`) compares independent translations.
The writers append lexemes; that the text is right is for `RoundTrip` to say.
`JsonDocuments` has one grammar with a record of liberties; without any it is
that of JSON, and with those of a reader (comments, any token for a comma behind
one, a comma behind a member with an empty name, numbers for names, nothing for
null) it describes exactly what that reader accepts.

`JsonValue` has the variables of a program, each a tree of nodes, and the
buffers that hold their strings. Elements of arrays are kept under their indices,
which may have gaps, as in the map that the code uses for both kinds of
containers. Assertions of the code end the behaviour (`aborted`). A path is a
sequence of arguments there, which `path::make()` and `path::resolve()` follow;
making one is a recursive function. `JsonPath` and `JsonOrder` extend the module
by what needs recursive operators, how the text of a path becomes arguments and
which of two values is less, so that the state machine remains provable. Comments
and offsets of values, which copies and swaps carry along, are left out there.
One of the reals stands for NaN.

### Functions

`TextWrap`, `Unicode`, `Punycode`, `NumberScan`, `Interp`, `TextPieces`,
`IntentLexer`, `LexerTokens` and `JsonScalars` hold one operator per function and
one per loop. They are recursive where the code has a loop, and are therefore
left to TLC. `TextFunctions` has a state machine in which a caller asks for one
computation after the other, over all inputs of the instance, or turns to the
lexer of `Lexer`. The Python generators
are operators from a text to the tokens they yield, together with how they end:
regularly, with an exception, or never.

## 3. The runs

Runs that pass:

| run | instance | shows |
|---|---|---|
| `clock_safety` | 3 sessions, 2 threads, counter of 4 bits, limit 8 | `CountIsLive`: exact until forced; `DriftIsBounded`: never more than twice the number of sessions away from zero |
| `session_safety` | 2 users, 2 reactors, 2 pieces of body, known and unknown verbs, time-outs | `HandleRemovedOnce`, `ReadyMeansFinal`, `NoRepost`, `StateOnlyAdvances`, `NoNewDataWhenReady` (after a `wait()` that returned true the body grows only by what a reactor had in hand), and refinement of `TransferContract` |
| `session_liveness` | 2 users, 1 reactor, no time-outs, fair | `EveryTransferEnds`, `EveryWaiterReturns` |
| `channel_safety` | 2 sessions, 2 reactors, sockets for reading and for both directions | `NoStall`: every direction libcurl waits for is watched; `NothingLost`: every busy session has its end ahead of it |
| `headers_counts` | 4 handles, 4 layers, 1 name | `RefCountIsExact`, `SourceStaysAlive`, `NoLeak` |
| `handles_safety` | 2 sessions, 3 requests, 2 responses, 2 handles, 2 strings, a cap of 3 bytes | `RefCountIsExact`, `CurrentsPointBack`, `StringsHaveOneOwner`; `TypeOK` keeps the body below the cap |
| `json_documents` | all texts of up to 2 lexemes; 8 longer ones with any lexeme put in anywhere; default, strict and lax settings; with the default ones also any two comments put in; a stack of 3 | `CopiesAgree`; `VerdictIsRight` (JSON at the beginning of a text is accepted, and besides exactly what the liberties allow; duplicates, and what trails, are refused if asked for; reading ends within a linear number of steps); `ReaderIsSound` (depth, pointers, errors reported truthfully, offsets); `RoundTrip` (what comes back of a value from each writer, and when it is lost) |
| `json_values` | 2 variables, trees of up to 4 nodes and depth 2, indices 0 to 2; 56 further values of up to two elements on two levels for the comparison | `OneOwner`, `OrderIsTotal`, `ContainersAreKept` (removal by index, paths) |
| `text_functions` | texts of up to 6 lines, widths 0 to 4, of which 4 does not fit the byte, 4 places, fair; every input of a few characters, bytes or pieces, chosen around the limits | `TokensMatchStack`, `NoBlockTooMany`, `EveryTextEnds` of the layout; `TextIsLaidOut`, `TextIsEncoded`, `NumbersAreKept`, `SourcesAreRead`, each a conjunction of one statement per function; see `TextFunctions` |

Why the bounds are enough. Two reactors are what it takes for the two routes
into `cleanup_after_transfer()` to race, two users for a sender and a waiter or
for two waiters; two pieces of body for one before and one after the end. Two
sessions are needed for one to take the other's place in the channel's list.
The counter needs values for every number of sessions on both sides of the wrap
and a gap between them, which 4 bits give to 3 sessions. Four handles and four
layers allow a chain of three under a handle that is being assigned to. Six
lines reach three nested blocks, a dedent across two of them and a dedent into
the middle of one, with continuation lines in between, and the width that does
not fit its byte occurs at every depth. Three requests are what a session with a
copy of its request, or with one left over from a reset, needs beside a fresh
one; a second session is needed for one to be deleted while the other lives. The
eight documents hold an object and an array within each other, empty containers,
a name that comes twice with values of different shape, an empty name, names and
strings with a zero byte, a comment in place of a comma, and nesting up to the
limit. Two variables with four nodes between them never hold two containers of
two elements at once, so the comparison is asked of `Probes` as well: arrays,
with and without a gap, objects and nested arrays, with integers, reals and NaN.
Three buffers allow a name, a string and a copy. The functions on text are asked with inputs that reach a little beyond each of their limits:
lines around the width, bytes at the borders of the forms of UTF-8, labels at the
largest integer, numbers of four bits. Symmetry is used among
threads, sessions, handles and layers, none of which is named in a property,
and only where no liveness is checked.

Deadlock checking is off where the system may stop: after a crash of the
process, a use of deleted memory, or the end of the text, or with all memory of
the instance used up.

Fairness. In `CurlSession!Fairness` each thread that is inside a call goes on
(strongly, because it may have to wait for a mutex that others take and
release), and some reactor gets to see the end of each transfer. The first is the
scheduling of threads; the second is an assumption about libcurl and the peer,
which the code does nothing to bring about: its low-speed time-out is not
compiled in, so a peer that stays silent keeps a transfer going for ever. Nothing
obliges a user to begin a
call, libcurl to deliver data, or a condition variable to wake up spuriously,
so `EveryWaiterReturns` rests on `notify_all()` alone. In `Lexer` the caller
keeps asking for the next token.

Runs that refute a statement of the repository (the quotations are under
`findings` in `PROJECT.json`):

| run | what happens |
|---|---|
| `session_wait` | `wait()` sees `idle` without the mutex and returns before effective URL and status code are written, while a second reactor has left the mutex in `store_bytes()` and has its piece of the body still to append |
| `session_reset` | `reset()` of a session that is idle after a transfer leaves it idle; it can never send again |
| `headers_cycle` | `a.get_defaults_from(b)`, then `b.get_defaults_from(a)` |

Other statements that TLC refutes in the same instances, and that have no run
of their own. Those about a state machine can be named as the only invariant of
its configuration; those about a function take its arguments, and become an
invariant in the way that `TextFunctions` states the others.

* `AssignableClock!FreshSessionActivates`: "This makes the underflow harmless"
  (`assignable_clock-inline.h:62`); a forced deactivation, or a constructor,
  comes between the two halves of a destructor, and the counter stays off.
* `AssignableClock!SleepNeverRewinds`: `sleep_until()` a time that has passed.
* `CurlChannel!LiveSessionsAreListed`: the id of a session is overwritten by a
  socket update; its destructor takes another session off the list, though it
  "can still be found in the channel's list" (`session.h:45`).
* `CurlChannel!NobodyPointsToDeleted`, `CurlHandles!NobodyPointsToDeleted`:
  "nobody can possibly have a pointer" (`session.cpp:46`); queued handlers do,
  and so do requests before a reset, copies of requests and responses of `get()`.
* `CurlChannel!RemainsOpen`, `IdIsFinal`, `BackrefsAreBroken`,
  `OneThreadInMulti`: a detached thread looks closed; the id is overwritten; a
  dying channel breaks no back-reference; senders and reactors share the multi
  handle.
* `Headers!DestructorIsSafe`, `CopiesAreIndependent`, `CountIncludesDefaults`:
  an object that was moved from cannot be destroyed; copies share what is set;
  the loop over the ancestors increments its iterator, not the counter.
* `Lexer!EveryIterationEnds`, `IndentIsThatOfLine`: dedents for ever once an
  indent does not fit its byte; a dedent to a column between two blocks.
* `Lexer!EveryBlockIsClosed`: the text ends without a line break, with blank
  lines, or with a token that consumed the line break: no final dedents.
* `LexerTokens!TokensAreWithinText`, `NumbersHaveOneValue`: a comment in the
  last line ends behind the text; `.5` is read by one of two number scanners.
* `CurlHandles!InvisibleSessionsEnd`, `NothingIsFreedTwice`, `CopiesAreDeleted`,
  `StringsAreOwned`: a throwaway session holds the response that should delete
  it; the effective URL is libcurl's; the copy constructor of `request` counts a
  reference that nobody has; `set_url()` forgets the string before.
* `JsonDocuments!AcceptsNothingElse`, `NothingTrails`: text may trail the value,
  comments are allowed by default and any token passes for a comma behind one,
  `{"":1,}` is accepted; and with `fail_if_extra` a token that is wrong in itself
  may follow.
* `JsonDocuments!WritersKeepAll`: strings or names are cut at a zero byte, a null
  that is dropped is not there, a comment that ends in a blank, or one that goes
  to the end of its line where there is no indentation, swallows what follows.
* `JsonDocuments!ErrorsPointIntoText`: `push_error()` counts from the end.
* `JsonOrder!ZeroMeansEqual`: `compare()` returns 0 for a NaN and any real.
* `JsonValue!ResizeIsExact`, `JsonPath!ParameterIsIndex`: arrays with gaps; a
  parameter of a path is expected to be of the wrong kind.
* `JsonScalars!Int64InRange`, `OnlyNumbersAreDecoded`: 2^63 is let through; a
  minus alone is 0.
* `Unicode!WellFormedIsUtf8`, `EscapeIsWhole`, `RoomShrinks`: characters that
  break off pass; an escape that fills its buffer loses its last digit; the room
  behind an escape grows.
* `NumberScan!OctalIsRead`, `FloatIsRead`: the first octal digit is skipped;
  digits before an exponent, and the sign of a fraction, are lost.
* `Interp!ReferencesAreArguments`, `BracesAreDoubled`: numbers beyond 2^32 are
  taken for small ones; `{{` at the end of a format stays.
* `TextPieces!OrderIsTransitive`, `EveryNumberIsWritten`: `A` = `a`, and `A` <
  `_` < `a`; the search for a power of the base does not end.
* `IntentLexer!IndentIsDetected`, `EveryTextIsLexed`, `FirstLineMayBeBad`: the
  indent never grows; a blank at the beginning of a line is looked at for ever;
  an error in the first line hides the beginning of the document.

## 4. The proofs

Eight modules hold the theorems; each extends the module it is about. Every
theorem names a property that a run checks, so the run shows it on an instance
and the theorem for every value of the constants; `ReadersKeepApart` names the
parts of one, of which more holds than of the whole. The inductive invariants
were checked by TLC before they were proved.

| module | theorem | states |
|---|---|---|
| `AssignableClockProofs` | `ClockTypeOK`, `SessionCountIsExact`, `ClockDriftIsBounded` | `TypeOK`, `CountIsLive`, `DriftIsBounded` |
| `CurlSessionProofs` | `SessionTypeOK`, `CleanupHappensOnce`, `ReadyIsFinal`, `CleanupIsPostedOnce` | `TypeOK`, `HandleRemovedOnce`, `ReadyMeansFinal`, `NoRepost` |
| | `StateAdvances`, `NoNewData` | the action properties `StateOnlyAdvances`, `NoNewDataWhenReady` |
| | `SessionImplementsContract` | the refinement of `TransferContract` |
| `CurlChannelProofs` | `ChannelTypeOK`, `ChannelNothingLost`, `ChannelNoStall` | `TypeOK`, `NothingLost`, `NoStall` |
| `CurlHandlesProofs` | `HandlesTypeOK`, `HandlesRefCountIsExact`, `HandlesCurrentsPointBack`, `HandlesStringsHaveOneOwner` | `TypeOK`, `RefCountIsExact`, `CurrentsPointBack`, `StringsHaveOneOwner` |
| `HeadersProofs` | `HeadersTypeOK`, `HeadersRefCountIsExact`, `HeadersSourceStaysAlive`, `HeadersNoLeak` | `TypeOK`, `RefCountIsExact`, `SourceStaysAlive`, `NoLeak` |
| `LexerProofs` | `LexerTypeOK`, `LexerNoBlockTooMany`, `LexerTokensMatchStack` | `TypeOK`, `NoBlockTooMany`, `TokensMatchStack` |
| `JsonValueProofs` | `ValueTypeOK`, `ValueOneOwner` | `TypeOK`, `OneOwner` |
| | `ValueContainersAreKept` | the action property `ContainersAreKept` |
| `JsonReaderProofs` | `ReaderTypeOK`, `ReaderSound` | `TypeOK`, `ReaderIsSound`, for one reader |
| | `ReadersKeepApart` | `LastValueIsAlive`, `ErrorsTellTheTruth`, `OffsetsNest`, for any number of readers |

`AssignableClockProofs`, for any finite set of sessions smaller than the limit
and any limit smaller than the modulus:

* `ClockTypeOK`. `CounterArithmetic` says what `++` and `fetch_sub` do inside
  the unsigned type; the rest is a case per action.
* `SessionCountIsExact`: `CountIsLive` together with `TypeOK` is inductive.
  Constructing adds one element to the set of live sessions and destroying
  removes one (facts about finite cardinalities); since the counter equals the
  cardinality, it is not zero when a destructor runs, so no correction follows.
* `ClockDriftIsBounded`. The bound of `2 * N` is not inductive: from a counter
  at the bound a constructor could leave it. `DriftInv` ties the signed value of
  the counter to the number of live sessions, give or take `N`, and counts the
  corrections that are still to come. A counter that is too narrow to be out of
  bounds is a case of its own.

`CurlSessionProofs`, for any sets of users and reactors:

* `IInv == TypeOK /\ Locking /\ Ending /\ Starting /\ Waiting` is inductive
  (`InitInv`, `UserStepInv`, `ReactorStepInv`, `Invariance`). The safety
  properties are not inductive alone: that the handle is removed once needs to
  know that only the owner of the mutex is in the body of
  `cleanup_after_transfer()` (`Locking`), how far it has come (`Ending`), and
  that nothing that leads to a cleanup exists before the transfer is over
  (`Starting`). `Waiting` ties what waiters were told to the state.
* All theorems follow from it. For `NoNewData`, a wait that returned true saw the
  idle state, which `Waiting` keeps, and `Ending` says that the transfer is over
  by then, so that libcurl delivers nothing; a reactor that is about to append
  got its piece before.

`CurlChannelProofs`, for any sets of sessions and reactors:

* `ChannelNothingLost`: `OnItsWay` says for each session where it can be. The
  property speaks of busy sessions only; the invariant has to say also that a
  session that is not sent yet is unknown to libcurl.
* `ChannelNoStall` holds when no reactor is in libcurl, and says nothing
  about the steps in between, so the invariant `WatchOK` is about all states: a
  direction is watched by a handler, or by a reactor that is going to queue one
  because what it compares will be equal (`Watched`). That depends on which field
  the pointer of a handler or reactor points to (`PointsTo`): one to
  `curl_socket_state` was bound by `add_socket()`, and one to `id` by a later
  update, the latest of which left in the id what libcurl wants.
  `Untouched`/`WatchFrame` deal with the sessions a step is not about.

`CurlHandlesProofs`, for any sets of sessions, requests, responses, handles and
strings and any cap. `HandlesInv == TypeOK /\ Counted /\ Linked /\
StringsHaveOneOwner /\ fault # "recursion"` is inductive, with one lemma per
action (`...Keeps`). The parts need each other: a count stays a natural number
because whoever releases a reference was counted; the count of a new object is
right because nothing holds an object that is not made; that releasing the
current objects of a session touches no other session follows from the pointers
back (`SessionLinked`); and that deleting a response does not delete the session
whose destructor is running follows from `OwnerIsCurrent`. A request that the
copy constructor made is counted once more than it is held, which the theorem
says: it is never deleted.

`HeadersProofs`, for any finite sets of handles and layers, cycles of defaults
included:

* `HeadersInv == TypeOK /\ JobIsSound /\ FreeIsClean /\ RefCountIsExact`. While
  an operation is under way a reference that is held by no object is counted as
  the operation's own; `JobIsSound` says that its handles are constructed and
  distinct, `FreeIsClean` that a new layer inherits no reference from the memory
  it is made in. `SourceStaysAlive` follows.
* `HeadersNoLeak`: a live layer that no handle reaches has a referrer, which is
  then such a layer too. Without endless chains all walks from such layers end
  within some number of steps; take the least one. The walk from a referrer is
  one step longer than the walk from the layer (`HopShifts`), so there is no such
  layer (`NoFirstLayer`). The inductions this needs are stated with sets:
  `LeastElement` is the well-foundedness of the naturals, and `WalkExists` and
  `HopSteps` apply it to the walks that define a chain.

`LexerProofs`, for texts of any length, any widths and any size of the stack:

* `LexerInv == TypeOK /\ StackWithinTotal /\ PendingIsSane /\ ContentIsCovered`.
  That popping does not take the total below zero needs the sum of the widths
  on the stack. It is not computed: `EndsAt(s, e)` says that there are offsets
  that begin at 0, grow by the widths of `s` and end at `e`, which a push extends
  and a pop cuts back, so no induction is needed.
* `LexerTokensMatchStack` is about a text up to the first width that does not fit
  `Byte`, which is 256 in the code: the code stores widths in bytes but adds them
  up as they are, and from there on it may report dedents that nothing was
  indented for. Its own invariant, `Reported`, says that as long as nothing was
  `cut` the stack takes up the whole of the total width, the columns to be closed
  are within it, and the tokens are those of the stack. The theorem has no
  hypothesis about widths.

`JsonValueProofs`, for any variables, names, scalars and paths and any bounds:

* `Inv == TypeOK /\ OneOwner` is inductive. A value is a map from paths to nodes,
  and an operation cuts, moves or replaces a part of it; there is a lemma for each
  such move that says which paths the result has and what is there (`...Facts`),
  that it is a tree again (`...IsTree`), and which buffers it holds (`...Holds`).
  A step is right if what a variable gains or loses is what the heap does
  (`Trades`, `OneStep`, `TwoStep`), so that buffers of other variables stay
  theirs, also where a value is assigned to, or swapped with, a part of the same
  variable.
* `ValueContainersAreKept` needs in addition what is where after the loop of
  `remove_index()` (`ShiftedLeftPlaces`) and after `make()` (`ResolveFinds`). Both
  loops are recursive functions over the length of a path or the index in an
  array, and the provers have no induction. `MakingExists` and `ShiftingExists`
  show that there is a function that satisfies the equation, taking the least
  argument for which there is none (`LeastElement`); everything else is proved of
  any such function.

`JsonReaderProofs`, for texts of any length and any settings:

* `Sound` is inductive for any number of readers. For each it says that the
  position is within the text; that the stack is the way from the root to the
  current value (`StackIsPath`); that there is no error while values are read,
  one while the reader recovers, and at the end one exactly if `parse()` returns
  false; and where `last_value_` and the offsets are. That `last_value_` is
  alive is not inductive, since a member that occurs twice overwrites the first: `LastIsNear` says that the pointer is never
  below the value that is about to be overwritten. That offsets nest is a
  statement about the end; `Laid` tells apart the values that are being read, the
  ones read to their end, and the ones left from a member of the same name. With
  dropped placeholders the first element of `[,1]` begins at the bracket, so a
  value may then begin with its container, but still ends before it.
* Steps are put together from a few moves (take a token, begin a value, go down,
  complete a value, fail), with a lemma for each.
* `ReaderTypeOK` and `ReaderSound` have the hypothesis `OneReader`, and add
  `Deep`: the global counter is at least the number of calls of `read_value()`
  that are active. It may be more, since the default case of `read_value()`
  returns without counting down. The hypothesis is needed because `parse()` sets
  the counter to zero for all readers, after which the calls of another one would
  count down from there.

Assumptions are those named in the modules: users, reactors and "no thread" are
distinct, verbs are of the two kinds, bounds are natural numbers, sets that are
counted are finite. In `CurlHandles`, requests and responses are different
objects and the verbs of the standard methods, which are literals in the code,
are no memory that a request owns. In `JsonValue`, indices are written in
different ways, none of which is also a name, and scalars hold no more than one
string; in `JsonReader`, the limit of the stack is not zero and a text is a
sequence of strings.

Only model-checked:

* `EveryTransferEnds`, `EveryWaiterReturns` and `EveryTextEnds`: liveness rests on
  fairness, hence on ENABLED, which is out of the prover's reach.
* `CopiesAgree`, `VerdictIsRight` and `RoundTrip` of `JsonDocuments`,
  `OrderIsTotal` of `JsonOrder` and the four statements of `TextFunctions`. The functions
  on text, the writers, the second reader, the grammar of JSON and the order of
  values are recursive operators, of which nothing can be proved for every input,
  and the prover loses its arithmetic in modules that reach one.
* The three properties that the code does not keep, which TLC refutes.

## 5. Plan

Done, in this order: the clock, the session and its contract, the channel,
headers, the layout part of the lexer; proofs about the clock and the session;
JSON, the functions on text, the Python front end, the tokens of the C++ lexer,
and the handles of requests and responses; proofs about the channel, the handles,
headers and the lexer, the drift of the clock, and the body of a response; proofs
about the values and the reader of JSON; exact statements of where the functions
on text, the JSON writers, the grammar and the layout fall short.

Next theorem: `NobodyPointsToDeleted` of `CurlHandles` for programs that neither
copy requests nor reset sessions, which is what the comment in `session.cpp` has
in mind.

Next modules:

1. `Stopwatch`, composed with `AssignableClock`; abstract specification: a
   stopwatch that measures running time.
2. `Cmdline`: define, validate, use; `ProgressTracker`: expected and done work.
3. `CurlChannel` with the synchronous `on_timeout()` of a time-out of zero, and
   reused connections.
4. Two JSON readers at once, of which one uses up the other's stack.

## 6. Not modelled

Vendored and generated code (`external`, the grammars), I/O, messages and
formatting, annotations and macros, stubs of the parser, `discrete_task-inline.h`,
which does not compile, the row reader of `xsv`, which is compiled out, and the
trie, which is unfinished. Of JSON, the iterators; of handles, the storage of
header lines and the progress counters. libcurl and asio are modelled only as far
as the code relies on them.
