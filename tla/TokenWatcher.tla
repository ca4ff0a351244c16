------------------------------ MODULE TokenWatcher ------------------------------
(***************************************************************************)
(* The goroutine of site-manager that keeps the token for requests to the  *)
(* services in memory (pkg/service/handle_token.go), and the mounted file  *)
(* it watches.  Tokens are numbered by the rotation that wrote them.  The  *)
(* kubelet never writes the file in place: it points the path at a new     *)
(* file and then removes the old one, and a watch reports that removal.    *)
(***************************************************************************)
EXTENDS Naturals, Sequences

CONSTANTS
  MaxRotations,  \* bound: rotations of the token
  MaxFailures    \* bound: errors that end the process

ASSUME BoundsAssumption == MaxRotations \in Nat /\ MaxFailures \in Nat

VARIABLES
  file,      \* the token the path leads to
  kept,      \* the oldest file the kubelet has not removed
  oldest,    \* the oldest token the API server still authenticates
  watched,   \* the token of the file under the watch, or NoToken
  event,     \* a removal is queued in the channel of the watcher
  held,      \* currentToken
  todo,      \* what is left of Start's preamble or of handleEvent
  settled,   \* handleEvent has read the file since the process started
  failures   \* counts the errors

tokenVars == <<file, kept, oldest, watched, event, held, todo, settled, failures>>

NoToken == 0

Tokens == 0 .. MaxRotations + 1

\* Start reads first and watches second; a removal is answered the other way round.
OnStart == <<"read", "watch">>

\* mutant: handleEvent in the order of Start.
OnRemove_AsStart == <<"reread", "rewatch">>

\* mutant: the watch is thought to outlive the file.
OnRemove_NoRewatch == <<"reread">>

OnRemove == <<"rewatch", "reread">>

TokenInit ==
  /\ file = 1 /\ kept = 1 /\ oldest = 1
  /\ watched = NoToken /\ event = FALSE /\ held = NoToken
  /\ todo = OnStart /\ settled = FALSE /\ failures = 0

---------------------------------------------------------------------------
(* The kubelet and the API server *)

Rotate ==
  /\ file <= MaxRotations /\ kept = file
  /\ file' = file + 1
  /\ UNCHANGED <<kept, oldest, watched, event, held, todo, settled, failures>>

\* inotify drops the watch with the file, and says so.
RemoveOld ==
  /\ kept < file
  /\ kept' = file
  /\ IF watched = kept THEN watched' = NoToken /\ event' = TRUE
                       ELSE UNCHANGED <<watched, event>>
  /\ UNCHANGED <<file, oldest, held, todo, settled, failures>>

\* A token outlives its rotation by a fifth of its lifetime (12 minutes of the
\* 3607 seconds of the chart), longer than the kubelet keeps its file.
Expire ==
  /\ oldest < file /\ kept = file
  /\ oldest' = oldest + 1
  /\ UNCHANGED <<file, kept, watched, event, held, todo, settled, failures>>

---------------------------------------------------------------------------
(* Start, handleEvent and readToken *)

Does(steps) == todo # <<>> /\ Head(todo) \in steps /\ todo' = Tail(todo)

ReadToken ==
  /\ Does({"read", "reread"})
  /\ held' = file
  /\ settled' = (settled \/ Head(todo) = "reread")
  /\ UNCHANGED <<file, kept, oldest, watched, event, failures>>

AddWatch ==
  /\ Does({"watch", "rewatch"})
  /\ watched' = file
  /\ UNCHANGED <<file, kept, oldest, event, held, settled, failures>>

HandleEvent ==
  /\ todo = <<>> /\ event
  /\ event' = FALSE
  /\ todo' = OnRemove
  /\ UNCHANGED <<file, kept, oldest, watched, held, settled, failures>>

\* An error of a read or of a watch goes to the error channel and ends the
\* process; its container is started again.
WatcherFails ==
  /\ todo # <<>> /\ failures < MaxFailures
  /\ failures' = failures + 1
  /\ watched' = NoToken /\ event' = FALSE /\ held' = NoToken
  /\ todo' = OnStart /\ settled' = FALSE
  /\ UNCHANGED <<file, kept, oldest>>

Kubelet == Rotate \/ RemoveOld \/ Expire
Watcher == ReadToken \/ AddWatch \/ HandleEvent

TokenFairness ==
  /\ WF_tokenVars(Watcher)
  /\ WF_tokenVars(RemoveOld)

---------------------------------------------------------------------------

TokenTypeOK ==
  /\ file \in 1 .. MaxRotations + 1
  /\ kept \in {file, file - 1} \ {0}
  /\ oldest \in 1 .. file
  /\ watched \in Tokens /\ watched <= file
  /\ event \in BOOLEAN
  /\ held \in Tokens /\ held <= file
  /\ todo \in {OnStart, OnRemove, Tail(OnStart), Tail(OnRemove), <<>>}
  /\ settled \in BOOLEAN
  /\ failures \in 0 .. MaxFailures

\* The file is going to be read again.
RereadComes == event \/ \E i \in DOMAIN todo : todo[i] = "reread"

\* From the first removal it has handled on, site-manager holds a token that is
\* still accepted or has been told to read the next one, however rotations and
\* expiries fall between its steps: it never rests on a token that is refused.
\* (Start reads before it watches: a rotation in between is missed until the next
\* one, so nothing can be said of the time before.)  handle_token.go:116.
TokenAccepted == settled => held >= oldest \/ RereadComes

\* From then on every rotation reaches the token in memory, unless an error ends
\* the process first.  handle_token.go:103.
TokenArrives ==
  \A v \in Tokens : (settled /\ file >= v) ~> (held >= v \/ ~settled)
================================================================================
