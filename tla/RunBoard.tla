------------------------------ MODULE RunBoard ------------------------------
(***************************************************************************)
(* What the scan_runs collection promises to its readers (the activity     *)
(* feed, the "already running" check, gone-detection), without the         *)
(* processes that write it: a run has at most one holder, only its holder  *)
(* makes it RUNNING, SUCCESS or CANCELLED, CANCELLED only when a stop was   *)
(* asked for, and anybody else can only declare it FAILED.  Once the       *)
(* holder gave its verdict it must take the run anew to change it.         *)
(***************************************************************************)
CONSTANT Scans

VARIABLES
  board,  \* board[s], the status shown for s
  held,   \* the runs some worker is executing
  asked   \* asked[s], a stop of s was recorded

boardVars == <<board, held, asked>>

Open == {"queued", "running"}

BoardInit ==
  /\ board = [s \in Scans |-> "absent"]
  /\ held  = {}
  /\ asked = [s \in Scans |-> FALSE]

Show(s, st) == board' = [board EXCEPT ![s] = st]

Submit(s) ==
  /\ board[s] = "absent"
  /\ Show(s, "queued")
  /\ UNCHANGED <<held, asked>>

Take(s) ==
  /\ s \notin held
  /\ Show(s, "running")
  /\ held' = held \cup {s}
  /\ UNCHANGED asked

\* The holder advances the run, and shows it running whatever was shown.
Advance(s) ==
  /\ s \in held
  /\ Show(s, "running")
  /\ UNCHANGED <<held, asked>>

Decide(s, verdict) ==
  /\ s \in held
  /\ verdict = "cancelled" => asked[s]
  /\ Show(s, verdict)
  /\ held' = held \ {s}
  /\ UNCHANGED asked

\* The holder is gone without a word.
Drop(s) ==
  /\ s \in held
  /\ held' = held \ {s}
  /\ UNCHANGED <<board, asked>>

\* The reaper, or the API whose enqueue failed.
GiveUp(s) ==
  /\ board[s] # "absent"
  /\ Show(s, "failed")
  /\ UNCHANGED <<held, asked>>

Ask(s) ==
  /\ board[s] \in Open
  /\ asked' = [asked EXCEPT ![s] = TRUE]
  /\ UNCHANGED <<board, held>>

BoardNext ==
  \E s \in Scans :
    \/ Submit(s) \/ Take(s) \/ Advance(s) \/ Drop(s) \/ GiveUp(s) \/ Ask(s)
    \/ \E verdict \in {"success", "failed", "cancelled"} : Decide(s, verdict)

BoardSpec == BoardInit /\ [][BoardNext]_boardVars
=============================================================================
