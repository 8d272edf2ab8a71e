--------------------------- MODULE WriteOutcome ---------------------------
(***************************************************************************)
(* What a remote write promises its caller, whatever the bridge behind it  *)
(* does: the host performs a write at most once, the caller gets at most   *)
(* one answer, "ok" is only said of a write the host performed, and        *)
(* "dropped" only of a write the host never performs.  WriteBridge is      *)
(* shown to implement this specification.                                  *)
(***************************************************************************)
CONSTANT Writes

VARIABLES
  ran,      \* the writes the host has been asked to perform
  answer    \* what the caller was told, "none" before the answer

vars == <<ran, answer>>

Answers == {"ok", "dropped", "unknown", "failed", "busy"}

Init == /\ ran = {}
        /\ answer = [w \in Writes |-> "none"]

\* The host performs w.  Nobody was told that it was dropped, or refused.
Perform(w) == /\ w \notin ran
              /\ answer[w] \in {"none", "unknown"}
              /\ ran' = ran \cup {w}
              /\ UNCHANGED answer

\* Callers are told the outcome of their writes, each at most once.
Answer == /\ answer' \in [Writes -> Answers \cup {"none"}]
          /\ \A w \in Writes : answer'[w] # answer[w] =>
               /\ answer[w] = "none"
               /\ answer'[w] = "ok" => w \in ran
               /\ answer'[w] \in {"dropped", "busy"} => w \notin ran
          /\ UNCHANGED ran

Next == (\E w \in Writes : Perform(w)) \/ Answer

Spec == Init /\ [][Next]_vars
============================================================================
