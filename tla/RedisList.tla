------------------------------- MODULE RedisList -------------------------------
(***************************************************************************)
(* The Redis lists the services queue messages on, as the retrying helpers *)
(* of pkg/db/redis use them: RPushWithRetry and LPopWithRetry (redis.go),  *)
(* and sendRPushWithRetry and sendLPopWithRetry with the wrappers that     *)
(* pick the client of a role (send_roles.go).  Each helper makes up to     *)
(* Retry attempts, 100 ms apart, which the modules take one step at a      *)
(* time, for others use the list in between.  An attempt is executed and   *)
(* answered ("ok"), or executed with the answer lost ("lost"), or not      *)
(* executed ("failed").  The helpers cannot tell the last two apart and    *)
(* try again after both.  An attempt that is not executed and is repeated  *)
(* changes nothing and is no step here: "failed" says that none of the     *)
(* attempts that are left is executed.                                     *)
(***************************************************************************)
EXTENDS Integers, Sequences, FiniteSets, Counting

Outcomes == {"ok", "lost", "failed"}

\* The list after one RPUSH of v.
Pushed(list, v, o) == IF o = "failed" THEN list ELSE Append(list, v)

\* Mutant of Popped: the head is read and stays.
PoppedNot(list, o) == list
\* The list after one LPOP.
Popped(list, o) == IF o = "failed" \/ list = << >> THEN list ELSE Tail(list)

\* The helper returns without an error (redis.Nil for an empty list included);
\* it tries again; it returns the last error.
Answers(o) == o = "ok"
TriesAgain(o, tries) == o = "lost" /\ tries > 1
GivesUp(o, tries) == o = "failed" \/ (o = "lost" /\ tries <= 1)

\* The caller, with one attempt less.
Again(w) == [w EXCEPT !.tries = @ - 1]
================================================================================
