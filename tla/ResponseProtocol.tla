-------------------------- MODULE ResponseProtocol --------------------------
(***************************************************************************)
(* What a client of the Realtime API may rely on: the log of the server's  *)
(* events.  A response is created once, when no other is open, everything  *)
(* delivered belongs to the response that is open, and the response is     *)
(* closed once, after which its id is never seen again.  Events about      *)
(* turns may come in between.                                              *)
(***************************************************************************)
EXTENDS Naturals, Sequences

CONSTANT ResponseEvents  \* types of the events about a response

VARIABLE log  \* sequence of [type, rid, ...]

Created(l, r) == \E i \in 1..Len(l) : l[i].type = "created" /\ l[i].rid = r
Closed(l, r) == \E i \in 1..Len(l) : l[i].type \in {"done", "cancelled"} /\ l[i].rid = r
IsOpen(l, r) == Created(l, r) /\ ~Closed(l, r)

\* The event e may follow the log l.
Legal(l, e) ==
    /\ e.type = "created" =>
          ~Created(l, e.rid) /\ \A i \in 1..Len(l) : ~IsOpen(l, l[i].rid)
    /\ e.type \in ResponseEvents \ {"created"} => IsOpen(l, e.rid)

RPInit == log = <<>>
RPNext ==
    /\ log' # <<>>
    /\ LET e == log'[Len(log')] IN log' = Append(log, e) /\ Legal(log, e)

\* A step of the protocol or none.
RPStep == RPNext \/ UNCHANGED log

RPSpec == RPInit /\ [][RPStep]_log
=============================================================================
