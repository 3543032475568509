---------------------------- MODULE NfMembership ----------------------------
(***************************************************************************)
(* What NfApp::run and NrfClient promise about this NF's membership in the *)
(* core network, with the requests between them and the NRF left out: it   *)
(* joins at most once, it leaves only as who it was told to be, and an end *)
(* that reports no failed deregistration is the end of the membership.     *)
(***************************************************************************)
CONSTANTS Ids,   \* the NF instance ids the NRF may assign
          None   \* "no id"

VARIABLES
    member,   \* the id under which the NRF holds this NF
    known,    \* the id the client was told
    process   \* "running", or how it ended: "clean" or "unclean"

vars == <<member, known, process>>

Init ==
    /\ member = None
    /\ known = None
    /\ process = "running"

\* The NRF stores the profile.  It may do so when the process has ended, but
\* not when that end was a clean one; and a client that has learned its id
\* never joins again, also when it has left.
Join(id) ==
    /\ member = None
    /\ known = None
    /\ process # "clean"
    /\ member' = id
    /\ UNCHANGED <<known, process>>

\* The client is told who it is.
Learn ==
    /\ process = "running"
    /\ member # None
    /\ known = None
    /\ known' = member
    /\ UNCHANGED <<member, process>>

\* The NRF removes the profile, at the request of a client that knew its id.
Leave ==
    /\ member # None
    /\ member = known
    /\ member' = None
    /\ UNCHANGED <<known, process>>

\* The process ends; cleanly only when it is no member.
End(how) ==
    /\ process = "running"
    /\ how = "clean" => member = None
    /\ process' = how
    /\ UNCHANGED <<member, known>>

Next ==
    \/ \E id \in Ids : Join(id)
    \/ Learn
    \/ Leave
    \/ \E how \in {"clean", "unclean"} : End(how)

Spec == Init /\ [][Next]_vars
=============================================================================
