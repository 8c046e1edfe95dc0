--------------------------- MODULE RecordRegistry ----------------------------
(***************************************************************************)
(* What the store of records promises, without files, index or commits.    *)
(* A record is absent, then live, then withdrawn, and collects votes while *)
(* it is live.  The service knows of its records before the remote does:   *)
(* what it has not published yet is published together, by a later push    *)
(* of any request.  RecordStore implements it, one request at a time, as   *)
(* long as no handler is cut off.                                          *)
(***************************************************************************)
CONSTANTS
    Records,  \* the records there may be
    Voters    \* the votes there may be

VARIABLES
    known,      \* each record as the service has it
    published,  \* each record as the remote has it
    owned,      \* the records whose token was given to somebody
    sound       \* every handler so far has run to its end

vars == <<known, published, owned, sound>>

Absent    == [status |-> "absent", votes |-> {}]
Withdrawn == [status |-> "withdrawn", votes |-> {}]
Live(S)   == [status |-> "live", votes |-> S]

Init ==
    /\ known = [q \in Records |-> Absent]
    /\ published = known
    /\ owned = {}
    /\ sound = TRUE

\* The life of a record: b is a, or comes after a.
Later(a, b) ==
    \/ a = b \/ a = Absent \/ b = Withdrawn
    \/ a.status = "live" /\ b.status = "live" /\ a.votes \subseteq b.votes

\* A commit changes one record.
Change(q, e) == known' = [known EXCEPT ![q] = e] /\ UNCHANGED <<published, owned>>

Create(q)   == known[q] = Absent /\ Change(q, Live({}))
Vote(q, v)  == known[q].status = "live" /\ Change(q, Live(known[q].votes \cup {v}))
\* Nobody withdraws a record whose token was not given out: it stays live.
Withdraw(q) == known[q].status = "live" /\ q \in owned /\ Change(q, Withdrawn)

\* A push publishes all that is known; it gives the token of a live record
\* away, or none (when the push is for another request, or is not heard).
Push ==
    /\ \A q \in Records : Later(published[q], known[q])
    /\ published' = known
    /\ \/ UNCHANGED owned
       \/ \E q \in Records : known[q].status = "live" /\ owned' = owned \cup {q}
    /\ UNCHANGED known

\* A pull learns what others published, and loses nothing.
Pull ==
    /\ \A q \in Records : Later(known[q], published[q])
    /\ known' = published
    /\ UNCHANGED <<published, owned>>

\* Another writer of the remote publishes a record.
Announce(q) ==
    /\ published[q] = Absent
    /\ published' = [published EXCEPT ![q] = Live({})]
    /\ UNCHANGED <<known, owned>>

Next ==
    \/ /\ sound /\ sound'
       /\ \/ \E q \in Records : \/ Create(q) \/ Withdraw(q) \/ Announce(q)
                                \/ \E v \in Voters : Vote(q, v)
          \/ Push \/ Pull
    \/ ~sound'

Spec == Init /\ [][Next]_vars
=============================================================================
