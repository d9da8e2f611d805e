---------------------------- MODULE FileDelivery ----------------------------
(***************************************************************************)
(* What the transfer of files between two agents promises: a file changes  *)
(* to a version that was offered for this very place, as a whole, and a    *)
(* sender that is told of success had its version put there.  A transfer   *)
(* that failed may be carried out all the same, and one that sent a file   *)
(* in full may leave the place damaged; its sender is then told of an      *)
(* error, or of nothing.                                                   *)
(***************************************************************************)
CONSTANTS Devices, Paths, Versions, Numbers, None, Torn

VARIABLES content,   \* device -> path -> a version or None
          offered,   \* what has ever been offered for a place, and how
          sends,     \* the transfers under way
          told       \* what the sender that was last told something was told

Kinds == {"full", "delta"}
Offer == [to : Devices, path : Paths, data : Versions, kind : Kinds]
Puts  == {"no", "whole", "damaged"}

Init == /\ content \in [Devices -> [Paths -> (Versions \ {Torn}) \cup {None}]]
        /\ offered = {}
        /\ sends = {}
        /\ told = [ok |-> FALSE, put |-> "no"]

Offers(n, o) ==
    /\ offered' = offered \cup {o}
    /\ sends' = sends \cup {[n |-> n, offer |-> o, put |-> "no"]}
    /\ UNCHANGED <<content, told>>

PutsWhole(o) ==
    /\ o \in offered
    /\ content' = [content EXCEPT ![o.to][o.path] = o.data]
    /\ \/ UNCHANGED sends
       \/ \E s \in sends :
             /\ s.offer.to = o.to /\ s.offer.path = o.path /\ s.offer.data = o.data
             /\ sends' = (sends \ {s}) \cup {[s EXCEPT !.put = "whole"]}
    /\ UNCHANGED <<offered, told>>

Damages(o) ==
    /\ o \in offered /\ o.kind = "full"
    /\ content' = [content EXCEPT ![o.to][o.path] = Torn]
    /\ \/ UNCHANGED sends
       \/ \E s \in sends : sends' = (sends \ {s}) \cup {[s EXCEPT !.put = "damaged"]}
    /\ UNCHANGED <<offered, told>>

Tells(s, ok) ==
    /\ s \in sends
    /\ ok => s.put = "whole"
    /\ sends' = sends \ {s}
    /\ told' = [ok |-> ok, put |-> s.put]
    /\ UNCHANGED <<content, offered>>

\* A delta's source is read a second time: what is there by then is the version
\* that success will be about.
Rereads(s) ==
    /\ s \in sends /\ s.offer.kind = "delta" /\ s.put = "no"
    /\ \E v \in Versions : sends' = (sends \ {s}) \cup {[s EXCEPT !.offer.data = v]}
    /\ UNCHANGED <<content, offered, told>>

\* A process dies with its transfers.
Forgets == /\ sends' \subseteq sends
           /\ UNCHANGED <<content, offered, told>>

(******************* everybody else: the user, the engine ******************)

Writes(d, p) ==
    \E v \in Versions \ {Torn} :
        /\ \A e \in Devices, q \in Paths : content[e][q] # v
        /\ \A o \in offered : o.data # v
        /\ content' = [content EXCEPT ![d][p] = v]
        /\ UNCHANGED <<offered, sends, told>>

Removes(d, p) == /\ content' = [content EXCEPT ![d][p] = None]
                 /\ UNCHANGED <<offered, sends, told>>

Renames(d, p, q) ==
    /\ content' = [content EXCEPT ![d][q] = content[d][p], ![d][p] = None]
    /\ UNCHANGED <<offered, sends, told>>

Next ==
    \/ Forgets
    \/ \E s \in sends : Rereads(s) \/ \E ok \in BOOLEAN : Tells(s, ok)
    \/ \E o \in offered : PutsWhole(o) \/ Damages(o)
    \/ \E d \in Devices, p \in Paths : Writes(d, p) \/ Removes(d, p)
    \/ \E d \in Devices, p, q \in Paths : Renames(d, p, q)
    \/ \E n \in Numbers, o \in Offer : Offers(n, o)

vars == <<content, offered, sends, told>>
Spec == Init /\ [][Next]_vars
=============================================================================
