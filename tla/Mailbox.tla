------------------------------ MODULE Mailbox ------------------------------
(***************************************************************************)
(* What Bus.Subscribe of src/internal/core/events/bus.go promises to the   *)
(* code that ranges over the channel it returns: a mailbox.  While it is   *)
(* open, items are taken in the order they were put and none is lost;      *)
(* once it is cancelled the end of what is still in it may be thrown away, *)
(* but never its middle, and the mailbox ends.                             *)
(***************************************************************************)
EXTENDS Naturals, Sequences

CONSTANTS Readers,   \* the mailboxes, each with its own reader
          Items      \* what can be put into them

VARIABLES phase,     \* phase[r]: "none", "open", "closing" or "ended"
          box,       \* box[r]: what is put and not yet taken
          taken      \* taken[r]: everything the reader took, in order

mvars == <<phase, box, taken>>

MailInit == /\ phase = [r \in Readers |-> "none"]
            /\ box   = [r \in Readers |-> <<>>]
            /\ taken = [r \in Readers |-> <<>>]

Open(r) == /\ phase[r] = "none"
           /\ phase' = [phase EXCEPT ![r] = "open"]
           /\ UNCHANGED <<box, taken>>

Put(r, i) == /\ phase[r] = "open"
             /\ box' = [box EXCEPT ![r] = Append(@, i)]
             /\ UNCHANGED <<phase, taken>>

Take(r) == /\ box[r] # <<>>
           /\ taken' = [taken EXCEPT ![r] = Append(@, Head(box[r]))]
           /\ box' = [box EXCEPT ![r] = Tail(@)]
           /\ UNCHANGED phase

\* Throw away a suffix of what is in the box (possibly nothing).
Truncate(r) == \E n \in 0..Len(box[r]) : box' = [box EXCEPT ![r] = SubSeq(@, 1, n)]

Close(r) == /\ phase[r] = "open"
            /\ phase' = [phase EXCEPT ![r] = "closing"]
            /\ Truncate(r)
            /\ UNCHANGED taken

End(r) == /\ phase[r] = "closing"
          /\ phase' = [phase EXCEPT ![r] = "ended"]
          /\ Truncate(r)
          /\ UNCHANGED taken

MailNext == \E r \in Readers :
              \/ Open(r)
              \/ \E i \in Items : Put(r, i)
              \/ Take(r)
              \/ Close(r)
              \/ End(r)

\* An item is eventually taken by a reader that keeps reading, or thrown
\* away by a cancellation; a cancelled mailbox ends.
MailFairness == \A r \in Readers : WF_mvars(Take(r)) /\ WF_mvars(End(r))

MailSpec == MailInit /\ [][MailNext]_mvars /\ MailFairness
=============================================================================
