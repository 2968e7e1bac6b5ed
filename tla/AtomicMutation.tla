--------------------------- MODULE AtomicMutation ---------------------------
(***************************************************************************)
(* What a mutation promises its client and the people who share the trees: *)
(* it takes effect in every tree it writes or in none, in one step, and    *)
(* when that promise cannot be kept the mutation is flagged.  A tree that  *)
(* somebody else commits to meanwhile is outside the promise.              *)
(***************************************************************************)
CONSTANTS Trees, Mutations, Contents, Keep

VARIABLES
    content,  \* what each tree holds, committed
    pending,  \* the mutation asked for, or NoRequest
    edited,   \* the trees others have written since it was asked for
    flagged   \* the mutations that could be neither finished nor undone

vars == <<content, pending, edited, flagged>>

NoRequest == [id |-> "none"]
Requests  == [id : Mutations, target : [Trees -> Contents \cup {Keep}]]

Init == /\ content \in [Trees -> Contents]
        /\ pending = NoRequest /\ edited = {} /\ flagged = {}

Ask == /\ pending = NoRequest /\ pending' \in Requests
       /\ edited' = {} /\ UNCHANGED <<content, flagged>>

\* Others commit to a tree; while a mutation is pending this shows at its end.
Edit(t) ==
    \/ /\ pending = NoRequest
       /\ \E c \in Contents : content' = [content EXCEPT ![t] = c]
       /\ UNCHANGED <<pending, edited, flagged>>
    \/ /\ pending # NoRequest
       /\ edited' = edited \cup {t}
       /\ UNCHANGED <<content, pending, flagged>>

Target(t) == IF pending.target[t] = Keep THEN content[t] ELSE pending.target[t]

Settle == pending # NoRequest /\ pending' = NoRequest /\ edited' = {}

Commit == /\ Settle /\ UNCHANGED flagged
          /\ content' \in [Trees -> Contents]
          /\ \A t \in Trees \ edited : content'[t] = Target(t)

Abort == /\ Settle /\ UNCHANGED flagged
         /\ content' \in [Trees -> Contents]
         /\ \A t \in Trees \ edited : content'[t] = content[t]

Fail == /\ Settle /\ flagged' = flagged \cup {pending.id}
        /\ content' \in [Trees -> Contents]
        /\ \A t \in Trees \ edited :
              content'[t] # content[t] => pending.target[t] # Keep

Next == Ask \/ Commit \/ Abort \/ Fail \/ \E t \in Trees : Edit(t)

Spec == Init /\ [][Next]_vars
=============================================================================
