--------------------------- MODULE SignedRequests ---------------------------
(***************************************************************************)
(* What the signed-call protocol promises, without messages, receipts or   *)
(* polls: callers issue requests that carry a nonce, each DID takes them   *)
(* in nonce order, and a call is told the truth about the request it       *)
(* issued or is told nothing.                                              *)
(***************************************************************************)
EXTENDS Integers, Sequences

CONSTANTS Callers, Requests, Dids

VARIABLES
    sent,       \* sent[c]: the requests caller c has issued, in order
    applied,    \* the issued requests, as <<caller, position>>, that took effect
    nonceOf,    \* nonceOf[d]: the number of requests that took effect on DID d
    answer      \* answer[c]: what c's current or last call was told

absVars == <<sent, applied, nonceOf, answer>>

AbsInit ==
    /\ sent = [c \in Callers |-> <<>>]
    /\ applied = {}
    /\ nonceOf = [d \in Dids |-> 0]
    /\ answer = [c \in Callers |-> "none"]

\* A caller that is not in a call prepares one, or fails to.
Prepare(c) ==
    /\ answer[c] # "open"
    /\ \E a \in {"none", "unknown"} : answer' = [answer EXCEPT ![c] = a]
    /\ UNCHANGED <<sent, applied, nonceOf>>

\* A request leaves its caller only while its nonce is current; the caller
\* waits for the answer, or has already lost it.
Issue(c) ==
    /\ answer[c] # "open"
    /\ \E op \in Requests :
          sent' = [sent EXCEPT ![c] = Append(@, [op |-> op, nonce |-> nonceOf[op.did]])]
    /\ \E a \in {"open", "unknown"} : answer' = [answer EXCEPT ![c] = a]
    /\ UNCHANGED <<applied, nonceOf>>

\* The i-th request of c takes effect: it is the next one of its DID.
Apply(c, i) ==
    /\ i \in DOMAIN sent[c]
    /\ sent[c][i].nonce = nonceOf[sent[c][i].op.did]
    /\ applied' = applied \cup {<<c, i>>}
    /\ nonceOf' = [nonceOf EXCEPT ![sent[c][i].op.did] = @ + 1]
    /\ UNCHANGED <<sent, answer>>

\* Another request took the place of c's i-th one, which never takes effect.
Overtaken(c, i) ==
    /\ <<c, i>> \notin applied
    /\ sent[c][i].nonce < nonceOf[sent[c][i].op.did]

\* "yes" and "no" are definite, "unknown" never is.
Answer(c) ==
    /\ answer[c] = "open"
    /\ \/ <<c, Len(sent[c])>> \in applied /\ answer' = [answer EXCEPT ![c] = "yes"]
       \/ Overtaken(c, Len(sent[c])) /\ answer' = [answer EXCEPT ![c] = "no"]
       \/ answer' = [answer EXCEPT ![c] = "unknown"]
    /\ UNCHANGED <<sent, applied, nonceOf>>

AbsNext ==
    \E c \in Callers :
        \/ Prepare(c)
        \/ Issue(c)
        \/ \E i \in DOMAIN sent[c] : Apply(c, i)
        \/ Answer(c)

AbsSpec == AbsInit /\ [][AbsNext]_absVars
=============================================================================
