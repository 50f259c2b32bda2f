------------------------------ MODULE Transport ------------------------------
(***************************************************************************)
(* Requests for sums and for blocks (client/transport.c).  do_request,     *)
(* called by the synchronisation thread only, publishes the number of a    *)
(* request, sends it and waits for at most REQUEST_WAIT seconds; threads   *)
(* of the network (process_transport_block) hand the answer over.  The     *)
(* number is claimed by an atomic exchange before g_process_mutex is       *)
(* taken, so that the wait can end, and another request begin, in between. *)
(*                                                                         *)
(* The buffer an answer is written to is on the stack of the request; it   *)
(* is known by the number of the request.  The numbers are drawn at random *)
(* from 64 bits, and so is reply_id_private: here they are all different.  *)
(***************************************************************************)
EXTENDS Integers

CONSTANTS
  Handler,      \* threads that process packets
  Connection,
  None,         \* no buffer, no connection, no packet
  MaxNumbers    \* bound on the numbers drawn

ASSUME NoneAssumption == None \notin Connection /\ None \notin Nat
ASSUME MaxNumbersAssumption == MaxNumbers \in Nat

VARIABLES
  reply_id,          \* number of the request to be answered, if it is not claimed
  last_reply_id,     \* number of the request that waits
  reply_id_private,  \* a number that no answer carries
  reply_rcvd,
  reply_result,      \* what the answer says, -1 while there is none
  reply_data,        \* buffer to be written by the answer, or None
  reply_connection,  \* connection that the sums came from, or None
  pc,                \* of do_request
  id,                \* number of the present or the latest request
  kind,              \* its type
  chosen,            \* connection that its request for sums was sent to, or None
  returned,          \* what the latest request returned
  claimed,           \* the answer that a thread has claimed, or None
  open,              \* open connections
  requests,          \* requests sent and not yet answered
  answers,           \* answers sent; they arrive late, more than once or never
  fresh              \* numbers from here on have not been drawn

vars == <<reply_id, last_reply_id, reply_id_private, reply_rcvd, reply_result, reply_data,
          reply_connection, pc, id, kind, chosen, returned, claimed, open, requests, answers, fresh>>

reply == <<last_reply_id, reply_rcvd, reply_result, reply_data>>
request == <<pc, id, kind, chosen, returned>>

Kind == {"sums", "blocks"}
Number == 1..(fresh - 1)
Packet == [id : Number, kind : Kind, result : Number]

TypeOK ==
  /\ reply_id \in Nat /\ last_reply_id \in Nat /\ reply_id_private \in Nat
  /\ reply_rcvd \in BOOLEAN
  /\ reply_result \in Number \cup {-1}
  /\ reply_data \in Number \cup {None}
  /\ reply_connection \in Connection \cup {None}
  /\ pc \in {"idle", "published", "sent", "waiting"}
  /\ id \in Nat /\ kind \in Kind /\ chosen \in Connection \cup {None}
  /\ returned \in [id : Nat, result : Number \cup {0, -1}, answered : BOOLEAN]
  /\ claimed \in [Handler -> Packet \cup {None}]
  /\ open \subseteq Connection
  /\ requests \subseteq Packet /\ answers \subseteq Packet
  /\ fresh \in Nat \ {0}

-----------------------------------------------------------------------------
\* do_request draws a number and publishes it.
Publish(k) ==
  /\ pc = "idle"
  /\ fresh < MaxNumbers
  /\ pc' = "published"
  /\ kind' = k
  /\ id' = fresh
  /\ reply_id' = fresh
  /\ fresh' = fresh + 1
  /\ UNCHANGED <<reply, reply_id_private, reply_connection, chosen, returned, claimed, open, requests, answers>>

\* Mutant: the number is not copied to the packet.
Question_NoNumber == [id |-> 0, kind |-> kind, result |-> id]

\* A request, and the answer that the other node gives to it.
Question == [id |-> id, kind |-> kind, result |-> id]

\* Mutant: reply_rcvd is not cleared.
Prepare_KeepReceived ==
  /\ last_reply_id' = id
  /\ reply_result' = -1
  /\ reply_data' = id
  /\ UNCHANGED reply_rcvd

\* do_request takes the mutex, which it gives up only to wait, and forgets what is
\* left of the request before.
Prepare ==
  /\ last_reply_id' = id
  /\ reply_rcvd' = FALSE
  /\ reply_result' = -1
  /\ reply_data' = id

\* It asks for sums on any open connection, if there is one.
SendSums ==
  /\ pc = "published" /\ kind = "sums"
  /\ Prepare
  /\ \/ /\ \E c \in open : chosen' = c
        /\ requests' = requests \cup {Question}
     \/ /\ open = {}
        /\ chosen' = None
        /\ UNCHANGED requests
  /\ pc' = "sent"
  /\ UNCHANGED <<reply_id, reply_id_private, reply_connection, id, kind, returned, claimed, open, answers, fresh>>

\* It asks for blocks on the connection that the sums came from, if that is open,
\* and on any if none is remembered.
SendBlocks ==
  /\ pc = "published" /\ kind = "blocks"
  /\ Prepare
  /\ \/ /\ reply_connection \in open \/ (reply_connection = None /\ open # {})
        /\ requests' = requests \cup {Question}
     \/ /\ reply_connection \notin open /\ (reply_connection # None \/ open = {})
        /\ UNCHANGED requests
  /\ pc' = "waiting"
  /\ UNCHANGED <<reply_id, reply_id_private, reply_connection, id, kind, chosen, returned, claimed, open, answers, fresh>>

\* It remembers the connection, which may be closed by now, and waits; or, without a
\* connection, returns 0 at once.
Remember ==
  /\ pc = "sent"
  /\ reply_connection' = chosen
  /\ \/ /\ chosen # None
        /\ pc' = "waiting"
        /\ UNCHANGED returned
     \/ /\ chosen = None
        /\ pc' = "idle"
        /\ returned' = [id |-> id, result |-> 0, answered |-> FALSE]
  /\ UNCHANGED <<reply_id, reply, reply_id_private, id, kind, chosen, claimed, open, requests, answers, fresh>>

\* The wait ends because of an answer.
Wake ==
  /\ pc = "waiting" /\ reply_rcvd
  /\ pc' = "idle"
  /\ returned' = [id |-> id, result |-> reply_result, answered |-> TRUE]
  /\ UNCHANGED <<reply_id, reply, reply_id_private, reply_connection, id, kind, chosen, claimed, open, requests, answers, fresh>>

\* Mutant: last_reply_id keeps the number of the request that timed out.
Timeout_KeepNumber ==
  /\ pc = "waiting"
  /\ pc' = "idle"
  /\ reply_data' = None
  /\ returned' = [id |-> id, result |-> reply_result, answered |-> reply_rcvd]
  /\ UNCHANGED <<reply_id, last_reply_id, reply_rcvd, reply_result, reply_id_private, reply_connection, id, kind, chosen, claimed, open, requests, answers, fresh>>

\* The wait ends because REQUEST_WAIT is over, also when an answer came before the
\* mutex was taken again.
Timeout ==
  /\ pc = "waiting"
  /\ pc' = "idle"
  /\ last_reply_id' = reply_id_private
  /\ reply_data' = None
  /\ returned' = [id |-> id, result |-> reply_result, answered |-> reply_rcvd]
  /\ UNCHANGED <<reply_id, reply_rcvd, reply_result, reply_id_private, reply_connection, id, kind, chosen, claimed, open, requests, answers, fresh>>

-----------------------------------------------------------------------------
\* process_transport_block claims the number of an answer.
Claim(h, m) ==
  /\ claimed[h] = None
  /\ m \in answers
  /\ reply_id = m.id
  /\ reply_id' = reply_id_private
  /\ claimed' = [claimed EXCEPT ![h] = m]
  /\ UNCHANGED <<reply, reply_id_private, reply_connection, request, open, requests, answers, fresh>>

\* Whether the request still waits for the answer that was claimed.
StillWanted(m) == last_reply_id = m.id

\* It takes the mutex and hands the answer over, or finds that it is too late.  Sums
\* are copied to the buffer that waits (whatever that is for: the kinds agree because
\* the numbers do), after an answer to a request for blocks it is only forgotten.
HandOver(h) ==
  /\ claimed[h] # None
  /\ pc # "sent"
  /\ \/ /\ StillWanted(claimed[h])
        /\ reply_data' = None
        /\ reply_rcvd' = TRUE
        /\ reply_result' = claimed[h].result
     \/ /\ ~StillWanted(claimed[h])
        /\ UNCHANGED <<reply_data, reply_rcvd, reply_result>>
  /\ claimed' = [claimed EXCEPT ![h] = None]
  /\ UNCHANGED <<reply_id, last_reply_id, reply_id_private, reply_connection, request, open, requests, answers, fresh>>

\* xdag_update_rip_thread
UpdatePrivate ==
  /\ fresh < MaxNumbers
  /\ reply_id_private' = fresh
  /\ fresh' = fresh + 1
  /\ UNCHANGED <<reply_id, reply, reply_connection, request, claimed, open, requests, answers>>

\* conn_close_notify_callback, which takes no mutex.
Close(c) ==
  /\ c \in open
  /\ open' = open \ {c}
  /\ reply_connection' = IF reply_connection = c THEN None ELSE reply_connection
  /\ UNCHANGED <<reply_id, reply, reply_id_private, request, claimed, requests, answers, fresh>>

Open(c) ==
  /\ c \notin open
  /\ open' = open \cup {c}
  /\ UNCHANGED <<reply_id, reply, reply_id_private, reply_connection, request, claimed, requests, answers, fresh>>

\* The other node, which runs this code too, answers, with a packet of the kind and
\* the number of the question.
Answer(m) ==
  /\ m \in requests
  /\ requests' = requests \ {m}
  /\ answers' = answers \cup {m}
  /\ UNCHANGED <<reply_id, reply, reply_id_private, reply_connection, request, claimed, open, fresh>>

-----------------------------------------------------------------------------
Init ==
  /\ reply_id = 0 /\ last_reply_id = 0 /\ reply_id_private = 0
  /\ reply_rcvd = FALSE /\ reply_result = -1 /\ reply_data = None /\ reply_connection = None
  /\ pc = "idle" /\ id = 0 /\ kind = "sums" /\ chosen = None
  /\ returned = [id |-> 0, result |-> 0, answered |-> FALSE]
  /\ claimed = [h \in Handler |-> None]
  /\ open = {} /\ requests = {} /\ answers = {}
  /\ fresh = 1

Next ==
  \/ \E k \in Kind : Publish(k)
  \/ SendSums
  \/ SendBlocks
  \/ Remember
  \/ Wake
  \/ Timeout
  \/ \E h \in Handler : HandOver(h) \/ \E m \in answers : Claim(h, m)
  \/ UpdatePrivate
  \/ \E c \in Connection : Open(c) \/ Close(c)
  \/ \E m \in requests : Answer(m)

Spec == Init /\ [][Next]_vars

-----------------------------------------------------------------------------
(***************************************************************************)
(* Properties.                                                             *)
(***************************************************************************)

\* An answer is written to the buffer of the request it answers, while that request
\* waits: do_request has not returned and its stack is alive, however late or often
\* the answer comes and whatever happens between its claim and the mutex.
WritesOwnBuffer ==
  \A h \in Handler : claimed[h] # None /\ StillWanted(claimed[h]) =>
    /\ pc \in {"sent", "waiting"}
    /\ claimed[h].id = id
    /\ reply_data = id
    /\ ~reply_rcvd

\* do_request returns the result of the answer to its own request if one was handed
\* over, even when the wait ended by time at that very moment, and no other result.
OwnAnswer ==
  IF returned.answered THEN returned.result = returned.id ELSE returned.result \in {0, -1}
=============================================================================
