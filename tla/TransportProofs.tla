-------------------------- MODULE TransportProofs --------------------------
(***************************************************************************)
(* The invariants of Transport, proved for any number of threads, of       *)
(* connections and of requests.                                            *)
(***************************************************************************)
EXTENDS Transport, TLAPS

Packets == requests \cup answers

\* Only numbers that were drawn are in use.
NumbersDrawn ==
  reply_id < fresh /\ last_reply_id < fresh /\ reply_id_private < fresh /\ id < fresh

\* A number is claimed by one thread only, and is then no longer published.
ClaimsExclusive ==
  \A h \in Handler : claimed[h] # None =>
    /\ claimed[h].id # reply_id
    /\ claimed[h].id # reply_id_private
    /\ claimed[h].result = claimed[h].id
    /\ \A g \in Handler : g # h /\ claimed[g] # None => claimed[g].id # claimed[h].id

\* An answer that could be claimed and handed over finds its request waiting.
AnswersWanted ==
  \A m \in Packets :
    /\ m.result = m.id
    /\ m.id # reply_id_private
    /\ m.id = reply_id /\ m.id = last_reply_id =>
         pc \in {"sent", "waiting"} /\ m.id = id /\ reply_data = id /\ ~reply_rcvd

\* What do_request can rely on: a number just published is in no packet, nor is that
\* of a request that could not be sent; while it waits, the result is its own.
RequestState ==
  /\ pc = "published" =>
       id > 0 /\ id # reply_id_private /\ reply_id = id /\ id # last_reply_id /\ \A m \in Packets : m.id # id
  /\ pc \in {"sent", "waiting"} =>
       id > 0 /\ id # reply_id_private /\ last_reply_id = id /\ reply_result = IF reply_rcvd THEN id ELSE -1
  /\ pc = "sent" /\ chosen = None =>
       /\ \A m \in Packets : m.id # id
       /\ \A h \in Handler : claimed[h] # None => claimed[h].id # id

IndInv ==
  TypeOK /\ NumbersDrawn /\ ClaimsExclusive /\ AnswersWanted /\ RequestState /\ WritesOwnBuffer /\ OwnAnswer

-----------------------------------------------------------------------------
\* do_request publishes a fresh number: no packet and no claim carries it.
LEMMA PublishStep ==
  ASSUME IndInv, NEW k \in Kind, Publish(k)
  PROVE  IndInv'
<1>1. TypeOK'
  BY DEF IndInv, Publish, reply, TypeOK, Number, Packet, Kind
<1>2. NumbersDrawn'
  BY DEF IndInv, Publish, reply, NumbersDrawn, TypeOK, Number, Packet
<1>3. ClaimsExclusive'
  BY DEF IndInv, Publish, reply, ClaimsExclusive, TypeOK, NumbersDrawn, Number, Packet
<1>4. AnswersWanted'
  BY DEF IndInv, Publish, reply, AnswersWanted, Packets, TypeOK, NumbersDrawn, Number, Packet
<1>5. RequestState'
  BY DEF IndInv, Publish, reply, RequestState, Packets, TypeOK, NumbersDrawn, Number, Packet
<1>6. WritesOwnBuffer'
  BY DEF IndInv, Publish, reply, WritesOwnBuffer, StillWanted
<1>7. OwnAnswer'
  BY DEF IndInv, Publish, reply, OwnAnswer
<1> QED BY <1>1, <1>2, <1>3, <1>4, <1>5, <1>6, <1>7 DEF IndInv

\* The mutex is taken and the request for sums is sent: the number was in no packet before.
LEMMA SendSumsStep ==
  ASSUME IndInv, SendSums
  PROVE  IndInv'
<1>1. TypeOK'
  <2>1. Question \in Packet
    BY DEF IndInv, TypeOK, NumbersDrawn, RequestState, Question, Packet, Number, SendSums
  <2>2. Packet' = Packet /\ Number' = Number /\ id \in Number
    BY DEF IndInv, TypeOK, NumbersDrawn, RequestState, Packet, Number, SendSums
  <2>3. reply_id' \in Nat /\ last_reply_id' \in Nat /\ reply_id_private' \in Nat
    BY DEF IndInv, TypeOK, SendSums, Prepare
  <2>4. reply_rcvd' \in BOOLEAN /\ reply_result' \in Number' \cup {-1} /\ reply_data' \in Number' \cup {None}
    BY <2>2 DEF SendSums, Prepare
  <2>5. requests' \subseteq Packet' /\ answers' \subseteq Packet'
    BY <2>1, <2>2 DEF IndInv, TypeOK, SendSums
  <2>6. claimed' \in [Handler -> Packet' \cup {None}]
    BY <2>2 DEF IndInv, TypeOK, SendSums
  <2>7. chosen' \in Connection \cup {None} /\ reply_connection' \in Connection \cup {None} /\ open' \subseteq Connection
    BY DEF IndInv, TypeOK, SendSums
  <2>8. pc' \in {"idle", "published", "sent", "waiting"} /\ id' \in Nat /\ kind' \in Kind /\ fresh' \in Nat \ {0}
    BY DEF IndInv, TypeOK, SendSums
  <2>9. returned' \in [id : Nat, result : Number' \cup {0, -1}, answered : BOOLEAN]
    BY <2>2 DEF IndInv, TypeOK, SendSums
  <2> QED BY <2>3, <2>4, <2>5, <2>6, <2>7, <2>8, <2>9 DEF TypeOK
<1>2. NumbersDrawn'
  BY DEF IndInv, SendSums, Prepare, NumbersDrawn
<1>3. ClaimsExclusive'
  BY DEF IndInv, SendSums, Prepare, ClaimsExclusive
<1>4. AnswersWanted'
  BY DEF IndInv, SendSums, Prepare, AnswersWanted, Packets, TypeOK, NumbersDrawn, Number, Packet,
         RequestState, Question
<1>5. RequestState'
  BY NoneAssumption DEF IndInv, SendSums, Prepare, RequestState, TypeOK, ClaimsExclusive, Packets,
                        Question
<1>6. WritesOwnBuffer'
  BY DEF IndInv, SendSums, Prepare, WritesOwnBuffer, StillWanted
<1>7. OwnAnswer'
  BY DEF IndInv, SendSums, Prepare, OwnAnswer
<1> QED BY <1>1, <1>2, <1>3, <1>4, <1>5, <1>6, <1>7 DEF IndInv

\* The mutex is taken and the request for blocks is sent.
LEMMA SendBlocksStep ==
  ASSUME IndInv, SendBlocks
  PROVE  IndInv'
<1>1. TypeOK'
  <2>1. Question \in Packet
    BY DEF IndInv, TypeOK, NumbersDrawn, RequestState, Question, Packet, Number, SendBlocks
  <2>2. Packet' = Packet /\ Number' = Number /\ id \in Number
    BY DEF IndInv, TypeOK, NumbersDrawn, RequestState, Packet, Number, SendBlocks
  <2>3. reply_id' \in Nat /\ last_reply_id' \in Nat /\ reply_id_private' \in Nat
    BY DEF IndInv, TypeOK, SendBlocks, Prepare
  <2>4. reply_rcvd' \in BOOLEAN /\ reply_result' \in Number' \cup {-1} /\ reply_data' \in Number' \cup {None}
    BY <2>2 DEF SendBlocks, Prepare
  <2>5. requests' \subseteq Packet' /\ answers' \subseteq Packet'
    BY <2>1, <2>2 DEF IndInv, TypeOK, SendBlocks
  <2>6. claimed' \in [Handler -> Packet' \cup {None}]
    BY <2>2 DEF IndInv, TypeOK, SendBlocks
  <2>7. chosen' \in Connection \cup {None} /\ reply_connection' \in Connection \cup {None} /\ open' \subseteq Connection
    BY DEF IndInv, TypeOK, SendBlocks
  <2>8. pc' \in {"idle", "published", "sent", "waiting"} /\ id' \in Nat /\ kind' \in Kind /\ fresh' \in Nat \ {0}
    BY DEF IndInv, TypeOK, SendBlocks
  <2>9. returned' \in [id : Nat, result : Number' \cup {0, -1}, answered : BOOLEAN]
    BY <2>2 DEF IndInv, TypeOK, SendBlocks
  <2> QED BY <2>3, <2>4, <2>5, <2>6, <2>7, <2>8, <2>9 DEF TypeOK
<1>2. NumbersDrawn'
  BY DEF IndInv, SendBlocks, Prepare, NumbersDrawn
<1>3. ClaimsExclusive'
  BY DEF IndInv, SendBlocks, Prepare, ClaimsExclusive
<1>4. AnswersWanted'
  BY DEF IndInv, SendBlocks, Prepare, AnswersWanted, Packets, TypeOK, NumbersDrawn, Number, Packet,
         RequestState, Question
<1>5. RequestState'
  BY DEF IndInv, SendBlocks, Prepare, RequestState, Packets
<1>6. WritesOwnBuffer'
  BY DEF IndInv, SendBlocks, Prepare, WritesOwnBuffer, StillWanted
<1>7. OwnAnswer'
  BY DEF IndInv, SendBlocks, Prepare, OwnAnswer
<1> QED BY <1>1, <1>2, <1>3, <1>4, <1>5, <1>6, <1>7 DEF IndInv

\* A request without a connection returns, and nothing can answer it.
LEMMA RememberStep ==
  ASSUME IndInv, Remember
  PROVE  IndInv'
<1>1. TypeOK'
  <2>1. Packet' = Packet /\ Number' = Number
    BY DEF Packet, Number, Remember
  <2>2. returned' \in [id : Nat, result : Number \cup {0, -1}, answered : BOOLEAN]
    <3>1. CASE returned' = returned
      BY <3>1 DEF IndInv, TypeOK
    <3>2. CASE returned' = [id |-> id, result |-> 0, answered |-> FALSE]
      BY <3>2 DEF IndInv, TypeOK
    <3> QED BY <3>1, <3>2 DEF Remember
  <2>3. reply_connection' \in Connection \cup {None} /\ pc' \in {"idle", "published", "sent", "waiting"}
    BY DEF IndInv, TypeOK, Remember
  <2> QED BY <2>1, <2>2, <2>3 DEF IndInv, TypeOK, Remember, reply
<1>2. NumbersDrawn'
  BY DEF IndInv, Remember, reply, NumbersDrawn
<1>3. ClaimsExclusive'
  BY DEF IndInv, Remember, reply, ClaimsExclusive
<1>4. AnswersWanted'
  BY DEF IndInv, Remember, reply, AnswersWanted, Packets, TypeOK, NumbersDrawn, Number, Packet,
         RequestState
<1>5. RequestState'
  BY DEF IndInv, Remember, reply, RequestState, Packets
<1>6. WritesOwnBuffer'
  BY DEF IndInv, Remember, reply, WritesOwnBuffer, StillWanted, TypeOK, NumbersDrawn, Number,
         Packet, RequestState
<1>7. OwnAnswer'
  BY DEF IndInv, Remember, reply, OwnAnswer
<1> QED BY <1>1, <1>2, <1>3, <1>4, <1>5, <1>6, <1>7 DEF IndInv

\* The wait ends by an answer: the number is claimed and cannot be claimed again.
LEMMA WakeStep ==
  ASSUME IndInv, Wake
  PROVE  IndInv'
<1>1. TypeOK'
  BY DEF IndInv, Wake, reply, TypeOK, Number, Packet, Kind
<1>2. NumbersDrawn'
  BY DEF IndInv, Wake, reply, NumbersDrawn
<1>3. ClaimsExclusive'
  BY DEF IndInv, Wake, reply, ClaimsExclusive
<1>4. AnswersWanted'
  BY DEF IndInv, Wake, reply, AnswersWanted, Packets
<1>5. RequestState'
  BY DEF IndInv, Wake, reply, RequestState, Packets
<1>6. WritesOwnBuffer'
  BY DEF IndInv, Wake, reply, WritesOwnBuffer, StillWanted
<1>7. OwnAnswer'
  BY DEF IndInv, Wake, reply, OwnAnswer, TypeOK, NumbersDrawn, Number, Packet, RequestState
<1> QED BY <1>1, <1>2, <1>3, <1>4, <1>5, <1>6, <1>7 DEF IndInv

\* The wait ends by time: no answer carries the private number that stands for the request from now on.
LEMMA TimeoutStep ==
  ASSUME IndInv, Timeout
  PROVE  IndInv'
<1>1. TypeOK'
  BY DEF IndInv, Timeout, TypeOK, Number, Packet, Kind
<1>2. NumbersDrawn'
  BY DEF IndInv, Timeout, NumbersDrawn
<1>3. ClaimsExclusive'
  BY DEF IndInv, Timeout, ClaimsExclusive
<1>4. AnswersWanted'
  BY DEF IndInv, Timeout, AnswersWanted, Packets
<1>5. RequestState'
  BY DEF IndInv, Timeout, RequestState, Packets
<1>6. WritesOwnBuffer'
  BY DEF IndInv, Timeout, WritesOwnBuffer, StillWanted, TypeOK, NumbersDrawn, Number, Packet,
         ClaimsExclusive
<1>7. OwnAnswer'
  BY DEF IndInv, Timeout, OwnAnswer, TypeOK, NumbersDrawn, Number, Packet, RequestState
<1> QED BY <1>1, <1>2, <1>3, <1>4, <1>5, <1>6, <1>7 DEF IndInv

\* An answer is claimed.
LEMMA ClaimStep ==
  ASSUME IndInv, NEW h \in Handler, NEW m \in answers, Claim(h, m)
  PROVE  IndInv'
<1>1. TypeOK'
  BY DEF IndInv, Claim, reply, request, TypeOK, Number, Packet, Kind
<1>2. NumbersDrawn'
  BY DEF IndInv, Claim, reply, request, NumbersDrawn
<1>3. ClaimsExclusive'
  BY DEF IndInv, Claim, reply, request, ClaimsExclusive, TypeOK, NumbersDrawn, Number, Packet,
         AnswersWanted, Packets
<1>4. AnswersWanted'
  BY DEF IndInv, Claim, reply, request, AnswersWanted, Packets
<1>5. RequestState'
  BY DEF IndInv, Claim, reply, request, RequestState, Packets
<1>6. WritesOwnBuffer'
  BY DEF IndInv, Claim, reply, request, WritesOwnBuffer, StillWanted, TypeOK, NumbersDrawn, Number,
         Packet, AnswersWanted, Packets
<1>7. OwnAnswer'
  BY DEF IndInv, Claim, reply, request, OwnAnswer
<1> QED BY <1>1, <1>2, <1>3, <1>4, <1>5, <1>6, <1>7 DEF IndInv

\* A claimed answer is handed over or dropped.
LEMMA HandOverStep ==
  ASSUME IndInv, NEW h \in Handler, HandOver(h)
  PROVE  IndInv'
<1>1. TypeOK'
  <2>1. Packet' = Packet /\ Number' = Number
    BY DEF Packet, Number, HandOver
  <2>2. claimed[h] \in Packet
    BY DEF IndInv, TypeOK, HandOver
  <2>3. claimed' \in [Handler -> Packet \cup {None}]
    BY DEF IndInv, TypeOK, HandOver
  <2>4. reply_rcvd' \in BOOLEAN /\ reply_result' \in Number \cup {-1} /\ reply_data' \in Number \cup {None}
    BY <2>2 DEF IndInv, TypeOK, HandOver, Packet
  <2> QED BY <2>1, <2>3, <2>4 DEF IndInv, TypeOK, HandOver, request
<1>2. NumbersDrawn'
  BY DEF IndInv, HandOver, request, NumbersDrawn
<1>3. ClaimsExclusive'
  BY DEF IndInv, HandOver, request, ClaimsExclusive
<1>4. AnswersWanted'
  BY DEF IndInv, HandOver, request, AnswersWanted, Packets, TypeOK, NumbersDrawn, Number, Packet,
         ClaimsExclusive, StillWanted
<1>5. RequestState'
  BY DEF IndInv, HandOver, request, RequestState, Packets, TypeOK, NumbersDrawn, Number, Packet,
         ClaimsExclusive, AnswersWanted, StillWanted
<1>6. WritesOwnBuffer'
  BY DEF IndInv, HandOver, request, WritesOwnBuffer, StillWanted, TypeOK, NumbersDrawn, Number,
         Packet, ClaimsExclusive
<1>7. OwnAnswer'
  BY DEF IndInv, HandOver, request, OwnAnswer
<1> QED BY <1>1, <1>2, <1>3, <1>4, <1>5, <1>6, <1>7 DEF IndInv

\* The private number changes to a fresh one.
LEMMA PrivateStep ==
  ASSUME IndInv, UpdatePrivate
  PROVE  IndInv'
<1>1. TypeOK'
  BY DEF IndInv, UpdatePrivate, reply, request, TypeOK, Number, Packet, Kind
<1>2. NumbersDrawn'
  BY DEF IndInv, UpdatePrivate, reply, request, NumbersDrawn, TypeOK, Number, Packet
<1>3. ClaimsExclusive'
  BY DEF IndInv, UpdatePrivate, reply, request, ClaimsExclusive, TypeOK, NumbersDrawn, Number,
         Packet
<1>4. AnswersWanted'
  BY DEF IndInv, UpdatePrivate, reply, request, AnswersWanted, Packets, TypeOK, NumbersDrawn,
         Number, Packet
<1>5. RequestState'
  BY DEF IndInv, UpdatePrivate, reply, request, RequestState, Packets, TypeOK, NumbersDrawn, Number,
         Packet
<1>6. WritesOwnBuffer'
  BY DEF IndInv, UpdatePrivate, reply, request, WritesOwnBuffer, StillWanted
<1>7. OwnAnswer'
  BY DEF IndInv, UpdatePrivate, reply, request, OwnAnswer
<1> QED BY <1>1, <1>2, <1>3, <1>4, <1>5, <1>6, <1>7 DEF IndInv

\* A connection is opened or closed.
LEMMA ConnectionStep ==
  ASSUME IndInv, NEW c \in Connection, Open(c) \/ Close(c)
  PROVE  IndInv'
<1>1. TypeOK'
  BY DEF IndInv, Open, Close, reply, request, TypeOK, Number, Packet, Kind
<1>2. NumbersDrawn'
  BY DEF IndInv, Open, Close, reply, request, NumbersDrawn
<1>3. ClaimsExclusive'
  BY DEF IndInv, Open, Close, reply, request, ClaimsExclusive
<1>4. AnswersWanted'
  BY DEF IndInv, Open, Close, reply, request, AnswersWanted, Packets
<1>5. RequestState'
  BY DEF IndInv, Open, Close, reply, request, RequestState, Packets
<1>6. WritesOwnBuffer'
  BY DEF IndInv, Open, Close, reply, request, WritesOwnBuffer, StillWanted
<1>7. OwnAnswer'
  BY DEF IndInv, Open, Close, reply, request, OwnAnswer
<1> QED BY <1>1, <1>2, <1>3, <1>4, <1>5, <1>6, <1>7 DEF IndInv

\* Another node answers a request.
LEMMA AnswerStep ==
  ASSUME IndInv, NEW m \in requests, Answer(m)
  PROVE  IndInv'
<1>1. TypeOK'
  BY DEF IndInv, Answer, reply, request, TypeOK, Number, Packet, Kind
<1>2. NumbersDrawn'
  BY DEF IndInv, Answer, reply, request, NumbersDrawn
<1>3. ClaimsExclusive'
  BY DEF IndInv, Answer, reply, request, ClaimsExclusive
<1>4. AnswersWanted'
  BY DEF IndInv, Answer, reply, request, AnswersWanted, Packets
<1>5. RequestState'
  BY DEF IndInv, Answer, reply, request, RequestState, Packets
<1>6. WritesOwnBuffer'
  BY DEF IndInv, Answer, reply, request, WritesOwnBuffer, StillWanted
<1>7. OwnAnswer'
  BY DEF IndInv, Answer, reply, request, OwnAnswer
<1> QED BY <1>1, <1>2, <1>3, <1>4, <1>5, <1>6, <1>7 DEF IndInv

-----------------------------------------------------------------------------
LEMMA InitInd == Init => IndInv
<1> SUFFICES ASSUME Init PROVE IndInv
  OBVIOUS
<1>1. TypeOK
  <2>1. claimed \in [Handler -> Packet \cup {None}]
    BY DEF Init
  <2>2. returned \in [id : Nat, result : Number \cup {0, -1}, answered : BOOLEAN]
    BY DEF Init
  <2>3. reply_rcvd \in BOOLEAN
    BY DEF Init
  <2>4. reply_result \in Number \cup {-1} /\ fresh \in Nat \ {0}
    BY DEF Init
  <2> QED BY <2>1, <2>2, <2>3, <2>4 DEF Init, TypeOK, Kind
<1>2. NumbersDrawn /\ ClaimsExclusive /\ AnswersWanted /\ RequestState
  BY DEF Init, NumbersDrawn, ClaimsExclusive, AnswersWanted, RequestState, Packets
<1>3. WritesOwnBuffer /\ OwnAnswer
  BY DEF Init, WritesOwnBuffer, OwnAnswer
<1> QED BY <1>1, <1>2, <1>3 DEF IndInv

LEMMA StutterInd ==
  ASSUME IndInv, UNCHANGED vars
  PROVE  IndInv'
  BY DEF vars, IndInv, TypeOK, NumbersDrawn, ClaimsExclusive, AnswersWanted, RequestState,
         WritesOwnBuffer,
         OwnAnswer, Packets, StillWanted, Packet, Number, Kind

\* Every step keeps the inductive invariant, one case per action.
LEMMA NextInd ==
  ASSUME IndInv, [Next]_vars
  PROVE  IndInv'
<1>1. ASSUME NEW k \in Kind, Publish(k) PROVE IndInv'
  BY <1>1, PublishStep
<1>2. CASE SendSums
  BY <1>2, SendSumsStep
<1>3. CASE SendBlocks
  BY <1>3, SendBlocksStep
<1>4. CASE Remember
  BY <1>4, RememberStep
<1>5. CASE Wake
  BY <1>5, WakeStep
<1>6. CASE Timeout
  BY <1>6, TimeoutStep
<1>7. ASSUME NEW h \in Handler, NEW m \in answers, Claim(h, m) PROVE IndInv'
  BY <1>7, ClaimStep
<1>8. ASSUME NEW h \in Handler, HandOver(h) PROVE IndInv'
  BY <1>8, HandOverStep
<1>9. CASE UpdatePrivate
  BY <1>9, PrivateStep
<1>10. ASSUME NEW c \in Connection, Open(c) \/ Close(c) PROVE IndInv'
  BY <1>10, ConnectionStep
<1>11. ASSUME NEW m \in requests, Answer(m) PROVE IndInv'
  BY <1>11, AnswerStep
<1>12. CASE UNCHANGED vars
  BY <1>12, StutterInd
<1> QED
  BY <1>1, <1>2, <1>3, <1>4, <1>5, <1>6, <1>7, <1>8, <1>9, <1>10, <1>11, <1>12 DEF Next

\* The inductive invariant holds always.
THEOREM TransportInvariance == Spec => []IndInv
  BY InitInd, NextInd, PTL DEF Spec

\* All variables of the request and of the answer keep their types, and only numbers
\* that were drawn travel.
THEOREM TransportTypeCorrect == Spec => []TypeOK
<1>1. IndInv => TypeOK
  BY DEF IndInv
<1> QED BY <1>1, TransportInvariance, PTL

\* Whatever the number of threads, requests, late and repeated answers: an answer is
\* written only to the buffer of the request it answers, while that request waits.
THEOREM WritesOwnBufferHolds == Spec => []WritesOwnBuffer
<1>1. IndInv => WritesOwnBuffer
  BY DEF IndInv
<1> QED BY <1>1, TransportInvariance, PTL

\* do_request returns the answer to its own request or none.
THEOREM OwnAnswerHolds == Spec => []OwnAnswer
<1>1. IndInv => OwnAnswer
  BY DEF IndInv
<1> QED BY <1>1, TransportInvariance, PTL
=============================================================================
