--------------------------- MODULE Research_proofs ---------------------------
(***************************************************************************)
(* Proofs about Research, for every set of payloads, statuses and requests. *)
(*                                                                         *)
(* The invariant says where each read stands, and that an answer is the one *)
(* of the reads as they are: nothing is awaited, wanted or unknown any      *)
(* more.  What an answer then shows, names and claims follows service by    *)
(* service from how it puts the answer together.                           *)
(***************************************************************************)
EXTENDS Research, SetInduction

-----------------------------------------------------------------------------
(* The invariant                                                             *)

(* A read is in flight, or failed in an operation that goes on without it,   *)
(* or has what the adapter makes of some payload of the provider.            *)
ReadOk(r, c, read) ==
    \/ read = Waiting
    \/ read = Lost /\ Captures(r) /\ ~Identity(r, c)
    \/ \E wire \in DOMAIN Wires[r.service][c], status \in Statuses[r.service][c] :
          /\ Normal[r.service][c][wire].ok
          /\ read = Got(r.service, c, wire, status)

Settled == Awaited = {} /\ Wanted = {} /\ ~Unknown

IInv ==
    /\ request \in Servable \cup {None}
    /\ request = None => reads = <<>> /\ reply = None
    /\ request # None => DOMAIN reads \subseteq Asked(request)
    /\ \A c \in DOMAIN reads : ReadOk(request, c, reads[c])
    /\ reply # None => reply.kind \in {"answer", "error"}
    /\ Replied => Settled /\ reply = AnswerOf(Parts, Failed)

-----------------------------------------------------------------------------
(* A request names one of the operations of its service.                     *)
LEMMA RequestIs ==
    ASSUME request \in Servable
    PROVE  /\ request \in Requests /\ request # None
           /\ \/ request.service = "spot" /\ request.op \in DOMAIN S!SpotParts
              \/ request.service = "futures" /\ request.op \in DOMAIN U!FuturesParts
              \/ request.service = "crypto" /\ request.op \in DOMAIN C!CryptoParts
              \/ request.service = "stock" /\ request.op \in DOMAIN K!StockParts
           /\ request.service \in DOMAIN Wires
           /\ Asked(request) \subseteq DOMAIN Wires[request.service]
<1>1. request \in Requests
    BY DEF Servable
<1>2. request.service \in DOMAIN Operations /\ request.op \in Operations[request.service]
    BY <1>1, RequestAssumption
<1>. QED BY <1>1, <1>2, RequestAssumption DEF Operations

(* A stage asks for nothing but the reads of the request.                    *)
LEMMA StageAsked ==
    ASSUME request \in Servable
    PROVE  Stage \subseteq Asked(request)
<1>1. CASE request.service = "spot"
    BY <1>1 DEF Stage, Asked, SecStage, K!SecReads
<1>2. CASE request.service = "futures"
    BY <1>2 DEF Stage, Asked, SecStage, K!SecReads
<1>3. CASE request.service = "crypto"
    BY <1>3 DEF Stage, Asked, SecStage, K!SecReads
<1>4. CASE request.service = "stock"
    BY <1>4 DEF Stage, Asked, SecStage, K!SecReads
<1>. QED BY <1>1, <1>2, <1>3, <1>4, RequestIs

(* The fundamentals are there, are not, or could not be built.               *)
LEMMA FundamentalsKinds ==
    ASSUME NEW op, NEW d, NEW exchange, NEW parts
    PROVE  K!FundamentalsOf(op, d, exchange, parts).kind \in {"missing", "raised", "snapshot"}
BY DEF K!FundamentalsOf, K!M!ManifestFundamentals, K!F!SecFundamentals, K!F!SnapshotOf

(* Every request whose reads have ended is answered, with a page or an error. *)
LEMMA AnswerKinds ==
    ASSUME request \in Servable, NEW parts, NEW failed
    PROVE  AnswerOf(parts, failed).kind \in {"answer", "error"}
<1>1. CASE request.service = "spot"
    BY <1>1 DEF AnswerOf, S!SpotAnswer, S!SpotPage
<1>2. CASE request.service = "futures"
    BY <1>2 DEF AnswerOf, U!FuturesAnswer
<1>3. CASE request.service = "crypto"
    BY <1>3 DEF AnswerOf, C!CryptoAnswer, C!CryptoPage, C!CryptoPageWith
<1>4. CASE request.service = "stock"
    <2> DEFINE op == request.op
               d == request.deployment
               exchange == request.exchange
    <2>1. AnswerOf(parts, failed) = K!StockAnswer(op, d, exchange, parts, failed)
        BY <1>4 DEF AnswerOf
    <2>2. \A f, bars, tech, absent :
             K!StockPageWith(op, exchange, parts, absent, tech, f).kind \in {"answer", "error"}
        BY DEF K!StockPageWith, K!Refused, K!Answered
    <2>3. K!FundamentalsAnswer(K!FundamentalsOf(op, d, exchange, parts)).kind \in {"answer", "error"}
        BY FundamentalsKinds DEF K!FundamentalsAnswer, K!Refused, K!Answered
    <2>4. K!MarketAnswer(op, exchange, parts, failed).kind \in {"answer", "error"}
        BY DEF K!MarketAnswer, K!Refused, K!Answered
    <2>. QED BY <2>1, <2>2, <2>3, <2>4 DEF K!StockAnswer, K!StockPage, K!Answered
<1>. QED BY <1>1, <1>2, <1>3, <1>4, RequestIs

LEMMA InitIInv == Init => IInv
BY DEF Init, IInv, Replied

LEMMA NextIInv == IInv /\ [Next]_vars => IInv'
<1> SUFFICES ASSUME IInv, [Next]_vars PROVE IInv'
    OBVIOUS
<1>0. Serving => request \in Servable /\ request # None
    BY DEF IInv, Serving
<1>1. ASSUME NEW r \in Servable, Ask(r) PROVE IInv'
    <2>1. request' \in Servable /\ request' \in Requests /\ request' # None
        BY <1>1, RequestAssumption DEF Ask, Servable
    <2>2. reads' = <<>> /\ reply' = None
        BY <1>1 DEF Ask, IInv
    <2>. QED BY <2>1, <2>2 DEF IInv, Replied
<1>2. CASE Read
    <2>1. request' = request /\ reply' = reply /\ reply = None
        BY <1>2 DEF Read, Serving
    <2>2. DOMAIN reads' \subseteq Asked(request)'
        <3>1. Wanted \subseteq Asked(request)
            BY <1>0, <1>2, StageAsked DEF Read, Wanted
        <3>. QED BY <1>0, <1>2, <3>1 DEF Read, IInv
    <2>3. \A c \in DOMAIN reads' : ReadOk(request, c, reads[c]) \/ reads'[c] = Waiting
        BY <1>2 DEF Read, IInv
    <2>4. \A c \in DOMAIN reads' : ReadOk(request', c, reads'[c])
        BY <1>2, <2>1, <2>3 DEF Read, IInv, ReadOk
    <2>. QED BY <1>0, <1>2, <2>1, <2>2, <2>4 DEF IInv, Replied, Read
<1>3. ASSUME NEW c \in Components, Complete(c) PROVE IInv'
    <2>0. Serving /\ c \in Awaited /\ c \in DOMAIN reads
        BY <1>3 DEF Complete, Awaited
    <2>1. ASSUME NEW code, Fail(c, code) PROVE IInv'
        <3>1. CASE Captures(request) /\ ~Identity(request, c)
            <4>1. reads' = [reads EXCEPT ![c] = Lost] /\ request' = request /\ reply' = None
                BY <2>1, <3>1 DEF Fail, Serving
            <4>2. \A b \in DOMAIN reads' : ReadOk(request', b, reads'[b])
                BY <2>0, <3>1, <4>1 DEF IInv, ReadOk
            <4>. QED BY <1>0, <2>0, <4>1, <4>2 DEF IInv, Replied
        <3>2. CASE ~(Captures(request) /\ ~Identity(request, c))
            <4>1. reads' = reads /\ request' = request /\ reply' = K!Refused(code)
                BY <2>1, <3>2 DEF Fail
            <4>2. reply'.kind = "error"
                BY <4>1 DEF K!Refused
            <4>3. \A b \in DOMAIN reads' : ReadOk(request', b, reads'[b])
                BY <4>1 DEF IInv, ReadOk
            <4>. QED BY <1>0, <2>0, <4>1, <4>2, <4>3 DEF IInv, Replied
        <3>. QED BY <3>1, <3>2
    <2>2. ASSUME NEW wire \in DOMAIN Wires[request.service][c],
                 NEW status \in Statuses[request.service][c], Arrive(c, wire, status)
          PROVE  IInv'
        <3>1. /\ Normal[request.service][c][wire].ok
              /\ reads' = [reads EXCEPT ![c] = Got(request.service, c, wire, status)]
              /\ request' = request /\ reply' = None
            BY <2>2 DEF Arrive, Serving
        <3>2. \A b \in DOMAIN reads' : ReadOk(request', b, reads'[b])
            BY <2>0, <3>1 DEF IInv, ReadOk
        <3>. QED BY <1>0, <2>0, <3>1, <3>2 DEF IInv, Replied
    <2>. QED BY <1>3, <2>1, <2>2 DEF Complete
<1>4. CASE Answer
    <2>1. Serving /\ request' = request /\ reads' = reads
        BY <1>4 DEF Answer, Answerable
    <2>2. reply' = IF Unknown THEN K!Refused("not_found") ELSE AnswerOf(Parts, Failed)
        BY <1>4 DEF Answer
    <2>3. reply'.kind \in {"answer", "error"}
        BY <1>0, <2>1, <2>2, AnswerKinds DEF K!Refused
    <2>4. ASSUME reply'.kind = "answer"
          PROVE  Settled /\ reply' = AnswerOf(Parts, Failed)
        <3>1. ~Unknown
            BY <2>2, <2>4 DEF K!Refused
        <3>. QED BY <1>4, <2>2, <3>1 DEF Answer, Answerable, Settled
    <2>5. Settled' = Settled /\ AnswerOf(Parts, Failed)' = AnswerOf(Parts, Failed)
        BY <2>1 DEF Settled, Awaited, Wanted, Unknown, Stage, SecStage, Arrived, Failed, Parts,
                    AnswerOf
    <2>6. \A b \in DOMAIN reads' : ReadOk(request', b, reads'[b])
        BY <2>1 DEF IInv, ReadOk
    <2>. QED BY <1>0, <2>1, <2>3, <2>4, <2>5, <2>6 DEF IInv, Replied
<1>5. CASE Close
    BY <1>5 DEF Close, IInv, Replied
<1>6. CASE UNCHANGED vars
    <2>1. request' = request /\ reads' = reads /\ reply' = reply
        BY <1>6 DEF vars
    <2>2. Settled' = Settled /\ AnswerOf(Parts, Failed)' = AnswerOf(Parts, Failed)
        BY <2>1 DEF Settled, Awaited, Wanted, Unknown, Stage, SecStage, Arrived, Failed, Parts,
                    AnswerOf
    <2>3. \A b \in DOMAIN reads' : ReadOk(request', b, reads'[b])
        BY <2>1 DEF IInv, ReadOk
    <2>. QED BY <2>1, <2>2, <2>3 DEF IInv, Replied
<1>. QED BY <1>1, <1>2, <1>3, <1>4, <1>5, <1>6 DEF Next

(* Every reachable state satisfies the invariant.                            *)
THEOREM Invariance == Spec => []IInv
BY InitIInv, NextIInv, PTL DEF Spec

(* TypeOK is part of what the invariant says.                                *)
THEOREM TypeCorrect == Spec => []TypeOK
<1>1. IInv => TypeOK
    <2> SUFFICES ASSUME IInv PROVE TypeOK
        OBVIOUS
    <2>1. CASE request = None
        BY <2>1 DEF IInv, TypeOK
    <2>2. CASE request # None
        <3>1. request \in Servable
            BY <2>2 DEF IInv
        <3>2. DOMAIN reads \subseteq DOMAIN Wires[request.service]
            BY <2>2, <3>1, RequestIs DEF IInv
        <3>3. DOMAIN reads \subseteq Components
            BY <3>1, <3>2, RequestIs DEF Components
        <3>4. ASSUME NEW c \in DOMAIN reads, reads[c] \notin {Waiting, Lost}
              PROVE  /\ reads[c].wire \in DOMAIN Wires[request.service][c]
                     /\ reads[c].status \in Statuses[request.service][c]
            BY <3>4 DEF IInv, ReadOk, Got
        <3>. QED BY <2>2, <3>1, <3>3, <3>4, RequestIs DEF IInv, TypeOK
    <2>. QED BY <2>1, <2>2
<1>. QED BY <1>1, Invariance, PTL

-----------------------------------------------------------------------------
(* The reads of an answer                                                    *)

(* Whatever a settled request asked for has come, or has failed and is left  *)
(* out; the read that identifies the asset has come.                         *)
LEMMA ReadEnds ==
    ASSUME IInv, Settled, request \in Servable,
           NEW c \in Stage \cup DOMAIN reads, c \notin {"submissions", "facts"}
    PROVE  c \in Arrived \/ (c \in Failed /\ Captures(request) /\ ~Identity(request, c))
<1>1. c \in DOMAIN reads
    BY DEF Settled, Wanted
<1>2. reads[c] # Waiting
    BY <1>1 DEF Settled, Awaited
<1>3. CASE reads[c] # Lost
    BY <1>1, <1>2, <1>3 DEF Arrived
<1>4. CASE reads[c] = Lost
    <2>1. c \in DOMAIN Wires[request.service] /\ request.service \in DOMAIN Wires
        BY <1>1, RequestIs DEF IInv
    <2>2. \A wire \in DOMAIN Wires[request.service][c], status \in Statuses[request.service][c] :
             Normal[request.service][c][wire].ok => Got(request.service, c, wire, status) # Lost
        BY <2>1, ReadAssumption
    <2>. QED BY <1>1, <1>2, <1>4, <2>2 DEF IInv, ReadOk, Failed
<1>. QED BY <1>3, <1>4

(* What has come is what the adapter makes of a payload it accepts.          *)
LEMMA ArrivedIs ==
    ASSUME IInv, request \in Servable, NEW c \in Arrived
    PROVE  /\ c \in Asked(request)
           /\ \E wire \in DOMAIN Wires[request.service][c],
                 status \in Statuses[request.service][c] :
                 LET norm == Normalize(request.service, c, Wires[request.service][c][wire])
                 IN  norm.ok /\ Parts[c] = PartOf(request.service, c, norm, status)
<1>1. c \in DOMAIN reads /\ reads[c] \notin {Waiting, Lost}
    BY DEF Arrived
<1>2. PICK wire \in DOMAIN Wires[request.service][c], status \in Statuses[request.service][c] :
         /\ Normal[request.service][c][wire].ok
         /\ reads[c] = Got(request.service, c, wire, status)
    BY <1>1 DEF IInv, ReadOk
<1>3. c \in Asked(request) /\ c \in DOMAIN Wires[request.service] /\ request.service \in DOMAIN Wires
    BY <1>1, RequestIs DEF IInv
<1>4. Normal[request.service][c][wire]
         = Normalize(request.service, c, Wires[request.service][c][wire])
    BY <1>2, <1>3 DEF Normal
<1>5. Parts[c] = PartOf(request.service, c, Normal[request.service][c][wire], status)
    BY <1>2 DEF Parts, Got
<1>. QED BY <1>2, <1>3, <1>4, <1>5

(* Its metadata call stale what comes from a stale cache and, of futures,    *)
(* what observes the market too long ago.                                    *)
Old(c) ==
    \/ Parts[c].meta.status = STALE
    \/ /\ request.service = "futures" /\ c # "symbols"
       /\ Parts[c].meta.staleness > AgeAllowed(c)

LEMMA ArrivedMeta ==
    ASSUME IInv, request \in Servable, NEW c \in Arrived
    PROVE  /\ Old(c) <=> Parts[c].meta.freshness = "stale"
           /\ Parts[c].meta.partial \in BOOLEAN
           /\ request.service = "stock" =>
                /\ c = "tickers" => ~Parts[c].meta.partial
                /\ Parts[c].meta.partial => Parts[c].meta.warnings # {}
<1>1. PICK wire \in DOMAIN Wires[request.service][c], status \in Statuses[request.service][c] :
         LET norm == Normalize(request.service, c, Wires[request.service][c][wire])
         IN  norm.ok /\ Parts[c] = PartOf(request.service, c, norm, status)
    BY ArrivedIs
<1> DEFINE norm == Normalize(request.service, c, Wires[request.service][c][wire])
           meta == MetaOf(c, norm, status, Now - Ages[status], Delayed(request.service))
<1>2. norm.ok /\ Parts[c].meta = IF request.service = "futures" THEN U!Aged(meta) ELSE meta
    BY <1>1 DEF PartOf
<1>3. /\ meta.component = c /\ meta.status = status
      /\ meta.freshness = "stale" <=> status = STALE
      /\ meta.partial = (norm.warnings # {})
      /\ norm.warnings \subseteq meta.warnings
    BY DEF MetaOf, HIT, STALE
<1>4. request.service = "stock" /\ c = "tickers" => norm.warnings = {}
    BY <1>2 DEF Normalize, K!StockNormalize, K!SecReads, K!F!SecNormalize, K!F!NormalizeTickers,
                K!F!Normalized, K!F!SchemaError, K!SchemaError
<1> HIDE DEF norm, meta
<1>5. CASE request.service = "futures"
    <2>1. U!MaximumAge(c) = AgeAllowed(c)
        BY DEF U!MaximumAge, AgeAllowed
    <2>2. CASE c # "symbols" /\ meta.staleness > AgeAllowed(c)
        <3>1. Parts[c].meta = [meta EXCEPT !.freshness = "stale",
                                           !.warnings = @ \cup {"upstream_observation_old"}]
            BY <1>2, <1>3, <1>5, <2>1, <2>2 DEF U!Aged
        <3>. QED BY <1>3, <1>5, <2>2, <3>1 DEF Old, meta, MetaOf
    <2>3. CASE ~(c # "symbols" /\ meta.staleness > AgeAllowed(c))
        <3>1. Parts[c].meta = meta
            BY <1>2, <1>3, <1>5, <2>1, <2>3 DEF U!Aged
        <3>. QED BY <1>3, <1>5, <2>3, <3>1 DEF Old
    <2>. QED BY <2>2, <2>3
<1>6. CASE request.service # "futures"
    BY <1>2, <1>3, <1>4, <1>6 DEF Old
<1>. QED BY <1>5, <1>6

-----------------------------------------------------------------------------
(* What an answer tells of its parts                                         *)

(* An answer is old when a read it shows is, partial when one of them is or  *)
(* when a part of the page is not there, which it names if its operation     *)
(* goes on without parts; its risk is unsure when it rests on an old read.   *)
Told ==
    /\ \A c \in ShownReads : /\ Old(c) => reply.meta.freshness = "stale"
                             /\ Parts[c].meta.partial => reply.meta.partial
                             /\ Old(c) /\ reply.risk # None /\ c \notin K!SecReads =>
                                   reply.risk.confidence <= 6000
    /\ \A p \in PageParts \ reply.shown :
          \/ request.service = "stock" /\ reply.meta.freshness = "unavailable"
          \/ reply.meta.partial /\ (Captures(request) => p \in reply.meta.warnings)

(* That is what three of the properties ask.                                 *)
LEMMA ToldIsHonest ==
    ASSUME IInv, Replied => Told
    PROVE  MissingIsNamed /\ StaleNeverLive /\ ReadyMeansComplete
<1> SUFFICES ASSUME Replied PROVE MissingIsNamed /\ StaleNeverLive /\ ReadyMeansComplete
    BY DEF MissingIsNamed, StaleNeverLive, ReadyMeansComplete
<1>0. Told /\ request \in Servable
    BY DEF IInv, Replied
<1>1. MissingIsNamed
    BY <1>0 DEF MissingIsNamed, Told
<1>2. StaleNeverLive
    BY <1>0 DEF StaleNeverLive, Told, Old
<1>3. ReadyMeansComplete
    <2> SUFFICES ASSUME PageView(reply) = "ready"
                 PROVE  /\ PageParts \subseteq reply.shown
                        /\ \A c \in ShownReads : /\ Parts[c].meta.freshness # "stale"
                                                 /\ ~Parts[c].meta.partial
        BY DEF ReadyMeansComplete
    <2>1. /\ ~reply.meta.partial /\ reply.meta.freshness # "stale"
          /\ ~(request.service = "stock" /\ reply.meta.freshness = "unavailable")
        BY DEF PageView
    <2>2. PageParts \subseteq reply.shown
        BY <1>0, <2>1 DEF Told
    <2>3. ASSUME NEW c \in ShownReads
          PROVE  Parts[c].meta.freshness # "stale" /\ ~Parts[c].meta.partial
        <3>1. c \in Arrived
            BY DEF ShownReads
        <3>2. ~Old(c) /\ ~Parts[c].meta.partial
            BY <1>0, <2>1 DEF Told
        <3>. QED BY <1>0, <3>1, <3>2, ArrivedMeta
    <2>. QED BY <2>2, <2>3
<1>. QED BY <1>1, <1>2, <1>3

(* A part of base weights that are a hundred in all.                         *)
LEMMA Share ==
    ASSUME NEW w, IsFiniteSet(DOMAIN w), \A n \in DOMAIN w : w[n] \in Nat,
           SumFunctionOnSet(w, DOMAIN w) = 100, NEW D \in SUBSET DOMAIN w
    PROVE  (SumFunctionOnSet(w, D) * 6000) \div 100 <= 6000
<1> DEFINE sum == SumFunctionOnSet(w, D)
<1>1. sum <= 100
    BY SumMonotone
<1>2. sum \in Nat
    <2>1. IsFiniteSet(D) /\ \A n \in D : w[n] \in Nat
        BY FS_Subset
    <2>. QED BY <2>1, SumIsNat
<1> HIDE DEF sum
<1>3. (sum * 6000) \div 100 <= 6000
    BY <1>1, <1>2
<1>. QED BY <1>3 DEF sum

-----------------------------------------------------------------------------
(* Spot                                                                      *)

LEMMA SpotBase ==
    LET w == S!SpotWeights
    IN  IsFiniteSet(DOMAIN w) /\ SumFunctionOnSet(w, DOMAIN w) = 100
<1> DEFINE w == S!SpotWeights
<1>1. /\ DOMAIN w = {"volatility", "liquidity", "trade_anomaly", "trend_instability"}
      /\ w["volatility"] = 35 /\ w["liquidity"] = 35
      /\ w["trade_anomaly"] = 20 /\ w["trend_instability"] = 10
    BY DEF S!SpotWeights
<1> HIDE DEF w
<1>2. IsFiniteSet(DOMAIN w) /\ SumFunctionOnSet(w, DOMAIN w) = 100
    BY <1>1, SumOfFour
<1>. QED BY <1>2 DEF w

LEMMA SpotShare ==
    ASSUME NEW D \in SUBSET DOMAIN S!SpotWeights
    PROVE  (S!SumFunctionOnSet(S!SpotWeights, D) * 6000) \div 100 <= 6000
<1> DEFINE w == S!SpotWeights
<1>1. \A n \in DOMAIN w : w[n] \in Nat
    BY DEF S!SpotWeights
<1>2. S!SumFunctionOnSet(w, D) = SumFunctionOnSet(w, D)
    BY DEF S!SumFunctionOnSet, S!FoldFunctionOnSet, S!MapThenFoldSet,
           SumFunctionOnSet, FoldFunctionOnSet, MapThenFoldSet
<1>3. IsFiniteSet(DOMAIN w) /\ SumFunctionOnSet(w, DOMAIN w) = 100
    BY SpotBase
<1> HIDE DEF w
<1>4. (SumFunctionOnSet(w, D) * 6000) \div 100 <= 6000
    BY <1>1, <1>3, Share DEF w
<1>. QED BY <1>2, <1>4 DEF w

LEMMA SpotTold ==
    ASSUME IInv, Replied, request.service = "spot"
    PROVE  Told
<1> DEFINE op == request.op
           P == [c \in DOMAIN Parts \cap S!SpotParts[op] |-> Parts[c]]
           metas == {P[c].meta : c \in DOMAIN P}
<1>0. /\ request \in Servable /\ Settled /\ op \in DOMAIN S!SpotParts
      /\ reply = S!SpotAnswer(op, P, Failed) /\ reply.kind = "answer"
    BY RequestIs DEF IInv, Replied, AnswerOf
<1>1. "symbols" \in Arrived
    <2> SUFFICES ASSUME "symbols" \notin Arrived PROVE FALSE
        OBVIOUS
    <2>1. "symbols" \in Stage /\ Identity(request, "symbols")
        BY DEF Stage, Identity
    <2>. QED BY <1>0, <2>1, ReadEnds
<1>2. Stage = S!SpotParts[op]
    BY <1>1 DEF Stage
<1>3. \A c \in S!SpotParts[op] : c \in Arrived \/ (c \in Failed /\ Captures(request))
    <2>1. \A c \in S!SpotParts[op] : c \notin {"submissions", "facts"}
        BY <1>0 DEF S!SpotParts
    <2>. QED BY <1>0, <1>2, <2>1, ReadEnds
<1>4. /\ DOMAIN P = Arrived \cap S!SpotParts[op] /\ \A c \in DOMAIN P : P[c] = Parts[c]
      /\ reply.shown = DOMAIN P
    BY <1>0 DEF Parts, S!SpotAnswer, S!SpotPage
<1>5. ShownReads \subseteq DOMAIN P
    <2>1. \A c \in Arrived : c \notin K!SecReads
        BY <1>0, ArrivedIs DEF Asked, S!SpotParts, K!SecReads
    <2>. QED BY <1>4, <2>1 DEF ShownReads, PartFor
<1>6. \A c \in DOMAIN P : Old(c) <=> P[c].meta.status = STALE
    BY <1>4 DEF Old
<1>7. PageParts = S!SpotParts[op]
    BY DEF PageParts
<1>8. CASE op \in S!SpotCaptures
    <2>1. /\ reply.meta = S!SpotAggregate(metas, Failed)
          /\ reply.risk = IF DOMAIN P \cap {"candles", "order_book", "trades"} = {} THEN None
                          ELSE S!SpotRisk(P, S!FreshnessConfidence(reply.meta))
        BY <1>0, <1>8 DEF S!SpotAnswer, S!SpotPage
    <2>2. /\ reply.meta.freshness = S!SpotFreshness(metas)
          /\ reply.meta.partial = (Failed # {} \/ \E m \in metas : m.partial)
          /\ Failed \subseteq reply.meta.warnings
        BY <2>1 DEF S!SpotAggregate, S!Aggregate
    <2>3. ASSUME NEW c \in DOMAIN P, Old(c) PROVE reply.meta.freshness = "stale"
        <3>1. P[c].meta \in metas /\ P[c].meta.status = STALE
            BY <1>6, <2>3
        <3>2. S!StatusOf(metas) = S!STALE
            BY <3>1 DEF S!StatusOf, S!STALE, STALE
        <3>. QED BY <2>2, <3>2 DEF S!SpotFreshness, S!STALE, S!BYPASS, S!MISS
    <2>4. ASSUME NEW c \in DOMAIN P, Parts[c].meta.partial PROVE reply.meta.partial
        BY <1>4, <2>2, <2>4
    <2>5. ASSUME reply.meta.freshness = "stale", reply.risk # None
          PROVE  reply.risk.confidence <= 6000
        <3>1. reply.risk = S!SpotRisk(P, 6000)
            BY <2>1, <2>5 DEF S!FreshnessConfidence
        <3>2. PICK D \in SUBSET DOMAIN S!SpotWeights :
                 reply.risk.confidence = (S!SumFunctionOnSet(S!SpotWeights, D) * 6000) \div 100
            <4> DEFINE D == {n \in DOMAIN S!SpotWeights :
                               CASE n = "liquidity"     -> "order_book" \in DOMAIN P
                                 [] n = "trade_anomaly" -> "trades" \in DOMAIN P
                                 [] OTHER               -> "candles" \in DOMAIN P}
                       scores == [n \in D |-> S!SpotScore(n, P, S!TechnicalsOf(P["candles"].data))]
            <4>1. reply.risk = S!WeightedRisk(scores, S!SpotWeights, 6000)
                BY <3>1 DEF S!SpotRisk
            <4>2. DOMAIN scores = D /\ D \in SUBSET DOMAIN S!SpotWeights
                OBVIOUS
            <4> HIDE DEF scores, D
            <4>. QED BY <4>1, <4>2 DEF S!WeightedRisk
        <3>. QED BY <3>2, SpotShare
    <2>6. ASSUME NEW p \in PageParts \ reply.shown
          PROVE  reply.meta.partial /\ p \in reply.meta.warnings
        BY <1>3, <1>4, <1>7, <2>2
    <2>. QED BY <1>5, <2>3, <2>4, <2>5, <2>6 DEF Told
<1>9. CASE op \notin S!SpotCaptures
    <2>1. ~Captures(request)
        BY <1>9 DEF Captures
    <2>2. DOMAIN P = S!SpotParts[op]
        BY <1>3, <1>4, <2>1
    <2>3. PICK x : S!SpotParts[op] = {x}
        <3>1. op \in {"symbols", "ticker", "candles", "order_book", "trades", "technicals"}
            BY <1>0, <1>9 DEF S!SpotParts, S!SpotCaptures
        <3>2. S!SpotParts[op] = IF op = "technicals" THEN {"candles"} ELSE {op}
            BY <3>1 DEF S!SpotParts
        <3>. QED BY <3>2
    <2>4. metas = {Parts[x].meta}
        BY <1>4, <2>2, <2>3
    <2>5. reply.meta = Parts[x].meta /\ reply.risk = None
        BY <1>0, <1>9, <2>4 DEF S!SpotAnswer
    <2>6. \A c \in ShownReads : c = x /\ c \in Arrived
        BY <1>5, <2>2, <2>3 DEF ShownReads
    <2>. QED BY <1>0, <1>4, <1>7, <2>2, <2>5, <2>6, ArrivedMeta DEF Told
<1>. QED BY <1>8, <1>9

-----------------------------------------------------------------------------
(* Futures                                                                   *)

LEMMA FuturesBase ==
    LET w == U!FuturesWeights
    IN  IsFiniteSet(DOMAIN w) /\ SumFunctionOnSet(w, DOMAIN w) = 100
<1> DEFINE w == U!FuturesWeights
<1>1. /\ DOMAIN w = {"funding_crowding", "open_interest_instability", "basis_dislocation",
                     "positioning_imbalance"}
      /\ w["funding_crowding"] = 30 /\ w["open_interest_instability"] = 25
      /\ w["basis_dislocation"] = 20 /\ w["positioning_imbalance"] = 25
    BY DEF U!FuturesWeights
<1> HIDE DEF w
<1>2. IsFiniteSet(DOMAIN w) /\ SumFunctionOnSet(w, DOMAIN w) = 100
    BY <1>1, SumOfFour
<1>. QED BY <1>2 DEF w

LEMMA FuturesShare ==
    ASSUME NEW D \in SUBSET DOMAIN U!FuturesWeights
    PROVE  (U!SumFunctionOnSet(U!FuturesWeights, D) * 6000) \div 100 <= 6000
<1> DEFINE w == U!FuturesWeights
<1>1. \A n \in DOMAIN w : w[n] \in Nat
    BY DEF U!FuturesWeights
<1>2. U!SumFunctionOnSet(w, D) = SumFunctionOnSet(w, D)
    BY DEF U!SumFunctionOnSet, U!FoldFunctionOnSet, U!MapThenFoldSet,
           SumFunctionOnSet, FoldFunctionOnSet, MapThenFoldSet
<1>3. IsFiniteSet(DOMAIN w) /\ SumFunctionOnSet(w, DOMAIN w) = 100
    BY FuturesBase
<1> HIDE DEF w
<1>4. (SumFunctionOnSet(w, D) * 6000) \div 100 <= 6000
    BY <1>1, <1>3, Share DEF w
<1>. QED BY <1>2, <1>4 DEF w

LEMMA FuturesTold ==
    ASSUME IInv, Replied, request.service = "futures"
    PROVE  Told
<1> DEFINE op == request.op
           P == [c \in DOMAIN Parts \cap U!FuturesParts[op] |-> Parts[c]]
           metas == {P[c].meta : c \in DOMAIN P}
           whole == U!FuturesAggregate(metas, Failed)
<1>0. /\ request \in Servable /\ Settled /\ op \in DOMAIN U!FuturesParts
      /\ reply = U!FuturesAnswer(op, P, Failed) /\ reply.kind = "answer"
    BY RequestIs DEF IInv, Replied, AnswerOf
<1>1. "symbols" \in Arrived
    <2> SUFFICES ASSUME "symbols" \notin Arrived PROVE FALSE
        OBVIOUS
    <2>1. "symbols" \in Stage /\ Identity(request, "symbols")
        BY DEF Stage, Identity
    <2>. QED BY <1>0, <2>1, ReadEnds
<1>2. Stage = U!FuturesParts[op]
    BY <1>1 DEF Stage
<1>3. \A c \in U!FuturesParts[op] : c \in Arrived \/ (c \in Failed /\ Captures(request))
    <2>1. \A c \in U!FuturesParts[op] : c \notin {"submissions", "facts"}
        BY <1>0 DEF U!FuturesParts
    <2>. QED BY <1>0, <1>2, <2>1, ReadEnds
<1>4. /\ DOMAIN P = Arrived \cap U!FuturesParts[op] /\ \A c \in DOMAIN P : P[c] = Parts[c]
      /\ reply.shown = DOMAIN P
    BY <1>0 DEF Parts, U!FuturesAnswer
<1>5. ShownReads \subseteq DOMAIN P /\ ShownReads \subseteq Arrived
    <2>1. \A c \in Arrived : c \notin K!SecReads
        BY <1>0, ArrivedIs DEF Asked, U!FuturesParts, K!SecReads
    <2>. QED BY <1>4, <2>1 DEF ShownReads, PartFor
<1>6. \A c \in DOMAIN P : Old(c) <=> P[c].meta.freshness = "stale"
    BY <1>0, <1>4, ArrivedMeta
<1>7. PageParts = U!FuturesParts[op]
    BY DEF PageParts
<1>8. /\ \A c \in DOMAIN P : Old(c) => whole.freshness = "stale"
      /\ \A c \in DOMAIN P : Parts[c].meta.partial => whole.partial
      /\ Failed # {} => whole.partial
      /\ Failed \subseteq whole.warnings
    <2>1. \A c \in DOMAIN P : P[c].meta \in metas
        OBVIOUS
    <2>2. \A c \in DOMAIN P : Old(c) => \E m \in metas : m.freshness = "stale"
        BY <1>6, <2>1
    <2>3. whole.freshness = "stale" \/ ~\E m \in metas : m.freshness = "stale"
        BY DEF U!FuturesAggregate, U!Aggregate
    <2>4. /\ whole.partial = (Failed # {} \/ \E m \in metas : m.partial)
          /\ Failed \subseteq whole.warnings
        BY DEF U!FuturesAggregate, U!Aggregate
    <2>. QED BY <1>4, <2>1, <2>2, <2>3, <2>4
<1>9. CASE op = "research"
    <2>1. /\ reply.meta = whole
          /\ reply.risk = U!FuturesRisk(U!AnalyzeFutures(P), U!FreshnessConfidence(whole))
        BY <1>0, <1>9 DEF U!FuturesAnswer
    <2>2. ASSUME reply.meta.freshness = "stale", reply.risk # None
          PROVE  reply.risk.confidence <= 6000
        <3> DEFINE a == U!AnalyzeFutures(P)
                   D == {n \in DOMAIN U!FuturesWeights : \A s \in U!Needed[n] : a[s] # None}
                   scores == [n \in D |-> U!Clamp(U!FuturesScore(n, a), 0, 10000)]
        <3>1. reply.risk = U!WeightedRisk(scores, U!FuturesWeights, 6000)
            BY <2>1, <2>2 DEF U!FuturesRisk, U!FreshnessConfidence
        <3>2. DOMAIN scores = D /\ D \in SUBSET DOMAIN U!FuturesWeights
            OBVIOUS
        <3> HIDE DEF scores, D
        <3>. QED BY <3>1, <3>2, FuturesShare DEF U!WeightedRisk
    <2>3. ASSUME NEW p \in PageParts \ reply.shown
          PROVE  reply.meta.partial /\ p \in reply.meta.warnings
        <3>1. p \in Failed
            BY <1>3, <1>4, <1>7
        <3>. QED BY <1>8, <2>1, <3>1
    <2> HIDE DEF P, metas, whole
    <2>4. \A c \in ShownReads : /\ Old(c) => reply.meta.freshness = "stale"
                                /\ Parts[c].meta.partial => reply.meta.partial
        BY <1>5, <1>8, <2>1
    <2>. QED BY <2>2, <2>3, <2>4 DEF Told
<1>10. CASE op # "research"
    <2>1. ~Captures(request)
        BY <1>10 DEF Captures, U!FuturesCaptures
    <2>2. DOMAIN P = U!FuturesParts[op]
        BY <1>3, <1>4, <2>1
    <2>3. reply.risk = None /\ PageParts \ reply.shown = {}
        BY <1>0, <1>4, <1>7, <1>10, <2>2 DEF U!FuturesAnswer
    <2>4. CASE op \in {"open_interest", "positioning"}
        <3>1. reply.meta = whole
            BY <1>0, <2>4 DEF U!FuturesAnswer
        <3> HIDE DEF P, metas, whole
        <3>2. \A c \in ShownReads : /\ Old(c) => reply.meta.freshness = "stale"
                                    /\ Parts[c].meta.partial => reply.meta.partial
            BY <1>5, <1>8, <3>1
        <3>. QED BY <2>3, <3>2 DEF Told
    <2>5. CASE op \notin {"open_interest", "positioning"}
        <3>1. op \in {"symbols", "market", "funding", "basis"}
            BY <1>0, <1>10, <2>5 DEF U!FuturesParts
        <3>2. U!FuturesParts[op] = {op}
            BY <3>1 DEF U!FuturesParts
        <3>3. metas = {Parts[op].meta}
            BY <1>4, <2>2, <3>2
        <3>4. reply.meta = Parts[op].meta
            BY <1>0, <1>10, <2>5, <3>3 DEF U!FuturesAnswer
        <3>5. \A c \in ShownReads : c = op /\ c \in Arrived
            BY <1>5, <2>2, <3>2
        <3>6. \A c \in ShownReads : /\ Old(c) => reply.meta.freshness = "stale"
                                    /\ Parts[c].meta.partial => reply.meta.partial
            BY <1>0, <3>4, <3>5, ArrivedMeta
        <3>. QED BY <2>3, <3>6 DEF Told
    <2>. QED BY <2>4, <2>5
<1>. QED BY <1>9, <1>10

-----------------------------------------------------------------------------
(* Crypto                                                                    *)

LEMMA CryptoBase ==
    LET w == C!CryptoWeights
    IN  IsFiniteSet(DOMAIN w) /\ SumFunctionOnSet(w, DOMAIN w) = 100
<1> DEFINE w == C!CryptoWeights
<1>1. /\ DOMAIN w = {"volatility", "drawdown", "liquidity", "market_size", "trend_instability",
                     "anomaly"}
      /\ w["volatility"] = 30 /\ w["drawdown"] = 20 /\ w["liquidity"] = 15
      /\ w["market_size"] = 15 /\ w["trend_instability"] = 10 /\ w["anomaly"] = 10
    BY DEF C!CryptoWeights
<1> DEFINE four == {"volatility", "drawdown", "liquidity", "market_size"}
           five == four \cup {"trend_instability"}
<1>2. DOMAIN w = five \cup {"anomaly"} /\ "trend_instability" \notin four /\ "anomaly" \notin five
    BY <1>1
<1> HIDE DEF w
<1>3. IsFiniteSet(four) /\ SumFunctionOnSet(w, four) = 80
    BY <1>1, SumOfFour
<1>4. \A x \in four : w[x] \in Nat
    BY <1>1
<1> HIDE DEF four
<1>5. IsFiniteSet(five) /\ SumFunctionOnSet(w, five) = 90 /\ \A x \in five : w[x] \in Nat
    BY <1>1, <1>2, <1>3, <1>4, SumGrows
<1> HIDE DEF five
<1>6. IsFiniteSet(DOMAIN w) /\ SumFunctionOnSet(w, DOMAIN w) = 100
    BY <1>1, <1>2, <1>5, SumGrows
<1>. QED BY <1>6 DEF w

LEMMA CryptoShare ==
    ASSUME NEW D \in SUBSET DOMAIN C!CryptoWeights
    PROVE  (C!SumFunctionOnSet(C!CryptoWeights, D) * 6000) \div 100 <= 6000
<1> DEFINE w == C!CryptoWeights
<1>1. \A n \in DOMAIN w : w[n] \in Nat
    BY DEF C!CryptoWeights
<1>2. C!SumFunctionOnSet(w, D) = SumFunctionOnSet(w, D)
    BY DEF C!SumFunctionOnSet, C!FoldFunctionOnSet, C!MapThenFoldSet,
           SumFunctionOnSet, FoldFunctionOnSet, MapThenFoldSet
<1>3. IsFiniteSet(DOMAIN w) /\ SumFunctionOnSet(w, DOMAIN w) = 100
    BY CryptoBase
<1> HIDE DEF w
<1>4. (SumFunctionOnSet(w, D) * 6000) \div 100 <= 6000
    BY <1>1, <1>3, Share DEF w
<1>. QED BY <1>2, <1>4 DEF w

(* The overview that a request about one coin begins with is there, and is   *)
(* of the coin.                                                              *)
LEMMA OverviewArrives ==
    ASSUME IInv, Settled, request \in Servable, request.service = "crypto",
           request.op \in C!OfOneCoin
    PROVE  "overview" \in Arrived /\ C!CoinFound(Parts["overview"].data)
<1>1. "overview" \in Arrived
    <2> SUFFICES ASSUME "overview" \notin Arrived PROVE FALSE
        OBVIOUS
    <2>1. "overview" \in Stage /\ Identity(request, "overview")
        BY DEF Stage, Identity
    <2>. QED BY <2>1, ReadEnds
<1>2. request.op # "symbols"
    BY DEF C!OfOneCoin
<1>. QED BY <1>1, <1>2 DEF Settled, Unknown

LEMMA CryptoTold ==
    ASSUME IInv, Replied, request.service = "crypto"
    PROVE  Told
<1> DEFINE op == request.op
           metas == {Parts[c].meta : c \in DOMAIN Parts}
<1>0. /\ request \in Servable /\ Settled /\ op \in DOMAIN C!CryptoParts
      /\ reply = C!CryptoAnswer(op, Parts, Failed) /\ reply.kind = "answer"
    BY RequestIs DEF IInv, Replied, AnswerOf
<1>1. DOMAIN Parts = Arrived
    BY DEF Parts
<1>2. \A c \in Arrived : Old(c) <=> Parts[c].meta.status = STALE
    BY DEF Old
<1>3. ShownReads \subseteq Arrived
    BY DEF ShownReads
<1>4. CASE op \in C!CryptoCaptures
    <2> DEFINE points == IF "history" \in DOMAIN Parts THEN Parts["history"].data ELSE <<>>
               scores == C!CryptoScores(Parts["overview"].data[1], points)
    <2> DEFINE short == "history" \in DOMAIN Parts /\ ~C!LongEnough(points)
               missing == Failed \cup (IF short /\ op = "research" THEN {"crypto_analytics"} ELSE {})
    <2>0. reply = C!CryptoPage(op, Parts, Failed)
        BY <1>0, <1>4 DEF C!CryptoAnswer
    <2>1. /\ Failed \subseteq missing
          /\ reply = C!CryptoPageWith(DOMAIN Parts, scores, C!CryptoAggregate(metas, missing))
        BY <2>0 DEF C!CryptoPage
    <2>2. DOMAIN scores \in SUBSET DOMAIN C!CryptoWeights
        BY DEF C!CryptoScores, C!CryptoWeights
    <2> HIDE DEF scores, missing
    <2>3. /\ reply.shown = Arrived
          /\ reply.meta = C!CryptoAggregate(metas, missing)
          /\ reply.risk = C!WeightedRisk(scores, C!CryptoWeights,
                                         C!FreshnessConfidence(reply.meta))
        BY <1>0, <1>1, <2>1 DEF C!CryptoPageWith
    <2>4. /\ reply.meta.freshness = C!DelayedFreshness(metas)
          /\ reply.meta.partial = (missing # {} \/ \E m \in metas : m.partial)
          /\ missing \subseteq reply.meta.warnings
        BY <2>3 DEF C!CryptoAggregate, C!Aggregate
    <2>5. ASSUME NEW c \in Arrived, Old(c) PROVE reply.meta.freshness = "stale"
        <3>1. Parts[c].meta \in metas /\ Parts[c].meta.status = STALE
            BY <1>1, <1>2, <2>5
        <3>2. C!StatusOf(metas) = C!STALE
            BY <3>1 DEF C!StatusOf, C!STALE, STALE
        <3>. QED BY <2>4, <3>2 DEF C!DelayedFreshness, C!STALE, C!HIT
    <2>6. ASSUME NEW c \in Arrived, Parts[c].meta.partial PROVE reply.meta.partial
        BY <1>1, <2>4, <2>6
    <2>7. ASSUME reply.meta.freshness = "stale" PROVE reply.risk.confidence <= 6000
        <3>1. reply.risk.confidence
                = (C!SumFunctionOnSet(C!CryptoWeights, DOMAIN scores) * 6000) \div 100
            BY <2>3, <2>7 DEF C!WeightedRisk, C!FreshnessConfidence
        <3>. QED BY <2>2, <3>1, CryptoShare
    <2>8. ASSUME NEW p \in PageParts \ reply.shown
          PROVE  reply.meta.partial /\ p \in reply.meta.warnings
        <3>1. op \in C!OfOneCoin
            BY <1>4 DEF C!OfOneCoin, C!CryptoCaptures
        <3>2. "overview" \in Arrived
            BY <1>0, <3>1, OverviewArrives
        <3>3. p \in C!CryptoParts[op] /\ p = "history"
            BY <1>4, <2>3, <3>2 DEF PageParts, C!CryptoCaptures, C!CryptoParts
        <3>4. p \in Stage
            BY <3>2, <3>3 DEF Stage
        <3>5. p \in Failed
            BY <1>0, <2>3, <3>3, <3>4, ReadEnds
        <3>. QED BY <2>1, <2>4, <3>5
    <2>. QED BY <1>3, <2>5, <2>6, <2>7, <2>8 DEF Told
<1>5. CASE op \notin C!CryptoCaptures
    <2> DEFINE last == IF C!CryptoParts[op] = {} THEN "overview"
                       ELSE CHOOSE c \in C!CryptoParts[op] : TRUE
    <2>1. reply.shown = {last} /\ reply.risk = None /\ reply.meta = Parts[last].meta
        BY <1>0, <1>5 DEF C!CryptoAnswer
    <2>2. PageParts = C!CryptoParts[op]
        BY <1>5 DEF PageParts
    <2>3. C!CryptoParts[op] \in {{}, {"search"}, {"global"}, {"trending"}, {"markets"}, {"history"}}
        BY <1>0 DEF C!CryptoParts
    <2>4. C!CryptoParts[op] \subseteq {last}
        BY <2>3
    <2>5. \A c \in ShownReads : c = last
        <3>1. \A c \in Arrived : c \notin K!SecReads
            BY <1>0, <2>3, ArrivedIs DEF Asked, K!SecReads
        <3>. QED BY <1>3, <2>1, <3>1 DEF ShownReads, PartFor
    <2>6. ASSUME NEW c \in ShownReads
          PROVE  /\ Old(c) => reply.meta.freshness = "stale"
                 /\ Parts[c].meta.partial => reply.meta.partial
        <3>1. c \in Arrived /\ reply.meta = Parts[c].meta
            BY <1>3, <2>1, <2>5
        <3>. QED BY <1>0, <3>1, ArrivedMeta
    <2>. QED BY <2>1, <2>2, <2>4, <2>6 DEF Told
<1>. QED BY <1>4, <1>5

-----------------------------------------------------------------------------
(* Stocks                                                                    *)

LEMMA StockBase ==
    LET w == K!StockWeights
    IN  IsFiniteSet(DOMAIN w) /\ SumFunctionOnSet(w, DOMAIN w) = 100
<1> DEFINE w == K!StockWeights
<1>1. /\ DOMAIN w = {"volatility", "drawdown", "trend_instability", "liquidity"}
      /\ w["volatility"] = 35 /\ w["drawdown"] = 25
      /\ w["trend_instability"] = 20 /\ w["liquidity"] = 20
    BY DEF K!StockWeights
<1> HIDE DEF w
<1>2. IsFiniteSet(DOMAIN w) /\ SumFunctionOnSet(w, DOMAIN w) = 100
    BY <1>1, SumOfFour
<1>. QED BY <1>2 DEF w

LEMMA StockShare ==
    ASSUME NEW D \in SUBSET DOMAIN K!StockWeights
    PROVE  (K!SumFunctionOnSet(K!StockWeights, D) * 6000) \div 100 <= 6000
<1> DEFINE w == K!StockWeights
<1>1. \A n \in DOMAIN w : w[n] \in Nat
    BY DEF K!StockWeights
<1>2. K!SumFunctionOnSet(w, D) = SumFunctionOnSet(w, D)
    BY DEF K!SumFunctionOnSet, K!FoldFunctionOnSet, K!MapThenFoldSet,
           SumFunctionOnSet, FoldFunctionOnSet, MapThenFoldSet
<1>3. IsFiniteSet(DOMAIN w) /\ SumFunctionOnSet(w, DOMAIN w) = 100
    BY StockBase
<1> HIDE DEF w
<1>4. (SumFunctionOnSet(w, D) * 6000) \div 100 <= 6000
    BY <1>1, <1>3, Share DEF w
<1>. QED BY <1>2, <1>4 DEF w

(* What the aggregate of a stock page takes over from its parts.             *)
LEMMA StockWhole ==
    ASSUME NEW metas, NEW missing, NEW meta, meta = K!StockAggregate(metas, missing)
    PROVE  /\ \A m \in metas : /\ m.status = STALE => meta.freshness = "stale"
                               /\ m.partial => meta.partial
           /\ missing # {} => meta.partial
           /\ missing \subseteq meta.warnings
<1>1. /\ meta.freshness = K!DelayedFreshness(metas)
      /\ meta.partial = (missing # {} \/ \E m \in metas : m.partial)
      /\ missing \subseteq meta.warnings
    BY DEF K!StockAggregate, K!Aggregate
<1>2. ASSUME NEW m \in metas, m.status = STALE PROVE meta.freshness = "stale"
    <2>1. K!StatusOf(metas) = K!STALE
        BY <1>2 DEF K!StatusOf, K!STALE, STALE
    <2>. QED BY <1>1, <2>1 DEF K!DelayedFreshness, K!STALE, K!HIT
<1>. QED BY <1>1, <1>2

(* The reads of a stock request.                                             *)
LEMMA StockReads ==
    ASSUME IInv, request \in Servable, request.service = "stock", Settled
    PROVE  /\ \A c \in Arrived : c # "fundamentals"
           /\ \A c \in Arrived : c \notin K!SecReads => c \in K!StockParts[request.op]
           /\ \A c \in Arrived : c \in K!SecReads =>
                 K!AsksSec(request.op, request.deployment, request.exchange)
           /\ request.deployment.licensed =>
                 \A c \in K!StockParts[request.op] :
                    c \in Arrived \/ (c \in Failed /\ Captures(request))
<1> DEFINE parts == K!StockParts[request.op]
<1>1. parts \subseteq {"search", "profile", "quote", "candles"}
    BY RequestIs DEF K!StockParts
<1>2. \A c \in Arrived :
         \/ c \in parts
         \/ c \in K!SecReads /\ K!AsksSec(request.op, request.deployment, request.exchange)
    BY ArrivedIs DEF Asked
<1>3. ASSUME request.deployment.licensed, NEW c \in parts
      PROVE  c \in Arrived \/ (c \in Failed /\ Captures(request))
    <2>1. parts \subseteq DOMAIN reads
        BY <1>3 DEF Settled, Wanted, Stage
    <2>. QED BY <1>1, <1>3, <2>1, ReadEnds
<1>. QED BY <1>1, <1>2, <1>3 DEF K!SecReads

(* Fundamentals of the SEC are stale and partial when one of its reads is;    *)
(* if one of these has come, there is no manifest for the company.           *)
LEMMA SecSnapshot ==
    ASSUME IInv, request \in Servable, request.service = "stock", Settled,
           NEW f, f = K!FundamentalsOf(request.op, request.deployment, request.exchange, Parts),
           f.kind = "snapshot", NEW c \in Arrived, c \in K!SecReads
    PROVE  /\ Old(c) => f.meta.status = STALE
           /\ Parts[c].meta.partial => f.meta.partial
<1> DEFINE t == Parts["tickers"].meta
           s == Parts["submissions"].meta
           x == Parts["facts"].meta
<1>1. K!AsksSec(request.op, request.deployment, request.exchange)
    BY StockReads
<1>2. K!Published(request.deployment, request.exchange) = {}
    BY <1>1 DEF K!AsksSec
<1>3. f = K!F!SecFundamentals(Parts["tickers"], Parts["submissions"], Parts["facts"])
    BY <1>2 DEF K!FundamentalsOf
<1>4. f.meta = K!F!SecMeta(t, s, x)
    BY <1>3 DEF K!F!SecFundamentals, K!F!SnapshotOf
<1>5. f.meta.status = K!F!StatusOf({t, s, x}) /\ f.meta.partial = (s.warnings \cup x.warnings # {})
    BY <1>4 DEF K!F!SecMeta
<1>6. c \in {"tickers", "submissions", "facts"}
    BY DEF K!SecReads
<1>7. Parts[c].meta \in {t, s, x}
    BY <1>6
<1>8. ASSUME Old(c) PROVE f.meta.status = STALE
    <2>1. Parts[c].meta.status = STALE
        BY <1>8 DEF Old
    <2>. QED BY <1>5, <1>7, <2>1 DEF K!F!StatusOf, K!F!STALE, STALE
<1>9. ASSUME Parts[c].meta.partial PROVE f.meta.partial
    <2>1. c # "tickers" /\ Parts[c].meta.warnings # {}
        BY <1>9, ArrivedMeta
    <2>. QED BY <1>5, <1>6, <2>1
<1>. QED BY <1>8, <1>9

(* The three kinds of answers about a stock: nothing, the fundamentals alone,  *)
(* or a page, with prices of the company that was asked for.                 *)
Unavailable == reply.shown = {} /\ reply.risk = None /\ reply.meta.freshness = "unavailable"

FundamentalsOnly(f) ==
    /\ request.op \in K!OfFundamentals /\ f.kind = "snapshot"
    /\ reply.shown = {"fundamentals"} /\ reply.risk = None
    /\ reply.meta = K!StockAggregate({f.meta}, {})

WholePage(f) ==
    LET prices == Arrived \cap K!StockParts[request.op]
        metas  == {Parts[c].meta : c \in prices}
                     \cup (IF f.kind = "snapshot" THEN {f.meta} ELSE {})
        absent == IF request.deployment.licensed THEN Failed \cap K!StockParts[request.op]
                  ELSE K!StockParts[request.op]
        stale  == \E c \in prices : Parts[c].meta.freshness = "stale"
    IN  /\ request.op \in {"risk", "research"} /\ f.kind # "raised"
        /\ ~K!Mistaken(request.exchange, Parts)
        /\ reply.shown = prices \cup (IF f.kind = "snapshot" THEN {"fundamentals"} ELSE {})
        /\ reply.risk # None /\ stale => reply.risk.confidence <= 6000
        /\ \E missing : /\ absent \subseteq missing
                        /\ f.kind = "missing" => "fundamentals" \in missing
                        /\ reply.meta = K!StockAggregate(metas, missing)

MarketOnly ==
    /\ request.op \in {"search", "overview", "candles", "technicals", "trend"}
    /\ request.deployment.licensed /\ ~K!Mistaken(request.exchange, Parts)
    /\ reply.shown = Arrived /\ reply.risk = None
    /\ reply.meta = K!StockAggregate({Parts[c].meta : c \in Arrived}, Failed)

LEMMA StockAnswerIs ==
    ASSUME IInv, Replied, request.service = "stock",
           NEW f, f = K!FundamentalsOf(request.op, request.deployment, request.exchange, Parts)
    PROVE  Unavailable \/ FundamentalsOnly(f) \/ WholePage(f) \/ MarketOnly
<1> DEFINE op == request.op
           d == request.deployment
           exchange == request.exchange
<1>0. /\ request \in Servable /\ op \in DOMAIN K!StockParts /\ DOMAIN Parts = Arrived
      /\ reply = K!StockAnswer(op, d, exchange, Parts, Failed) /\ reply.kind = "answer"
    BY RequestIs DEF IInv, Replied, AnswerOf, Parts
<1>1. f.kind \in {"missing", "raised", "snapshot"}
    BY FundamentalsKinds
<1>2. CASE K!Unlicensed(op, d)
    BY <1>0, <1>2 DEF K!StockAnswer, K!Answered, K!UnavailableMeta, Unavailable
<1>3. CASE ~K!Unlicensed(op, d) /\ op \in K!OfFundamentals
    <2>1. reply = K!FundamentalsAnswer(f)
        BY <1>0, <1>3 DEF K!StockAnswer, K!OfFundamentals
    <2>2. f.kind = "snapshot"
        BY <1>0, <1>1, <2>1 DEF K!FundamentalsAnswer, K!Refused
    <2>3. reply = [K!Answered({"fundamentals"}, None, K!StockAggregate({f.meta}, {}))
                      EXCEPT !.fundamentals = K!View(f)]
        BY <2>1, <2>2 DEF K!FundamentalsAnswer
    <2>. QED BY <1>3, <2>2, <2>3 DEF K!Answered, FundamentalsOnly
<1>4. CASE ~K!Unlicensed(op, d) /\ op \in {"risk", "research"}
    <2> DEFINE bars == IF "candles" \in DOMAIN Parts THEN Parts["candles"].data.bars ELSE <<>>
               tech == IF K!LongEnough(bars) THEN K!StockTechnicals(bars) ELSE None
               absent == IF d.licensed THEN Failed \cap K!StockParts[op] ELSE K!StockParts[op]
    <2>1. reply = K!StockPageWith(op, exchange, Parts, absent, tech, f)
        BY <1>0, <1>4 DEF K!StockAnswer, K!StockPage, K!OfFundamentals
    <2> DEFINE prices  == DOMAIN Parts \cap K!StockParts[op]
               quote   == IF "quote" \in prices THEN Parts["quote"].data ELSE None
               rated   == quote # None \/ tech # None
               scores  == K!StockScores(quote, tech)
               stale   == \E c \in prices : Parts[c].meta.freshness = "stale"
               missing == absent
                            \cup (IF "candles" \in prices /\ tech = None THEN {"technicals"} ELSE {})
                            \cup (IF f.kind = "missing" THEN {"fundamentals"} ELSE {})
               metas   == {Parts[c].meta : c \in prices}
                            \cup (IF f.kind = "snapshot" THEN {f.meta} ELSE {})
               page    == [kind  |-> "answer",
                           shown |-> prices \cup (IF f.kind = "snapshot" THEN {"fundamentals"} ELSE {}),
                           risk  |-> IF rated THEN K!WeightedRisk(scores, K!StockWeights,
                                                                  IF stale THEN 6000 ELSE 10000)
                                     ELSE None,
                           meta  |-> K!StockAggregate(metas, missing),
                           fundamentals |-> IF f.kind = "snapshot" /\ op = "research"
                                            THEN K!View(f) ELSE None,
                           modes |-> K!ModesOf(Parts, f)]
    <2> HIDE DEF tech, absent
    <2>2. reply = IF f.kind = "raised" THEN K!Refused("internal")
                  ELSE IF K!Mistaken(exchange, Parts) THEN K!Refused("schema")
                  ELSE IF rated /\ scores = <<>> THEN K!Refused("internal")
                  ELSE IF metas = {} THEN K!Answered({}, None, K!UnavailableMeta)
                  ELSE page
        BY <2>1 DEF K!StockPageWith
    <2>5. \A code : K!Refused(code).kind = "error"
        BY DEF K!Refused
    <2>6. page.shown = prices \cup (IF f.kind = "snapshot" THEN {"fundamentals"} ELSE {})
        OBVIOUS
    <2>7. page.risk = IF rated THEN K!WeightedRisk(scores, K!StockWeights,
                                                   IF stale THEN 6000 ELSE 10000)
                      ELSE None
        OBVIOUS
    <2>8. page.meta = K!StockAggregate(metas, missing)
        OBVIOUS
    <2>9. f.kind # "raised" /\ ~K!Mistaken(exchange, Parts)
          /\ (reply = K!Answered({}, None, K!UnavailableMeta) \/ reply = page)
        <3> HIDE DEF page, scores, metas, rated
        <3>. QED BY <1>0, <2>2, <2>5
    <2>3. CASE reply = K!Answered({}, None, K!UnavailableMeta)
        BY <2>3 DEF K!Answered, K!UnavailableMeta, Unavailable
    <2>4. CASE reply # K!Answered({}, None, K!UnavailableMeta)
        <3>0. reply = page
            BY <2>4, <2>9
        <3>1. ASSUME reply.risk # None, stale PROVE reply.risk.confidence <= 6000
            <4>1. DOMAIN scores \in SUBSET DOMAIN K!StockWeights
                BY DEF K!StockScores, K!StockWeights
            <4> HIDE DEF scores, rated, stale, page
            <4>2. reply.risk = K!WeightedRisk(scores, K!StockWeights, 6000)
                BY <2>7, <3>0, <3>1
            <4>. QED BY <4>1, <4>2, StockShare DEF K!WeightedRisk
        <3>2. absent \subseteq missing /\ (f.kind = "missing" => "fundamentals" \in missing)
            OBVIOUS
        <3>3. prices = Arrived \cap K!StockParts[op]
            BY <1>0
        <3>4. /\ reply.shown = prices \cup (IF f.kind = "snapshot" THEN {"fundamentals"} ELSE {})
              /\ reply.meta = K!StockAggregate(metas, missing)
            BY <2>6, <2>8, <3>0
        <3>5. reply.risk # None /\ stale => reply.risk.confidence <= 6000
            BY <3>1
        <3> HIDE DEF prices, missing, page
        <3>. QED BY <1>4, <2>9, <3>2, <3>3, <3>4, <3>5 DEF WholePage, absent
    <2>. QED BY <2>3, <2>4
<1>5. CASE ~K!Unlicensed(op, d) /\ op \notin K!OfFundamentals \cup {"risk", "research"}
    <2>1. reply = K!MarketAnswer(op, exchange, Parts, Failed)
        BY <1>0, <1>5 DEF K!StockAnswer, K!OfFundamentals
    <2>2. /\ ~K!Mistaken(exchange, Parts)
          /\ reply = K!Answered(DOMAIN Parts, None,
                                K!StockAggregate({Parts[c].meta : c \in DOMAIN Parts}, Failed))
        BY <1>0, <2>1 DEF K!MarketAnswer, K!Refused
    <2>3. op \in {"search", "overview", "candles", "technicals", "trend"}
        BY <1>0, <1>5 DEF K!StockParts, K!OfFundamentals
    <2>4. d.licensed
        BY <1>5 DEF K!Unlicensed, K!UsesFundamentals
    <2>. QED BY <1>0, <2>2, <2>3, <2>4 DEF K!Answered, MarketOnly
<1>. QED BY <1>2, <1>3, <1>4, <1>5

LEMMA StockTold ==
    ASSUME IInv, Replied, request.service = "stock"
    PROVE  Told
<1> DEFINE op == request.op
           f  == K!FundamentalsOf(op, request.deployment, request.exchange, Parts)
<1>0. request \in Servable /\ Settled
    BY DEF IInv, Replied
<1>1. ASSUME NEW c \in Arrived PROVE Old(c) <=> Parts[c].meta.status = STALE
    BY DEF Old
<1>2. \A c \in ShownReads : c \in Arrived /\ (c \notin K!SecReads => c \in reply.shown)
    BY DEF ShownReads, PartFor
<1>3. PageParts = K!StockParts[op] \cup (IF op \in K!UsesFundamentals THEN {"fundamentals"} ELSE {})
    BY DEF PageParts
<1> HIDE DEF f
<1>4. CASE Unavailable
    <2>1. ShownReads = {}
        BY <1>4 DEF Unavailable, ShownReads
    <2>. QED BY <1>4, <2>1 DEF Unavailable, Told
<1>5. CASE FundamentalsOnly(f)
    <2>1. \A c \in ShownReads : c \in K!SecReads
        BY <1>0, <1>2, <1>5, StockReads DEF FundamentalsOnly
    <2>2. /\ f.meta.status = STALE => reply.meta.freshness = "stale"
          /\ f.meta.partial => reply.meta.partial
        BY <1>5, StockWhole DEF FundamentalsOnly
    <2>3. ASSUME NEW c \in ShownReads
          PROVE  /\ Old(c) => reply.meta.freshness = "stale"
                 /\ Parts[c].meta.partial => reply.meta.partial
        BY <1>0, <1>2, <1>5, <2>1, <2>2, SecSnapshot DEF FundamentalsOnly, f
    <2>4. PageParts \ reply.shown = {}
        <3>1. K!StockParts[op] = {}
            BY <1>5 DEF FundamentalsOnly, K!OfFundamentals, K!StockParts
        <3>. QED BY <1>3, <1>5, <3>1 DEF FundamentalsOnly
    <2>5. reply.risk = None
        BY <1>5 DEF FundamentalsOnly
    <2>. QED BY <2>3, <2>4, <2>5 DEF Told
<1>6. CASE WholePage(f)
    <2> DEFINE prices == Arrived \cap K!StockParts[op]
               metas  == {Parts[c].meta : c \in prices}
                            \cup (IF f.kind = "snapshot" THEN {f.meta} ELSE {})
               absent == IF request.deployment.licensed THEN Failed \cap K!StockParts[op]
                         ELSE K!StockParts[op]
    <2>1. PICK missing : /\ absent \subseteq missing
                         /\ f.kind = "missing" => "fundamentals" \in missing
                         /\ reply.meta = K!StockAggregate(metas, missing)
        BY <1>6 DEF WholePage
    <2>2. /\ reply.shown = prices \cup (IF f.kind = "snapshot" THEN {"fundamentals"} ELSE {})
          /\ f.kind # "raised" /\ op \in {"risk", "research"}
        BY <1>6 DEF WholePage
    <2>3. /\ \A m \in metas : /\ m.status = STALE => reply.meta.freshness = "stale"
                              /\ m.partial => reply.meta.partial
          /\ missing # {} => reply.meta.partial
          /\ missing \subseteq reply.meta.warnings
        BY <2>1, StockWhole
    <2>4. ASSUME NEW c \in ShownReads, c \notin K!SecReads
          PROVE  c \in prices /\ Parts[c].meta \in metas
        BY <1>0, <1>2, <2>2, <2>4, StockReads
    <2>5. ASSUME NEW c \in ShownReads, c \in K!SecReads
          PROVE  f.kind = "snapshot" /\ f.meta \in metas
        <3>1. "fundamentals" \in reply.shown
            BY <2>5 DEF ShownReads, PartFor
        <3>2. "fundamentals" \notin prices
            BY <1>0, StockReads
        <3>. QED BY <2>2, <3>1, <3>2
    <2>6. ASSUME NEW c \in ShownReads
          PROVE  /\ Old(c) => reply.meta.freshness = "stale"
                 /\ Parts[c].meta.partial => reply.meta.partial
        <3>1. CASE c \notin K!SecReads
            BY <1>1, <1>2, <2>3, <2>4, <3>1
        <3>2. CASE c \in K!SecReads
            BY <1>0, <1>2, <2>3, <2>5, <3>2, SecSnapshot DEF f
        <3>. QED BY <3>1, <3>2
    <2>7. ASSUME NEW c \in ShownReads, Old(c), reply.risk # None, c \notin K!SecReads
          PROVE  reply.risk.confidence <= 6000
        <3>1. c \in prices /\ Parts[c].meta.freshness = "stale"
            BY <1>0, <1>2, <2>4, <2>7, ArrivedMeta
        <3>. QED BY <1>6, <2>7, <3>1 DEF WholePage
    <2>8. ASSUME NEW p \in PageParts \ reply.shown
          PROVE  reply.meta.partial /\ p \in reply.meta.warnings
        <3>1. CASE p \in K!StockParts[op]
            <4>1. request.deployment.licensed => p \in Failed
                BY <1>0, <2>2, <2>8, <3>1, StockReads
            <4>2. p \in absent
                BY <3>1, <4>1
            <4>. QED BY <2>1, <2>3, <4>2
        <3>2. CASE p = "fundamentals"
            <4>1. f.kind = "missing"
                BY <2>2, <2>8, <3>2, FundamentalsKinds DEF f
            <4>. QED BY <2>1, <2>3, <3>2, <4>1
        <3>. QED BY <1>3, <2>8, <3>1, <3>2
    <2> HIDE DEF prices, metas, absent
    <2>. QED BY <2>6, <2>7, <2>8 DEF Told
<1>7. CASE MarketOnly
    <2> DEFINE metas == {Parts[c].meta : c \in Arrived}
    <2>1. /\ \A m \in metas : /\ m.status = STALE => reply.meta.freshness = "stale"
                              /\ m.partial => reply.meta.partial
          /\ Failed # {} => reply.meta.partial
          /\ Failed \subseteq reply.meta.warnings
        BY <1>7, StockWhole DEF MarketOnly
    <2>2. ASSUME NEW c \in ShownReads
          PROVE  /\ Old(c) => reply.meta.freshness = "stale"
                 /\ Parts[c].meta.partial => reply.meta.partial
        BY <1>1, <1>2, <2>1
    <2>3. op \notin K!UsesFundamentals
        BY <1>7 DEF MarketOnly, K!UsesFundamentals, K!OfFundamentals
    <2>4. ASSUME NEW p \in PageParts \ reply.shown
          PROVE  reply.meta.partial /\ p \in reply.meta.warnings
        BY <1>0, <1>3, <1>7, <2>1, <2>3, <2>4, StockReads DEF MarketOnly
    <2> HIDE DEF metas
    <2>5. reply.risk = None
        BY <1>7 DEF MarketOnly
    <2>. QED BY <2>2, <2>4, <2>5 DEF Told
<1>. QED BY <1>4, <1>5, <1>6, <1>7, StockAnswerIs DEF f

-----------------------------------------------------------------------------
(* The risk                                                                  *)

(* The weighted risk is within its scores, whatever scores are missing, and  *)
(* a missing one costs confidence.                                           *)
LEMMA WeightedMean ==
    ASSUME NEW base, IsFiniteSet(DOMAIN base), \A n \in DOMAIN base : base[n] \in Nat \ {0},
           SumFunctionOnSet(base, DOMAIN base) = 100,
           NEW scores, DOMAIN scores \subseteq DOMAIN base, DOMAIN scores # {},
           \A n \in DOMAIN scores : scores[n] \in Nat /\ scores[n] <= 10000,
           NEW freshness \in Nat, freshness <= 10000
    PROVE  LET risk == WeightedRisk(scores, base, freshness)
           IN  /\ risk.scores = scores
               /\ risk.overall \in Min(Range(scores))..Max(Range(scores))
               /\ risk.missing # {} => risk.confidence < 10000
<1> DEFINE D == DOMAIN scores
           v == [n \in D |-> scores[n] * base[n]]
           available == SumFunctionOnSet(base, D)
           lo == Min(Range(scores))
           hi == Max(Range(scores))
<1>1. IsFiniteSet(D) /\ \A n \in D : base[n] \in Nat /\ base[n] > 0
    BY FS_Subset
<1>2. /\ lo \in Nat /\ hi \in Nat /\ hi <= 10000
      /\ \A n \in D : lo <= scores[n] /\ scores[n] <= hi
    <2> DEFINE v2 == [n \in D |-> scores[n]]
    <2>1. IsFiniteSet(Range(scores))
        <3>1. Range(scores) = {scores[n] : n \in D}
            BY DEF Range
        <3>2. v2 \in Surjection(D, Range(scores))
            BY <3>1 DEF Surjection
        <3>. QED BY <1>1, <3>2, FS_Surjection
    <2>2. Range(scores) # {} /\ \A y \in Range(scores) : y \in Nat /\ y <= 10000
        BY DEF Range
    <2>3. \A n \in D : scores[n] \in Range(scores)
        BY DEF Range
    <2> DEFINE R == Range(scores)
    <2> HIDE DEF R
    <2>4. R \subseteq Int
        <3>1. \A y \in R : y \in Nat
            BY <2>2 DEF R
        <3>. QED BY <3>1
    <2>5. /\ Min(R) \in R /\ \A y \in R : Min(R) <= y
          /\ Max(R) \in R /\ \A y \in R : Max(R) >= y
        BY <2>1, <2>2, <2>4, LeastAndGreatest DEF R
    <2>6. lo \in R /\ hi \in R /\ \A y \in R : lo <= y /\ hi >= y
        BY <2>5 DEF R
    <2> HIDE DEF lo, hi
    <2>7. (\A y \in R : y \in Nat /\ y <= 10000) /\ \A n \in D : scores[n] \in R
        BY <2>2, <2>3 DEF R
    <2>. QED BY <2>6, <2>7
<1> HIDE DEF lo, hi
<1>3. available \in Nat \ {0} /\ available <= 100
    <2>1. available \in Nat
        BY <1>1, SumIsNat
    <2>2. available <= 100
        BY SumMonotone
    <2>3. PICK n : n \in D
        OBVIOUS
    <2>4. available = base[n] + SumFunctionOnSet(base, D \ {n})
        BY <1>1, <2>3, SumRemoves
    <2>5. SumFunctionOnSet(base, D \ {n}) \in Nat
        <3>1. IsFiniteSet(D \ {n})
            BY <1>1, FS_Subset
        <3>. QED BY <1>1, <3>1, SumIsNat
    <2> HIDE DEF available
    <2>. QED BY <1>1, <2>1, <2>2, <2>3, <2>4, <2>5
<1>4. \A n \in D : v[n] \in Nat /\ lo * base[n] <= v[n] /\ v[n] <= hi * base[n]
    <2> TAKE n \in D
    <2>1. v[n] = scores[n] * base[n]
        OBVIOUS
    <2>2. base[n] \in Nat /\ scores[n] \in Nat /\ lo <= scores[n] /\ scores[n] <= hi
        BY <1>1, <1>2
    <2>3. ASSUME NEW a \in Nat, NEW b \in Nat, NEW c \in Nat, NEW w \in Nat, a <= b, b <= c
          PROVE  b * w \in Nat /\ a * w <= b * w /\ b * w <= c * w
        BY <2>3
    <2> HIDE DEF v
    <2>4. scores[n] \in Nat /\ lo \in Nat /\ hi \in Nat
        BY <1>2, <2>2
    <2>. QED BY <2>1, <2>2, <2>3, <2>4
<1>5. /\ SumFunctionOnSet(v, D) \in Nat
      /\ lo * available <= SumFunctionOnSet(v, D)
      /\ SumFunctionOnSet(v, D) <= hi * available
    <2> HIDE DEF v, D
    <2>1. SumFunctionOnSet(v, D) \in Nat
        BY <1>1, <1>4, SumIsNat
    <2>2. lo \in Nat /\ hi \in Nat
        BY <1>2
    <2>3. \A x \in D : /\ base[x] \in Nat /\ v[x] \in Nat
                       /\ lo * base[x] <= v[x] /\ v[x] <= hi * base[x]
        BY <1>1, <1>4
    <2>4. IsFiniteSet(D) /\ Between(v, base, D, lo, hi)
        BY <1>1, <2>2, <2>3 DEF Between
    <2>. QED BY <2>1, <2>4, SumBetween
<1>6. SumFunction(v) = SumFunctionOnSet(v, D)
    <2>1. DOMAIN v = D
        OBVIOUS
    <2> HIDE DEF v
    <2>. QED BY <2>1 DEF SumFunction
<1> DEFINE q == SumFunction(v) \div available
           risk == WeightedRisk(scores, base, freshness)
<1>7. q \in lo..hi
    <2> DEFINE a == available
               b == SumFunctionOnSet(v, D)
    <2>1. /\ a \in Nat \ {0} /\ b \in Nat /\ lo \in Nat /\ hi \in Nat
          /\ lo * a <= b /\ b <= hi * a
        BY <1>2, <1>3, <1>5
    <2>2. q = b \div a
        BY <1>6
    <2> HIDE DEF a, b, q
    <2>. QED BY <2>1, <2>2, QuotientBetween
<1>8. /\ risk.scores = scores /\ risk.overall = Clamp(q, 0, 10000)
      /\ risk.missing = DOMAIN base \ D
      /\ risk.confidence = (available * freshness) \div 100
    BY DEF WeightedRisk
<1>9. risk.overall \in lo..hi
    <2> HIDE DEF q, risk
    <2>. QED BY <1>2, <1>7, <1>8 DEF Clamp, Least
<1>10. ASSUME risk.missing # {} PROVE risk.confidence < 10000
    <2>1. PICK m \in DOMAIN base : m \notin D
        BY <1>8, <1>10
    <2>2. 100 = base[m] + SumFunctionOnSet(base, DOMAIN base \ {m})
        BY SumRemoves
    <2>3. available <= SumFunctionOnSet(base, DOMAIN base \ {m})
        <3>1. IsFiniteSet(DOMAIN base \ {m}) /\ D \in SUBSET (DOMAIN base \ {m})
            BY <2>1, FS_Subset
        <3>. QED BY <3>1, SumMonotone
    <2>4. SumFunctionOnSet(base, DOMAIN base \ {m}) \in Nat
        <3>1. IsFiniteSet(DOMAIN base \ {m})
            BY FS_Subset
        <3>. QED BY <3>1, SumIsNat
    <2> HIDE DEF available
    <2>5. available <= 99
        BY <1>3, <2>1, <2>2, <2>3, <2>4
    <2>6. available * freshness <= 99 * 10000
        <3>1. ASSUME NEW a \in Nat, NEW f \in Nat, a <= 99, f <= 10000 PROVE a * f <= 99 * 10000
            <4>1. a * f <= 99 * f
                BY <3>1
            <4>2. 99 * f <= 99 * 10000
                BY <3>1
            <4>3. a * f \in Nat
                BY <3>1
            <4>. QED BY <4>1, <4>2, <4>3
        <3>2. available \in Nat /\ freshness \in Nat /\ freshness <= 10000
            BY <1>3
        <3>. QED BY <2>5, <3>1, <3>2
    <2>7. available * freshness \in Nat
        <3>1. \A a, f \in Nat : a * f \in Nat
            OBVIOUS
        <3>. QED BY <1>3, <3>1
    <2> DEFINE p == available * freshness
    <2> HIDE DEF p
    <2>8. p \in Nat /\ p <= 990000
        BY <2>6, <2>7 DEF p
    <2>9. p \div 100 < 10000
        BY <2>8
    <2> HIDE DEF risk
    <2>. QED BY <1>8, <2>9 DEF p
<1>. QED BY <1>8, <1>9, <1>10 DEF lo, hi

(* A risk as RiskIsWeightedMean has it.                                      *)
Mean(risk) ==
    LET scores == Range(risk.scores)
    IN  /\ risk.overall \in Min(scores)..Max(scores)
        /\ risk.missing # {} => risk.confidence < 10000

(* Scores of some of the parts of a base are numbers between nothing and all. *)
Scored(scores, base) ==
    /\ DOMAIN scores \subseteq DOMAIN base /\ DOMAIN scores # {}
    /\ \A n \in DOMAIN scores : scores[n] \in Nat /\ scores[n] <= 10000

(* The base weights of each service make it one.                             *)
LEMMA SpotMean ==
    ASSUME NEW scores, Scored(scores, S!SpotWeights), NEW freshness \in {6000, 10000}
    PROVE  Mean(S!WeightedRisk(scores, S!SpotWeights, freshness))
<1> DEFINE w == S!SpotWeights
<1>1. S!WeightedRisk(scores, w, freshness) = WeightedRisk(scores, w, freshness)
    BY DEF S!WeightedRisk, S!Clamp, S!Least, S!LabelOf, S!SumFunction, S!SumFunctionOnSet,
           S!FoldFunctionOnSet, S!MapThenFoldSet, WeightedRisk, Clamp, Least, LabelOf,
           SumFunction, SumFunctionOnSet, FoldFunctionOnSet, MapThenFoldSet
<1>2. \A n \in DOMAIN w : w[n] \in Nat \ {0}
    BY DEF S!SpotWeights
<1>3. IsFiniteSet(DOMAIN w) /\ SumFunctionOnSet(w, DOMAIN w) = 100
    BY SpotBase
<1> HIDE DEF w
<1>4. Mean(WeightedRisk(scores, w, freshness))
    BY <1>2, <1>3, WeightedMean DEF Scored, Mean, w
<1>. QED BY <1>1, <1>4 DEF w

LEMMA FuturesMean ==
    ASSUME NEW scores, Scored(scores, U!FuturesWeights), NEW freshness \in {6000, 10000}
    PROVE  Mean(U!WeightedRisk(scores, U!FuturesWeights, freshness))
<1> DEFINE w == U!FuturesWeights
<1>1. U!WeightedRisk(scores, w, freshness) = WeightedRisk(scores, w, freshness)
    BY DEF U!WeightedRisk, U!Clamp, U!Least, U!LabelOf, U!SumFunction, U!SumFunctionOnSet,
           U!FoldFunctionOnSet, U!MapThenFoldSet, WeightedRisk, Clamp, Least, LabelOf,
           SumFunction, SumFunctionOnSet, FoldFunctionOnSet, MapThenFoldSet
<1>2. \A n \in DOMAIN w : w[n] \in Nat \ {0}
    BY DEF U!FuturesWeights
<1>3. IsFiniteSet(DOMAIN w) /\ SumFunctionOnSet(w, DOMAIN w) = 100
    BY FuturesBase
<1> HIDE DEF w
<1>4. Mean(WeightedRisk(scores, w, freshness))
    BY <1>2, <1>3, WeightedMean DEF Scored, Mean, w
<1>. QED BY <1>1, <1>4 DEF w

LEMMA CryptoMean ==
    ASSUME NEW scores, Scored(scores, C!CryptoWeights), NEW freshness \in {6000, 10000}
    PROVE  Mean(C!WeightedRisk(scores, C!CryptoWeights, freshness))
<1> DEFINE w == C!CryptoWeights
<1>1. C!WeightedRisk(scores, w, freshness) = WeightedRisk(scores, w, freshness)
    BY DEF C!WeightedRisk, C!Clamp, C!Least, C!LabelOf, C!SumFunction, C!SumFunctionOnSet,
           C!FoldFunctionOnSet, C!MapThenFoldSet, WeightedRisk, Clamp, Least, LabelOf,
           SumFunction, SumFunctionOnSet, FoldFunctionOnSet, MapThenFoldSet
<1>2. \A n \in DOMAIN w : w[n] \in Nat \ {0}
    BY DEF C!CryptoWeights
<1>3. IsFiniteSet(DOMAIN w) /\ SumFunctionOnSet(w, DOMAIN w) = 100
    BY CryptoBase
<1> HIDE DEF w
<1>4. Mean(WeightedRisk(scores, w, freshness))
    BY <1>2, <1>3, WeightedMean DEF Scored, Mean, w
<1>. QED BY <1>1, <1>4 DEF w

LEMMA StockMean ==
    ASSUME NEW scores, Scored(scores, K!StockWeights), NEW freshness \in {6000, 10000}
    PROVE  Mean(K!WeightedRisk(scores, K!StockWeights, freshness))
<1> DEFINE w == K!StockWeights
<1>1. K!WeightedRisk(scores, w, freshness) = WeightedRisk(scores, w, freshness)
    BY DEF K!WeightedRisk, K!Clamp, K!Least, K!LabelOf, K!SumFunction, K!SumFunctionOnSet,
           K!FoldFunctionOnSet, K!MapThenFoldSet, WeightedRisk, Clamp, Least, LabelOf,
           SumFunction, SumFunctionOnSet, FoldFunctionOnSet, MapThenFoldSet
<1>2. \A n \in DOMAIN w : w[n] \in Nat \ {0}
    BY DEF K!StockWeights
<1>3. IsFiniteSet(DOMAIN w) /\ SumFunctionOnSet(w, DOMAIN w) = 100
    BY StockBase
<1> HIDE DEF w
<1>4. Mean(WeightedRisk(scores, w, freshness))
    BY <1>2, <1>3, WeightedMean DEF Scored, Mean, w
<1>. QED BY <1>1, <1>4 DEF w

(* What has come is numeric where the analytics need it.                     *)
LEMMA ArrivedNumbers ==
    ASSUME IInv, request \in Servable, NEW c \in Arrived
    PROVE  Numbers(request.service, c, Parts[c].data)
<1>1. c \in DOMAIN reads /\ reads[c] \notin {Waiting, Lost}
    BY DEF Arrived
<1>2. PICK wire \in DOMAIN Wires[request.service][c], status \in Statuses[request.service][c] :
         /\ Normal[request.service][c][wire].ok
         /\ reads[c] = Got(request.service, c, wire, status)
    BY <1>1 DEF IInv, ReadOk
<1>3. c \in DOMAIN Wires[request.service] /\ request.service \in DOMAIN Wires
    BY <1>1, RequestIs DEF IInv
<1>4. Parts[c].data = Normal[request.service][c][wire].data
    BY <1>2 DEF Parts, Got, PartOf
<1>. QED BY <1>2, <1>3, <1>4, NumbersAssumption

(* The scores of a page are some of those it weighs, and never none; each is *)
(* clamped.                                                                  *)
LEMMA SpotRated ==
    ASSUME IInv, Replied, request.service = "spot", reply.risk # None
    PROVE  Mean(reply.risk)
<1> DEFINE op == request.op
           P == [c \in DOMAIN Parts \cap S!SpotParts[op] |-> Parts[c]]
           meta == S!SpotAggregate({P[c].meta : c \in DOMAIN P}, Failed)
           tech == S!TechnicalsOf(P["candles"].data)
           D == {n \in DOMAIN S!SpotWeights :
                    CASE n = "liquidity"     -> "order_book" \in DOMAIN P
                      [] n = "trade_anomaly" -> "trades" \in DOMAIN P
                      [] OTHER               -> "candles" \in DOMAIN P}
           scores == [n \in D |-> S!SpotScore(n, P, tech)]
<1>0. /\ request \in Servable /\ op \in DOMAIN S!SpotParts
      /\ reply = S!SpotAnswer(op, P, Failed) /\ reply.kind = "answer"
    BY RequestIs DEF IInv, Replied, AnswerOf
<1>1. \A c \in DOMAIN P : c \in Arrived /\ Numbers("spot", c, P[c].data)
    BY <1>0, ArrivedNumbers DEF Parts
<1>2. op \in S!SpotCaptures /\ reply = S!SpotPage(P, meta) /\ ~S!TooShort(op, P)
    <2> HIDE DEF P
    <2>1. ~S!TooShort(op, P) /\ P # <<>>
        BY <1>0 DEF S!SpotAnswer
    <2>2. op \in S!SpotCaptures
        BY <1>0, <2>1 DEF S!SpotAnswer
    <2>. QED BY <1>0, <2>1, <2>2 DEF S!SpotAnswer
<1>3. /\ DOMAIN P \cap {"candles", "order_book", "trades"} # {}
      /\ reply.risk = S!SpotRisk(P, S!FreshnessConfidence(meta))
    BY <1>2 DEF S!SpotPage
<1>4. reply.risk = S!WeightedRisk(scores, S!SpotWeights, S!FreshnessConfidence(meta))
    BY <1>3 DEF S!SpotRisk
<1>5. S!FreshnessConfidence(meta) \in {6000, 10000}
    BY DEF S!FreshnessConfidence
<1>6. D \subseteq DOMAIN S!SpotWeights /\ D # {}
    BY <1>3 DEF S!SpotWeights
<1> HIDE DEF P, meta, tech
<1>7. ASSUME NEW n \in D PROVE scores[n] \in Nat /\ scores[n] <= 10000
    <2>1. scores[n] = S!SpotScore(n, P, tech)
        OBVIOUS
    <2> HIDE DEF scores
    <2>2. CASE n = "volatility"
        <3>1. "candles" \in DOMAIN P
            BY <1>7, <2>2
        <3>2. tech.volatility \in Int
            BY <1>1, <1>2, <3>1 DEF Numbers, S!TooShort, S!SpotCaptures, tech
        <3>3. scores[n] = S!Clamp(tech.volatility \div 2, 0, 10000)
            BY <2>1, <2>2 DEF S!SpotScore, S!VolatilityScore
        <3>. QED BY <3>2, <3>3 DEF S!Clamp, S!Least
    <2>3. CASE n = "trend_instability"
        <3>1. "candles" \in DOMAIN P
            BY <1>7, <2>3
        <3>2. tech.confidence \in Int /\ tech.rsi \in Int
            BY <1>1, <1>2, <3>1 DEF Numbers, S!TooShort, S!SpotCaptures, tech
        <3>3. scores[n] = S!InstabilityScore(tech)
            BY <2>1, <2>3 DEF S!SpotScore
        <3>. QED BY <3>2, <3>3 DEF S!InstabilityScore, S!Clamp, S!Least, S!Magnitude
    <2>4. CASE n = "liquidity"
        <3> DEFINE b == S!BookAnalysis(P["order_book"].data)
        <3>1. "order_book" \in DOMAIN P
            BY <1>7, <2>4
        <3>2. b.spread \in Int /\ b.buy \in Int \cup {None} /\ b.sell \in Int \cup {None}
            BY <1>1, <3>1 DEF Numbers
        <3>3. scores[n] = S!LiquidityScore(b)
            BY <2>1, <2>4 DEF S!SpotScore
        <3> HIDE DEF b
        <3> DEFINE known == {b.buy, b.sell} \ {None}
        <3>4. known # {} => S!Max(known) \in Int
            <4>1. known \subseteq Int /\ IsFiniteSet(known)
                <5>1. IsFiniteSet({b.buy} \cup {b.sell})
                    BY FS_AddElement, FS_Singleton
                <5>. QED BY <3>2, <5>1, FS_Subset
            <4>2. S!Max(known) = Max(known)
                BY DEF S!Max, Max
            <4> HIDE DEF known
            <4>. QED BY <4>1, <4>2, LeastAndGreatest
        <3> DEFINE slip == IF known = {} THEN 25
                           ELSE IF None \in {b.buy, b.sell} THEN S!Max(known)
                           ELSE (b.buy + b.sell) \div 2
        <3>5. slip \in Int
            BY <3>2, <3>4
        <3>6. S!LiquidityScore(b)
                = S!Clamp(300 * b.spread + 200 * slip
                            + (IF None \in {b.buy, b.sell} THEN 2000 ELSE 0), 0, 10000)
            BY DEF S!LiquidityScore
        <3> HIDE DEF slip
        <3>. QED BY <3>2, <3>3, <3>5, <3>6 DEF S!Clamp, S!Least
    <2>5. CASE n = "trade_anomaly"
        <3> DEFINE t == S!TradesOf(P["trades"].data)
        <3>1. "trades" \in DOMAIN P
            BY <1>7, <2>5
        <3>2. t.share \in Int /\ t.imbalance \in Int
            BY <1>1, <3>1 DEF Numbers
        <3>3. scores[n] = S!AnomalyScore(t)
            BY <2>1, <2>5 DEF S!SpotScore
        <3> HIDE DEF t
        <3>. QED BY <3>2, <3>3 DEF S!AnomalyScore, S!Clamp, S!Least
    <2>6. n \in {"volatility", "liquidity", "trade_anomaly", "trend_instability"}
        BY <1>6 DEF S!SpotWeights
    <2>. QED BY <2>2, <2>3, <2>4, <2>5, <2>6
<1>8. DOMAIN scores = D
    OBVIOUS
<1> HIDE DEF scores, D
<1>9. Scored(scores, S!SpotWeights)
    BY <1>6, <1>7, <1>8 DEF Scored
<1>. QED BY <1>4, <1>5, <1>9, SpotMean

LEMMA FuturesRated ==
    ASSUME IInv, Replied, request.service = "futures", reply.risk # None
    PROVE  Mean(reply.risk)
<1> DEFINE op == request.op
           P == [c \in DOMAIN Parts \cap U!FuturesParts[op] |-> Parts[c]]
           meta == U!FuturesAggregate({P[c].meta : c \in DOMAIN P}, Failed)
           a == U!AnalyzeFutures(P)
           D == {n \in DOMAIN U!FuturesWeights : \A s \in U!Needed[n] : a[s] # None}
           scores == [n \in D |-> U!Clamp(U!FuturesScore(n, a), 0, 10000)]
<1>0. /\ request \in Servable /\ op \in DOMAIN U!FuturesParts
      /\ reply = U!FuturesAnswer(op, P, Failed) /\ reply.kind = "answer"
    BY RequestIs DEF IInv, Replied, AnswerOf
<1>1. \A c \in DOMAIN P : c \in Arrived /\ Numbers("futures", c, P[c].data)
    BY <1>0, ArrivedNumbers DEF Parts
<1>2. reply.risk = U!FuturesRisk(a, U!FreshnessConfidence(meta))
    BY <1>0 DEF U!FuturesAnswer
<1> HIDE DEF P, meta
<1>3. \A s \in {"funding", "change", "z", "basis", "long", "taker"} : a[s] \in Int \cup {None}
    <2>1. a.funding \in Int \cup {None}
        BY <1>1 DEF U!AnalyzeFutures, Numbers
    <2>2. a.change \in Int \cup {None}
        BY <1>1 DEF U!AnalyzeFutures, Numbers
    <2>3. a.z \in Int \cup {None}
        BY <1>1 DEF U!AnalyzeFutures, Numbers
    <2>4. a.basis \in Int \cup {None}
        BY <1>1 DEF U!AnalyzeFutures, Numbers
    <2>5. a.long \in Int \cup {None}
        BY <1>1 DEF U!AnalyzeFutures, Numbers
    <2>6. a.taker \in Int \cup {None}
        BY <1>1 DEF U!AnalyzeFutures, Numbers
    <2> HIDE DEF a
    <2>. QED BY <2>1, <2>2, <2>3, <2>4, <2>5, <2>6
<1> HIDE DEF a
<1>4. D # {} /\ reply.risk = U!WeightedRisk(scores, U!FuturesWeights, U!FreshnessConfidence(meta))
    BY <1>2 DEF U!FuturesRisk
<1>5. U!FreshnessConfidence(meta) \in {6000, 10000}
    BY DEF U!FreshnessConfidence
<1>6. ASSUME NEW n \in D PROVE scores[n] \in Nat /\ scores[n] <= 10000
    <2>1. scores[n] = U!Clamp(U!FuturesScore(n, a), 0, 10000)
        OBVIOUS
    <2> HIDE DEF scores
    <2>2. \A s \in U!Needed[n] : a[s] # None
        OBVIOUS
    <2>3. n \in {"funding_crowding", "open_interest_instability", "basis_dislocation",
                 "positioning_imbalance"}
        BY DEF U!FuturesWeights
    <2>4. U!FuturesScore(n, a) \in Int
        <3>1. CASE n = "funding_crowding"
            BY <1>3, <2>2, <3>1 DEF U!Needed, U!FuturesScore, U!Magnitude
        <3>2. CASE n = "open_interest_instability"
            BY <1>3, <2>2, <3>2 DEF U!Needed, U!FuturesScore, U!Magnitude
        <3>3. CASE n = "basis_dislocation"
            BY <1>3, <2>2, <3>3 DEF U!Needed, U!FuturesScore, U!Magnitude
        <3>4. CASE n = "positioning_imbalance"
            BY <1>3, <2>2, <3>4 DEF U!Needed, U!FuturesScore, U!Magnitude
        <3>. QED BY <2>3, <3>1, <3>2, <3>3, <3>4
    <2>. QED BY <2>1, <2>4 DEF U!Clamp, U!Least
<1>7. DOMAIN scores = D /\ D \subseteq DOMAIN U!FuturesWeights
    OBVIOUS
<1> HIDE DEF scores, D
<1>8. Scored(scores, U!FuturesWeights)
    BY <1>4, <1>6, <1>7 DEF Scored
<1>. QED BY <1>4, <1>5, <1>8, FuturesMean

LEMMA CryptoRated ==
    ASSUME IInv, Replied, request.service = "crypto", reply.risk # None
    PROVE  Mean(reply.risk)
<1> DEFINE op == request.op
           points == IF "history" \in DOMAIN Parts THEN Parts["history"].data ELSE <<>>
           coin == Parts["overview"].data[1]
           scores == C!CryptoScores(coin, points)
<1>0. /\ request \in Servable /\ Settled /\ op \in DOMAIN C!CryptoParts /\ DOMAIN Parts = Arrived
      /\ reply = C!CryptoAnswer(op, Parts, Failed) /\ reply.kind = "answer"
    BY RequestIs DEF IInv, Replied, AnswerOf, Parts
<1>1. \A c \in Arrived : Numbers("crypto", c, Parts[c].data)
    BY <1>0, ArrivedNumbers
<1>2. op \in C!CryptoCaptures /\ reply = C!CryptoPage(op, Parts, Failed)
    BY <1>0 DEF C!CryptoAnswer
<1>3. PICK meta : reply = C!CryptoPageWith(DOMAIN Parts, scores, meta)
    BY <1>2 DEF C!CryptoPage
<1> HIDE DEF scores, points
<1>4. /\ scores # <<>>
      /\ reply.risk = C!WeightedRisk(scores, C!CryptoWeights, C!FreshnessConfidence(meta))
    BY <1>0, <1>3 DEF C!CryptoPageWith
<1>5. C!FreshnessConfidence(meta) \in {6000, 10000}
    BY DEF C!FreshnessConfidence
<1>6. /\ coin.cap \in Int \cup {None} /\ coin.volume \in Int \cup {None}
      /\ C!KnownCap(coin) => C!Log10(coin.cap) \in Int
    <2>1. op \in C!OfOneCoin
        BY <1>2 DEF C!OfOneCoin, C!CryptoCaptures
    <2>2. "overview" \in Arrived /\ Parts["overview"].data # <<>>
        BY <1>0, <2>1, OverviewArrives DEF C!CoinFound
    <2>. QED BY <1>1, <2>2 DEF Numbers
<1>7. C!LongEnough(points) =>
         LET t == C!TechnicalsOf(points)
         IN  /\ t.volatility \in Int /\ t.drawdown \in Int /\ t.confidence \in Int
             /\ C!AnomaliesOf(points).score \in Int
    <2> SUFFICES ASSUME C!LongEnough(points)
                 PROVE  LET t == C!TechnicalsOf(points)
                        IN  /\ t.volatility \in Int /\ t.drawdown \in Int /\ t.confidence \in Int
                            /\ C!AnomaliesOf(points).score \in Int
        OBVIOUS
    <2>1. CASE "history" \in DOMAIN Parts
        <3>1. "history" \in Arrived /\ points = Parts["history"].data
            BY <1>0, <2>1 DEF points
        <3>. QED BY <1>1, <3>1 DEF Numbers
    <2>2. CASE "history" \notin DOMAIN Parts
        BY <2>2 DEF points, C!LongEnough
    <2>. QED BY <2>1, <2>2
<1> HIDE DEF coin
<1> DEFINE tech == C!TechnicalsOf(points)
           anomalies == C!AnomaliesOf(points)
           analysed == IF C!LongEnough(points)
                       THEN {"volatility", "drawdown", "trend_instability", "anomaly"} ELSE {}
           market == (IF C!KnownCap(coin) THEN {"market_size"} ELSE {})
                       \cup (IF C!KnownCap(coin) /\ coin.volume # None THEN {"liquidity"} ELSE {})
           D == analysed \cup market
<1>8. scores = [n \in D |-> C!Clamp(C!CryptoScore(n, coin, tech, anomalies), 0, 10000)]
    BY DEF C!CryptoScores, scores
<1>9. D # {}
    BY <1>4, <1>8
<1>10. tech.trend \in {"bullish", "neutral", "bearish"}
    BY DEF C!TechnicalsOf, C!Judged, C!TechnicalsWith
<1>11. ASSUME NEW n \in D PROVE C!CryptoScore(n, coin, tech, anomalies) \in Int
    <2>1. ASSUME n \in analysed
          PROVE  /\ tech.volatility \in Int /\ tech.drawdown \in Int /\ tech.confidence \in Int
                 /\ anomalies.score \in Int
        BY <1>7, <2>1
    <2> HIDE DEF tech, anomalies
    <2>2. CASE n = "volatility"
        BY <2>1, <2>2 DEF C!CryptoScore
    <2>3. CASE n = "drawdown"
        BY <2>1, <2>3 DEF C!CryptoScore
    <2>4. CASE n = "trend_instability"
        BY <1>10, <2>1, <2>4 DEF C!CryptoScore
    <2>5. CASE n = "anomaly"
        BY <2>1, <2>5 DEF C!CryptoScore
    <2>6. CASE n = "liquidity"
        <3>1. coin.cap \in Int /\ coin.cap > 0 /\ coin.volume \in Int
            BY <1>6, <1>11, <2>6 DEF C!KnownCap
        <3>. QED BY <2>6, <3>1 DEF C!CryptoScore
    <2>7. CASE n = "market_size"
        <3>1. C!Log10(coin.cap) \in Int
            BY <1>6, <1>11, <2>7
        <3>. QED BY <2>7, <3>1 DEF C!CryptoScore
    <2>. QED BY <2>2, <2>3, <2>4, <2>5, <2>6, <2>7
<1> HIDE DEF D
<1>12. \A n \in D : scores[n] \in Nat /\ scores[n] <= 10000
    BY <1>8, <1>11 DEF C!Clamp, C!Least
<1>13. DOMAIN scores = D /\ D \subseteq DOMAIN C!CryptoWeights
    BY <1>8 DEF D, C!CryptoWeights
<1>14. Scored(scores, C!CryptoWeights)
    BY <1>9, <1>12, <1>13 DEF Scored
<1>. QED BY <1>4, <1>5, <1>14, CryptoMean

LEMMA StockRated ==
    ASSUME IInv, Replied, request.service = "stock", reply.risk # None
    PROVE  Mean(reply.risk)
<1> DEFINE op == request.op
           d == request.deployment
           exchange == request.exchange
           bars == IF "candles" \in DOMAIN Parts THEN Parts["candles"].data.bars ELSE <<>>
           tech == IF K!LongEnough(bars) THEN K!StockTechnicals(bars) ELSE None
           absent == IF d.licensed THEN Failed \cap K!StockParts[op] ELSE K!StockParts[op]
           f == K!FundamentalsOf(op, d, exchange, Parts)
           prices == DOMAIN Parts \cap K!StockParts[op]
           quote == IF "quote" \in prices THEN Parts["quote"].data ELSE None
           scores == K!StockScores(quote, tech)
           freshness == IF \E c \in prices : Parts[c].meta.freshness = "stale" THEN 6000 ELSE 10000
<1>0. /\ request \in Servable /\ op \in DOMAIN K!StockParts /\ DOMAIN Parts = Arrived
      /\ reply = K!StockAnswer(op, d, exchange, Parts, Failed) /\ reply.kind = "answer"
    BY RequestIs DEF IInv, Replied, AnswerOf, Parts
<1>1. \A c \in Arrived : Numbers("stock", c, Parts[c].data)
    BY <1>0, ArrivedNumbers
<1>2. \A code : K!Refused(code).kind = "error"
    BY DEF K!Refused
<1>3. reply = K!StockPageWith(op, exchange, Parts, absent, tech, f)
    <2>1. ~K!Unlicensed(op, d)
        BY <1>0 DEF K!StockAnswer, K!Answered
    <2>2. op \notin K!OfFundamentals
        <3> SUFFICES ASSUME op \in K!OfFundamentals PROVE FALSE
            OBVIOUS
        <3>1. reply = K!FundamentalsAnswer(f)
            BY <1>0, <2>1 DEF K!StockAnswer, K!OfFundamentals
        <3>2. f.kind = "snapshot"
            BY <1>0, <1>2, <3>1, FundamentalsKinds DEF K!FundamentalsAnswer
        <3>. QED BY <3>1, <3>2 DEF K!FundamentalsAnswer, K!Answered
    <2>3. op \in {"risk", "research"}
        <3> SUFFICES ASSUME op \notin {"risk", "research"} PROVE FALSE
            OBVIOUS
        <3>1. reply = K!MarketAnswer(op, exchange, Parts, Failed)
            BY <1>0, <2>1, <2>2 DEF K!StockAnswer
        <3>. QED BY <1>0, <1>2, <3>1 DEF K!MarketAnswer, K!Answered
    <2>. QED BY <1>0, <2>1, <2>2, <2>3 DEF K!StockAnswer, K!StockPage
<1> HIDE DEF bars, tech, absent, f
<1>4. /\ scores # <<>> /\ (quote # None \/ tech # None)
      /\ reply.risk = K!WeightedRisk(scores, K!StockWeights, freshness)
    <2> DEFINE rated   == quote # None \/ tech # None
               missing == absent
                            \cup (IF "candles" \in prices /\ tech = None THEN {"technicals"} ELSE {})
                            \cup (IF f.kind = "missing" THEN {"fundamentals"} ELSE {})
               metas   == {Parts[c].meta : c \in prices}
                            \cup (IF f.kind = "snapshot" THEN {f.meta} ELSE {})
               page    == [kind  |-> "answer",
                           shown |-> prices \cup (IF f.kind = "snapshot" THEN {"fundamentals"} ELSE {}),
                           risk  |-> IF rated THEN K!WeightedRisk(scores, K!StockWeights, freshness)
                                     ELSE None,
                           meta  |-> K!StockAggregate(metas, missing),
                           fundamentals |-> IF f.kind = "snapshot" /\ op = "research"
                                            THEN K!View(f) ELSE None,
                           modes |-> K!ModesOf(Parts, f)]
    <2>1. reply = IF f.kind = "raised" THEN K!Refused("internal")
                  ELSE IF K!Mistaken(exchange, Parts) THEN K!Refused("schema")
                  ELSE IF rated /\ scores = <<>> THEN K!Refused("internal")
                  ELSE IF metas = {} THEN K!Answered({}, None, K!UnavailableMeta)
                  ELSE page
        BY <1>3 DEF K!StockPageWith
    <2>2. page.risk = IF rated THEN K!WeightedRisk(scores, K!StockWeights, freshness) ELSE None
        OBVIOUS
    <2>3. K!Answered({}, None, K!UnavailableMeta).risk = None
        BY DEF K!Answered
    <2> HIDE DEF page, scores, metas, missing, freshness, rated
    <2>4. reply = page /\ ~(rated /\ scores = <<>>)
        BY <1>0, <1>2, <2>1, <2>3
    <2>5. rated /\ reply.risk = K!WeightedRisk(scores, K!StockWeights, freshness)
        BY <2>2, <2>4
    <2>. QED BY <2>4, <2>5 DEF rated
<1>5. freshness \in {6000, 10000}
    OBVIOUS
<1> DEFINE analysed == IF tech = None THEN {} ELSE {"volatility", "drawdown", "trend_instability"}
           traded == IF quote = None \/ quote.volume = None \/ quote.cap \in {None, 0}
                     THEN {} ELSE {"liquidity"}
           D == analysed \cup traded
           base == [bullish |-> 2000, neutral |-> 5000, bearish |-> 8000]
           Score(n) == CASE n = "volatility"        -> 2 * tech.volatility
                         [] n = "drawdown"          -> 2 * tech.drawdown
                         [] n = "trend_instability" ->
                               base[tech.trend] + (15 * (10000 - tech.confidence)) \div 100
                         [] n = "liquidity" ->
                               10000 - (200000 * quote.volume * quote.price) \div quote.cap
<1>6. ASSUME tech # None
      PROVE  /\ tech.volatility \in Int /\ tech.drawdown \in Int /\ tech.confidence \in Int
             /\ tech.trend \in {"bullish", "neutral", "bearish"}
    <2>1. K!LongEnough(bars) /\ tech = K!StockTechnicals(bars)
        BY <1>6 DEF tech
    <2>2. "candles" \in Arrived /\ bars = Parts["candles"].data.bars
        BY <1>0, <2>1 DEF bars, K!LongEnough
    <2>3. tech.volatility \in Int /\ tech.drawdown \in Int /\ tech.confidence \in Int
        BY <1>1, <2>1, <2>2 DEF Numbers
    <2>4. tech.trend \in {"bullish", "neutral", "bearish"}
        <3>1. \A closes, rules, score :
                 K!StockTechnicalsWith(closes, rules, score).trend \in {"bullish", "neutral", "bearish"}
            BY DEF K!StockTechnicalsWith
        <3>. QED BY <2>1, <3>1 DEF K!StockTechnicals, K!Total, K!MapThenSumSet, K!MapThenFoldSet
    <2>. QED BY <2>3, <2>4
<1>7. ASSUME quote # None
      PROVE  /\ quote.price \in Int /\ quote.volume \in Int \cup {None}
             /\ quote.cap \in Int \cup {None} /\ (quote.cap # None => quote.cap >= 0)
    <2>1. "quote" \in Arrived /\ quote = Parts["quote"].data
        BY <1>0, <1>7
    <2>2. quote.cap = None \/ quote.cap >= 0
        <3>1. PICK wire \in DOMAIN Wires["stock"]["quote"], status \in Statuses["stock"]["quote"] :
                 LET norm == Normalize("stock", "quote", Wires["stock"]["quote"][wire])
                 IN  norm.ok /\ Parts["quote"] = PartOf("stock", "quote", norm, status)
            BY <1>0, <2>1, ArrivedIs
        <3> DEFINE w == Wires["stock"]["quote"][wire]
                   norm == K!StockNormalize("quote", w)
        <3>2. norm.ok /\ quote = norm.data
            BY <2>1, <3>1 DEF PartOf, Normalize
        <3>3. norm = IF w = Malformed THEN K!SchemaError
                     ELSE IF K!QuoteOk(w) THEN K!Normalized(w, w.time) ELSE K!SchemaError
            BY DEF K!StockNormalize, K!SecReads
        <3> HIDE DEF norm, w
        <3>4. K!QuoteOk(w) /\ quote = w
            BY <3>2, <3>3 DEF K!SchemaError, K!Normalized
        <3>. QED BY <3>4 DEF K!QuoteOk
    <2>3. quote.price \in Int /\ quote.volume \in Int \cup {None} /\ quote.cap \in Int \cup {None}
        BY <1>1, <2>1 DEF Numbers
    <2>. QED BY <2>2, <2>3
<1> HIDE DEF tech, quote
<1>8. scores = [n \in D |-> K!Clamp(Score(n), 0, 10000)]
    BY DEF K!StockScores
<1> HIDE DEF scores, freshness
<1>9. D # {}
    BY <1>4, <1>8
<1>10. ASSUME NEW n \in D PROVE Score(n) \in Int
    <2>1. CASE n = "volatility"
        BY <1>6, <1>10, <2>1
    <2>2. CASE n = "drawdown"
        BY <1>6, <1>10, <2>2
    <2>3. CASE n = "trend_instability"
        <3>1. base[tech.trend] \in Int /\ tech.confidence \in Int
            BY <1>6, <1>10, <2>3
        <3>2. Score(n) = base[tech.trend] + (15 * (10000 - tech.confidence)) \div 100
            BY <2>3
        <3> HIDE DEF base
        <3>. QED BY <3>1, <3>2
    <2>4. CASE n = "liquidity"
        <3>1. /\ quote.price \in Int /\ quote.volume \in Int
              /\ quote.cap \in Int /\ quote.cap > 0
            BY <1>7, <1>10, <2>4
        <3>2. \A p, v \in Int : 200000 * v * p \in Int
            OBVIOUS
        <3>3. Score(n) = 10000 - (200000 * quote.volume * quote.price) \div quote.cap
            BY <2>4
        <3> DEFINE turnover == 200000 * quote.volume * quote.price
        <3>4. turnover \in Int
            BY <3>1, <3>2
        <3> HIDE DEF turnover
        <3>5. 10000 - turnover \div quote.cap \in Int
            BY <3>1, <3>4
        <3>. QED BY <3>3, <3>5 DEF turnover
    <2>. QED BY <1>10, <2>1, <2>2, <2>3, <2>4
<1> HIDE DEF D, Score
<1>11. \A n \in D : scores[n] \in Nat /\ scores[n] <= 10000
    BY <1>8, <1>10 DEF K!Clamp, K!Least
<1>12. DOMAIN scores = D /\ D \subseteq DOMAIN K!StockWeights
    BY <1>8 DEF D, K!StockWeights
<1>13. Scored(scores, K!StockWeights)
    BY <1>9, <1>11, <1>12 DEF Scored
<1>. QED BY <1>4, <1>5, <1>13, StockMean

-----------------------------------------------------------------------------
(* The history of a coin                                                     *)

(* Integers in their order.                                                  *)
LEMMA IntegersInOrder ==
    ASSUME NEW T, IsFiniteSet(T), T \subseteq Int
    PROVE  LET s == C!InOrder(T, <)
           IN  /\ DOMAIN s = 1..Cardinality(T)
               /\ \A i \in DOMAIN s : s[i] \in T
               /\ \A i, j \in DOMAIN s : i < j => s[i] < s[j]
<1> DEFINE R == {p \in T \X T : p[1] < p[2]}
           s == C!InOrder(T, <)
<1>0. Cardinality(T) \in Nat
    BY FS_CardinalityType
<1>1. \A x, y \in T : <<x, y>> \in R <=> x < y
    OBVIOUS
<1>2. Orders(R, T)
    <2> HIDE DEF R
    <2>. QED BY <1>1 DEF Orders
<1>3. \A x \in T : {y \in T : y < x} = Below(R, T, x)
    <2> HIDE DEF R
    <2>. QED BY <1>1 DEF Below
<1>4. s = [i \in 1..Cardinality(T) |->
              CHOOSE x \in T : Cardinality({y \in T : y < x}) = i - 1]
    BY DEF C!InOrder, C!Cardinality, Cardinality
<1> HIDE DEF R, s
<1>5. Enumerates(s, R, T)
    <2> SUFFICES ASSUME NEW i \in 1..Cardinality(T)
                 PROVE  s[i] \in T /\ Cardinality(Below(R, T, s[i])) = i - 1
        <3>1. (\A i \in 1..Cardinality(T) : s[i] \in T) => s \in [1..Cardinality(T) -> T]
            BY <1>4
        <3>. QED BY <3>1 DEF Enumerates
    <2>1. \E x \in T : Cardinality(Below(R, T, x)) = i - 1
        BY <1>2, RanksEnumerate
    <2>2. \E x \in T : Cardinality({y \in T : y < x}) = i - 1
        BY <1>3, <2>1
    <2>3. s[i] = CHOOSE x \in T : Cardinality({y \in T : y < x}) = i - 1
        BY <1>4
    <2>4. s[i] \in T /\ Cardinality({y \in T : y < s[i]}) = i - 1
        BY <2>2, <2>3
    <2>. QED BY <1>3, <2>4
<1>6. OrderOf(s, T) /\ \A i, j \in DOMAIN s : i < j => <<s[i], s[j]>> \in R
    BY <1>2, <1>5, RanksList
<1>7. DOMAIN s = 1..Cardinality(T) /\ \A i \in DOMAIN s : s[i] \in T
    BY <1>6 DEF OrderOf
<1>8. \A i, j \in DOMAIN s : i < j => s[i] < s[j]
    BY <1>1, <1>6, <1>7
<1>. QED BY <1>7, <1>8 DEF s

(* The value of an instant is one the series has for it.                     *)
LEMMA SeriesHas ==
    ASSUME NEW pairs \in Seq(Int \X Int), NEW t \in DOMAIN C!SeriesOf(pairs)
    PROVE  /\ t \in Int
           /\ C!SeriesOf(pairs)[t] \in {pairs[i][2] : i \in {j \in DOMAIN pairs : pairs[j][1] = t}}
<1> DEFINE at == {i \in DOMAIN pairs : pairs[i][1] = t}
<1>1. t \in {pairs[i][1] : i \in DOMAIN pairs} /\ C!SeriesOf(pairs)[t] = pairs[C!Max(at)][2]
    BY DEF C!SeriesOf
<1>2. Len(pairs) \in Nat /\ DOMAIN pairs = 1..Len(pairs)
    OBVIOUS
<1>3. IsFiniteSet(at) /\ at \subseteq Int /\ at # {}
    <2>1. IsFiniteSet(1..Len(pairs))
        BY <1>2, FS_Interval
    <2>. QED BY <1>1, <1>2, <2>1, FS_Subset
<1>4. C!Max(at) = Max(at)
    BY DEF C!Max, Max
<1>5. C!Max(at) \in at
    <2> HIDE DEF at
    <2>. QED BY <1>3, <1>4, LeastAndGreatest
<1>6. at = {j \in DOMAIN pairs : pairs[j][1] = t}
    OBVIOUS
<1> HIDE DEF at
<1>7. t \in Int
    BY <1>1
<1>8. C!SeriesOf(pairs)[t] \in {pairs[i][2] : i \in at}
    BY <1>1, <1>5
<1>. QED BY <1>6, <1>7, <1>8

(* There are finitely many instants.                                         *)
LEMMA SeriesFinite ==
    ASSUME NEW pairs \in Seq(Int \X Int)
    PROVE  IsFiniteSet(DOMAIN C!SeriesOf(pairs)) /\ DOMAIN C!SeriesOf(pairs) \subseteq Int
<1> DEFINE D == DOMAIN pairs
           times == {pairs[i][1] : i \in D}
           f == [i \in D |-> pairs[i][1]]
<1>1. DOMAIN C!SeriesOf(pairs) = times
    BY DEF C!SeriesOf
<1>2. Len(pairs) \in Nat /\ D = 1..Len(pairs)
    OBVIOUS
<1>3. IsFiniteSet(D)
    BY <1>2, FS_Interval
<1>4. f \in Surjection(D, times)
    BY DEF Surjection
<1>5. IsFiniteSet(times)
    <2> HIDE DEF f, times, D
    <2>. QED BY <1>3, <1>4, FS_Surjection
<1>. QED BY <1>1, <1>5

LEMMA HistoryJoins ==
    ASSUME NEW w, w.prices \in Seq(Int \X Int), w.caps \in Seq(Int \X Int),
           w.volumes \in Seq(Int \X Int), C!NormalizeHistory(w).ok
    PROVE  AlignedWith(C!NormalizeHistory(w).data, w)
<1> DEFINE prices  == C!SeriesOf(w.prices)
           caps    == C!SeriesOf(w.caps)
           volumes == C!SeriesOf(w.volumes)
           At(s, t) == IF t \in DOMAIN s THEN s[t] ELSE None
           kept    == {t \in DOMAIN prices : prices[t] > 0}
           times   == C!InOrder(kept, <)
           points  == [i \in DOMAIN times |->
                         [time |-> times[i], price |-> prices[times[i]],
                          cap |-> At(caps, times[i]), volume |-> At(volumes, times[i])]]
<1>1. C!NormalizeHistory(w).data = points
    BY DEF C!NormalizeHistory, C!WithWarning, C!Normalized, C!SchemaError
<1>2. IsFiniteSet(kept) /\ kept \subseteq Int
    BY SeriesFinite, FS_Subset
<1>3. Cardinality(kept) \in Nat
    BY <1>2, FS_CardinalityType
<1>4. /\ DOMAIN times = 1..Cardinality(kept)
      /\ \A i \in DOMAIN times : times[i] \in kept
      /\ \A i, j \in DOMAIN times : i < j => times[i] < times[j]
    <2> HIDE DEF kept
    <2>. QED BY <1>2, IntegersInOrder
<1> HIDE DEF times
<1>5. \A i \in DOMAIN points : points[i].time = times[i]
    OBVIOUS
<1>6. Len(points) = Cardinality(kept) /\ DOMAIN points = 1..Cardinality(kept)
    BY <1>3, <1>4
<1>7. ASSUME NEW i \in 2..Len(points) PROVE points[i - 1].time < points[i].time
    <2>1. i - 1 \in DOMAIN times /\ i \in DOMAIN times /\ i - 1 < i
        BY <1>3, <1>4, <1>6
    <2> HIDE DEF points
    <2>2. i - 1 \in DOMAIN points /\ i \in DOMAIN points
        BY <1>4, <1>6, <2>1
    <2>. QED BY <1>4, <1>5, <2>1, <2>2
<1> DEFINE Of(pairs, t) == {pairs[k][2] : k \in {j \in DOMAIN pairs : pairs[j][1] = t}}
           From(value, pairs, t) == IF Of(pairs, t) = {} THEN value = None
                                    ELSE value \in Of(pairs, t)
<1>8. ASSUME NEW pairs \in Seq(Int \X Int), NEW t PROVE From(At(C!SeriesOf(pairs), t), pairs, t)
    <2>1. CASE t \in DOMAIN C!SeriesOf(pairs)
        BY <2>1, SeriesHas
    <2>2. CASE t \notin DOMAIN C!SeriesOf(pairs)
        <3>1. DOMAIN C!SeriesOf(pairs) = {pairs[k][1] : k \in DOMAIN pairs}
            BY DEF C!SeriesOf
        <3>. QED BY <2>2, <3>1
    <2>. QED BY <2>1, <2>2
<1>9. ASSUME NEW i \in DOMAIN points
      PROVE  /\ points[i].price \in Of(w.prices, points[i].time)
             /\ From(points[i].cap, w.caps, points[i].time)
             /\ From(points[i].volume, w.volumes, points[i].time)
    <2>1. i \in DOMAIN times /\ times[i] \in DOMAIN prices
        BY <1>4
    <2>2. /\ points[i].price = prices[times[i]] /\ points[i].cap = At(caps, times[i])
          /\ points[i].volume = At(volumes, times[i]) /\ points[i].time = times[i]
        OBVIOUS
    <2>3. prices[times[i]] \in Of(w.prices, times[i])
        BY <2>1, SeriesHas
    <2> HIDE DEF points, From, At, Of
    <2>4. /\ From(At(caps, times[i]), w.caps, times[i])
          /\ From(At(volumes, times[i]), w.volumes, times[i])
        BY <1>8
    <2>. QED BY <2>2, <2>3, <2>4
<1> HIDE DEF points
<1>10. AlignedWith(points, w)
    BY <1>7, <1>9 DEF AlignedWith
<1>. QED BY <1>1, <1>10

-----------------------------------------------------------------------------
(* The periods of a company                                                  *)

(* Of finitely many facts one is superseded by none.                         *)
LEMMA BestIsOne ==
    ASSUME NEW w, FactsTyped(w), NEW F \in SUBSET w, F # {}
    PROVE  K!F!BestFact(F) \in F
<1> DEFINE R == {p \in F \X F : K!F!Supersedes(p[2], p[1])}
<1>1. \A f, g \in F : <<f, g>> \in R <=> K!F!Supersedes(g, f)
    OBVIOUS
<1>2. \A f \in F : f.filed \in Int /\ f.priority \in Int /\ f.amended \in BOOLEAN
    BY DEF FactsTyped
<1>3. IsFiniteSet(F)
    BY FS_Subset DEF FactsTyped
<1>4. \A f \in F : ~K!F!Supersedes(f, f)
    BY <1>2 DEF K!F!Supersedes
<1>5. \A f, g, h \in F : K!F!Supersedes(g, f) /\ K!F!Supersedes(h, g) => K!F!Supersedes(h, f)
    BY <1>2 DEF K!F!Supersedes
<1> HIDE DEF R
<1>6. /\ \A f \in F : <<f, f>> \notin R
      /\ \A f, g, h \in F : <<f, g>> \in R /\ <<g, h>> \in R => <<f, h>> \in R
    BY <1>1, <1>4, <1>5
<1>7. \E f \in F : \A g \in F : <<f, g>> \notin R
    BY <1>3, <1>6, LastExists
<1>8. \E f \in F : \A g \in F : ~K!F!Supersedes(g, f)
    BY <1>1, <1>7
<1>. QED BY <1>8 DEF K!F!BestFact

(* What a filing says of a period, by name, is of one start.                 *)
LEMMA CoherentIs ==
    ASSUME NEW w, FactsTyped(w), NEW F \in SUBSET w, NEW period,
           NEW n \in DOMAIN K!F!Coherent(F, period)
    PROVE  LET f == K!F!Coherent(F, period)[n]
           IN  /\ f \in F /\ f.name = n
               /\ n \in K!F!Instant \/ f.start = K!F!DurationStart(F, period)
<1> DEFINE start == K!F!DurationStart(F, period)
           kept  == {f \in F : f.name \in K!F!Instant \/ f.start = start}
           like  == {f \in kept : f.name = n}
<1>1. n \in {f.name : f \in kept} /\ K!F!Coherent(F, period)[n] = K!F!BestFact(like)
    BY DEF K!F!Coherent
<1>2. like # {} /\ like \in SUBSET w /\ like \subseteq kept
    BY <1>1
<1>3. K!F!BestFact(like) \in like
    <2> HIDE DEF like
    <2>. QED BY <1>2, BestIsOne
<1>. QED BY <1>1, <1>3

(* A filing with an anchor of a duration keeps an anchor.                    *)
LEMMA AnchorKept ==
    ASSUME NEW w, FactsTyped(w), NEW F \in SUBSET w, NEW period,
           NEW g \in F, g.name \in K!F!Anchor, g.start # None
    PROVE  DOMAIN K!F!Coherent(F, period) \cap K!F!Anchor # {}
<1> DEFINE durations  == {f \in F : f.start # None /\ f.name \notin K!F!Instant}
           anchors    == {f \in durations : f.name \in K!F!Anchor}
           usual      == {f \in anchors : K!F!Days(f) \in
                            (IF period = "FY" THEN 250..430 ELSE 50..130)}
           pool       == IF usual # {} THEN usual ELSE anchors
           starts     == {f.start : f \in pool}
           start      == K!F!DurationStart(F, period)
<1>1. g \in anchors
    BY DEF K!F!Anchor, K!F!Instant
<1>2. start = IF starts = {} THEN None
              ELSE IF period = "FY" THEN K!F!Min(starts) ELSE K!F!Max(starts)
    BY <1>1 DEF K!F!DurationStart
<1>3. pool \subseteq anchors /\ pool # {}
    BY <1>1
<1>4. starts \subseteq Int /\ starts # {}
    BY <1>3 DEF FactsTyped
<1>5. IsFiniteSet(starts)
    <2> DEFINE f == [x \in pool |-> x.start]
    <2>1. IsFiniteSet(pool)
        BY <1>3, FS_Subset DEF FactsTyped
    <2>2. f \in Surjection(pool, starts)
        BY DEF Surjection
    <2> HIDE DEF f, pool, starts
    <2>. QED BY <2>1, <2>2, FS_Surjection
<1>6. K!F!Min(starts) = Min(starts) /\ K!F!Max(starts) = Max(starts)
    BY DEF K!F!Min, Min, K!F!Max, Max
<1>7. start \in starts
    <2> HIDE DEF starts, start
    <2>. QED BY <1>2, <1>4, <1>5, <1>6, LeastAndGreatest
<1>8. PICK a \in pool : a.start = start
    BY <1>7
<1>9. a \in F /\ a.name \in K!F!Anchor
    BY <1>3, <1>8
<1>10. a.name \in DOMAIN K!F!Coherent(F, period)
    BY <1>8, <1>9 DEF K!F!Coherent
<1>. QED BY <1>9, <1>10

(* The facts of one filing for one period.                                   *)
FilingOf(facts, id) == {f \in facts : K!F!FilingKey(f) = id}

Filing(w, v, id) ==
    /\ DOMAIN v # {} /\ IsFiniteSet(DOMAIN v)
    /\ \A n \in DOMAIN v : /\ v[n] \in w /\ v[n].name = n
                           /\ K!F!FilingKey(v[n]) = id

LEMMA FilingIs ==
    ASSUME NEW w, FactsTyped(w), NEW facts \in SUBSET w, NEW key,
           NEW v \in K!F!FilingsOf(facts, key)
    PROVE  \E g \in facts :
              /\ K!F!PeriodKey(g) = key
              /\ v = K!F!Coherent(FilingOf(facts, K!F!FilingKey(g)), key[3])
              /\ Filing(w, v, K!F!FilingKey(g))
<1>1. PICK g \in facts : /\ K!F!PeriodKey(g) = key
                         /\ v = K!F!Coherent(FilingOf(facts, K!F!FilingKey(g)), key[3])
    BY DEF K!F!FilingsOf, FilingOf
<1>2. v # <<>>
    BY DEF K!F!FilingsOf
<1> DEFINE F == FilingOf(facts, K!F!FilingKey(g))
<1>3. F \in SUBSET w
    BY DEF FilingOf
<1>4. DOMAIN v # {}
    <2> SUFFICES ASSUME DOMAIN v = {} PROVE v = <<>>
        BY <1>2
    <2>1. v = [n \in DOMAIN v |-> v[n]]
        BY <1>1 DEF K!F!Coherent
    <2>2. v = [n \in {} |-> v[n]]
        BY <2>1
    <2>. QED BY <2>2
<1>5. IsFiniteSet(DOMAIN v)
    <2> DEFINE names == {f.name : f \in F}
               h == [f \in F |-> f.name]
    <2>1. IsFiniteSet(F)
        BY <1>3, FS_Subset DEF FactsTyped
    <2>2. h \in Surjection(F, names)
        BY DEF Surjection
    <2>3. IsFiniteSet(names)
        <3> HIDE DEF h, names, F
        <3>. QED BY <2>1, <2>2, FS_Surjection
    <2>4. DOMAIN v \subseteq names
        BY <1>1 DEF K!F!Coherent
    <2>. QED BY <2>3, <2>4, FS_Subset
<1>6. ASSUME NEW n \in DOMAIN v
      PROVE  v[n] \in w /\ v[n].name = n /\ K!F!FilingKey(v[n]) = K!F!FilingKey(g)
    <2>1. v[n] \in F /\ v[n].name = n
        <3> HIDE DEF F
        <3>. QED BY <1>1, <1>3, CoherentIs DEF F
    <2>. QED BY <1>3, <2>1 DEF FilingOf
<1>. QED BY <1>1, <1>4, <1>5, <1>6 DEF Filing

(* A filing has one day.                                                     *)
LEMMA FilingDay ==
    ASSUME NEW w, FactsTyped(w), NEW v, NEW id, Filing(w, v, id)
    PROVE  LET day == K!F!Max({f.filed : f \in K!F!FactsOf(v)})
           IN  day \in Int /\ \A n \in DOMAIN v : v[n].filed = day
<1>1. \A n, m \in DOMAIN v : v[n].filed = v[m].filed
    BY DEF Filing, FactsTyped, K!F!FilingKey
<1>2. PICK n \in DOMAIN v : TRUE
    BY DEF Filing
<1>3. {f.filed : f \in K!F!FactsOf(v)} = {v[n].filed}
    BY <1>1 DEF K!F!FactsOf
<1> DEFINE days == {v[n].filed}
<1>4. days \subseteq Int /\ days # {} /\ IsFiniteSet(days)
    BY FS_Singleton DEF Filing, FactsTyped
<1>5. K!F!Max(days) = Max(days)
    BY DEF K!F!Max, Max
<1>6. K!F!Max(days) \in days
    <2> HIDE DEF days
    <2>. QED BY <1>4, <1>5, LeastAndGreatest
<1>. QED BY <1>1, <1>3, <1>4, <1>6

(* Of the filings for a period the one that counts is outranked by none.     *)
LEMMA PeriodFiling ==
    ASSUME NEW w, FactsTyped(w), NEW facts \in SUBSET w, NEW key,
           K!F!FilingsOf(facts, key) # {}
    PROVE  LET v == K!F!PeriodOf(facts, key).facts
           IN  /\ v \in K!F!FilingsOf(facts, key)
               /\ \A x \in K!F!FilingsOf(facts, key) : ~K!F!Outranks(x, v)
<1> DEFINE filings == K!F!FilingsOf(facts, key)
           R == {p \in filings \X filings : K!F!Outranks(p[2], p[1])}
           Anchored(x) == DOMAIN x \cap K!F!Anchor # {}
           Day(x) == K!F!Max({f.filed : f \in K!F!FactsOf(x)})
           Amended(x) == \E f \in K!F!FactsOf(x) : f.amended
           Size(x) == Cardinality(DOMAIN x)
<1>1. \A x, y \in filings : <<x, y>> \in R <=> K!F!Outranks(y, x)
    OBVIOUS
<1>2. ASSUME NEW x \in filings PROVE Day(x) \in Int /\ Size(x) \in Nat
    <2>1. PICK g \in facts : Filing(w, x, K!F!FilingKey(g))
        BY FilingIs
    <2>2. Day(x) \in Int
        BY <2>1, FilingDay
    <2>3. IsFiniteSet(DOMAIN x)
        BY <2>1 DEF Filing
    <2>. QED BY <2>2, <2>3, FS_CardinalityType
<1>3. ASSUME NEW x, NEW y
      PROVE  K!F!Outranks(x, y) <=>
                \/ Anchored(x) /\ ~Anchored(y)
                \/ /\ Anchored(x) = Anchored(y)
                   /\ \/ Day(x) > Day(y)
                      \/ Day(x) = Day(y) /\ Amended(x) /\ ~Amended(y)
                      \/ /\ Day(x) = Day(y) /\ Amended(x) = Amended(y)
                         /\ Size(x) > Size(y)
    BY DEF K!F!Outranks, K!F!Cardinality, Cardinality
<1>4. IsFiniteSet(filings)
    <2> DEFINE h == [f \in facts |-> K!F!Coherent(FilingOf(facts, K!F!FilingKey(f)), key[3])]
               all == {h[f] : f \in facts}
    <2>1. IsFiniteSet(facts)
        BY FS_Subset DEF FactsTyped
    <2>2. h \in Surjection(facts, all)
        BY DEF Surjection
    <2>3. IsFiniteSet(all)
        <3> HIDE DEF h, all
        <3>. QED BY <2>1, <2>2, FS_Surjection
    <2>4. filings \subseteq all
        <3> HIDE DEF filings
        <3>1. \A x \in filings : \E g \in facts :
                 x = K!F!Coherent(FilingOf(facts, K!F!FilingKey(g)), key[3])
            BY FilingIs DEF filings
        <3>. QED BY <3>1
    <2>. QED BY <2>3, <2>4, FS_Subset
<1> HIDE DEF R, filings, Anchored, Day, Amended, Size
<1>5. \A x \in filings : ~K!F!Outranks(x, x)
    BY <1>2, <1>3
<1>6. \A x, y, z \in filings :
         K!F!Outranks(y, x) /\ K!F!Outranks(z, y) => K!F!Outranks(z, x)
    BY <1>2, <1>3
<1>7. /\ \A x \in filings : <<x, x>> \notin R
      /\ \A x, y, z \in filings : <<x, y>> \in R /\ <<y, z>> \in R => <<x, z>> \in R
    BY <1>1, <1>5, <1>6
<1>8. filings # {}
    BY DEF filings
<1>9. \E x \in filings : \A y \in filings : <<x, y>> \notin R
    BY <1>4, <1>7, <1>8, LastExists
<1>10. \E x \in filings : \A y \in filings : ~K!F!Outranks(y, x)
    BY <1>1, <1>9
<1>. QED BY <1>10 DEF filings, K!F!PeriodOf

(* Every period that is shown is one of those the facts make up.             *)
LEMMA PeriodsAreOfKeys ==
    ASSUME NEW w, FactsTyped(w), NEW all \in SUBSET w, NEW p \in Range(K!F!PeriodsOf(all))
    PROVE  LET facts == {f \in all : K!F!Usable(f)}
           IN  \E key \in {K!F!PeriodKey(f) : f \in facts} :
                  K!F!FilingsOf(facts, key) # {} /\ p = K!F!PeriodOf(facts, key)
<1> DEFINE facts == {f \in all : K!F!Usable(f)}
           keys  == {K!F!PeriodKey(f) : f \in facts}
           filed == {j \in keys : K!F!FilingsOf(facts, j) # {}}
           periods == {K!F!PeriodOf(facts, k) : k \in filed}
           shown == {q \in periods : DOMAIN q.facts \cap {"revenue", "net_income", "assets"} # {}}
           Earlier(x, y) == \/ x.end < y.end
                            \/ x.end = y.end /\ x.year < y.year
                            \/ /\ x.end = y.end /\ x.year = y.year
                               /\ K!F!Rank[x.period] < K!F!Rank[y.period]
           R == {q \in shown \X shown : Earlier(q[1], q[2])}
           s == [i \in 1..Cardinality(shown) |->
                    CHOOSE x \in shown : Cardinality({y \in shown : Earlier(y, x)}) = i - 1]
<1>1. ASSUME NEW x \in shown
      PROVE  /\ x.end \in Int /\ x.year \in Int
             /\ x.period \in {"FY", "Q1", "Q2", "Q3", "Q4"}
             /\ x = K!F!PeriodOf(facts, <<x.end, x.year, x.period>>)
    <2>1. PICK f \in facts : x = K!F!PeriodOf(facts, K!F!PeriodKey(f))
        OBVIOUS
    <2>2. x.end = f.end /\ x.year = f.year /\ x.period = f.period
        BY <2>1 DEF K!F!PeriodOf, K!F!PeriodKey
    <2>3. f \in w /\ f.year # None /\ f.period \in {"FY", "Q1", "Q2", "Q3", "Q4"}
        BY DEF K!F!Usable
    <2>. QED BY <2>1, <2>2, <2>3 DEF FactsTyped, K!F!PeriodKey
<1>2. IsFiniteSet(shown)
    <2> DEFINE h == [f \in facts |-> K!F!PeriodOf(facts, K!F!PeriodKey(f))]
               made == {h[f] : f \in facts}
    <2>1. IsFiniteSet(facts)
        BY FS_Subset DEF FactsTyped
    <2>2. h \in Surjection(facts, made)
        BY DEF Surjection
    <2>3. IsFiniteSet(made)
        <3> HIDE DEF h, made, facts
        <3>. QED BY <2>1, <2>2, FS_Surjection
    <2>4. shown \subseteq made
        OBVIOUS
    <2>. QED BY <2>3, <2>4, FS_Subset
<1>3. K!F!PeriodsOf(all) = K!F!LatestOf(s, K!F!Least(Len(s), 20))
    BY DEF K!F!PeriodsOf, K!F!InOrder, K!F!Cardinality, Cardinality
<1>4. \A x, y \in shown : <<x, y>> \in R <=> Earlier(x, y)
    OBVIOUS
<1> HIDE DEF shown, R
<1>5. \A x \in shown : /\ x.end \in Int /\ x.year \in Int
                        /\ x.period \in {"FY", "Q1", "Q2", "Q3", "Q4"}
    BY <1>1
<1>6. /\ \A x \in shown : K!F!Rank[x.period] \in Int
      /\ \A x, y \in shown :
            K!F!Rank[x.period] = K!F!Rank[y.period] => x.period = y.period
    BY <1>5 DEF K!F!Rank
<1>7. \A x, y \in shown :
         x.end = y.end /\ x.year = y.year /\ x.period = y.period => x = y
    BY <1>1
<1>8. Orders(R, shown)
    <2>1. \A x \in shown : ~Earlier(x, x)
        BY <1>5, <1>6
    <2>2. \A x, y \in shown : x # y => Earlier(x, y) \/ Earlier(y, x)
        BY <1>5, <1>6, <1>7
    <2>3. \A x, y, z \in shown : Earlier(x, y) /\ Earlier(y, z) => Earlier(x, z)
        BY <1>5, <1>6
    <2> HIDE DEF Earlier
    <2>. QED BY <1>4, <2>1, <2>2, <2>3 DEF Orders
<1> HIDE DEF Earlier
<1>9. \A x \in shown : {y \in shown : Earlier(y, x)} = Below(R, shown, x)
    BY <1>4 DEF Below
<1>10. ASSUME NEW i \in 1..Cardinality(shown) PROVE s[i] \in shown
    <2>1. \E x \in shown : Cardinality(Below(R, shown, x)) = i - 1
        BY <1>2, <1>8, RanksEnumerate
    <2>2. \E x \in shown : Cardinality({y \in shown : Earlier(y, x)}) = i - 1
        BY <1>9, <2>1
    <2>. QED BY <2>2
<1>11. Cardinality(shown) \in Nat /\ DOMAIN s = 1..Cardinality(shown)
    BY <1>2, FS_CardinalityType
<1>12. s \in [1..Cardinality(shown) -> shown]
    BY <1>10
<1> HIDE DEF s
<1>13. s \in Seq(shown)
    BY <1>11, <1>12
<1>14. p \in shown
    <2>1. Len(s) \in Nat /\ DOMAIN s = 1..Len(s)
        BY <1>13
    <2> DEFINE n == K!F!Least(Len(s), 20)
    <2>2. n \in Int /\ n <= Len(s) /\ 0 <= n
        BY <2>1 DEF K!F!Least
    <2>3. K!F!PeriodsOf(all) = SubSeq(s, Len(s) - n + 1, Len(s))
        BY <1>3 DEF K!F!LatestOf
    <2> HIDE DEF n
    <2>4. SubSeq(s, Len(s) - n + 1, Len(s)) \in Seq(shown)
        BY <1>13, <2>1, <2>2
    <2>. QED BY <2>3, <2>4 DEF Range
<1>. QED BY <1>14 DEF shown

(* A period is of one filing and of one duration, and no filing that reports *)
(* an anchor for it was filed later.                                         *)
LEMMA PeriodIsCoherent ==
    ASSUME NEW w, FactsTyped(w), NEW all \in SUBSET w, NEW p \in Range(K!F!PeriodsOf(all)),
           Parts["facts"].data = all
    PROVE  CoherentPeriod(p)
<1> DEFINE facts == {f \in all : K!F!Usable(f)}
<1>1. PICK h \in facts : /\ K!F!FilingsOf(facts, K!F!PeriodKey(h)) # {}
                         /\ p = K!F!PeriodOf(facts, K!F!PeriodKey(h))
    BY PeriodsAreOfKeys
<1> DEFINE key == K!F!PeriodKey(h)
           filings == K!F!FilingsOf(facts, key)
           v == p.facts
<1>2. facts \in SUBSET w
    OBVIOUS
<1>3. <<p.end, p.year, p.period>> = key
    BY <1>1 DEF K!F!PeriodOf, K!F!PeriodKey
<1> HIDE DEF facts
<1>4. v \in filings /\ \A x \in filings : ~K!F!Outranks(x, v)
    BY <1>1, <1>2, PeriodFiling
<1>5. PICK g \in facts : /\ v = K!F!Coherent(FilingOf(facts, K!F!FilingKey(g)), key[3])
                         /\ Filing(w, v, K!F!FilingKey(g))
    BY <1>2, <1>4, FilingIs
<1> DEFINE F == FilingOf(facts, K!F!FilingKey(g))
<1>6. F \in SUBSET w
    BY <1>2 DEF FilingOf
<1>7. Range(v) = {v[n] : n \in DOMAIN v}
    BY DEF Range
<1>8. \A f1, f2 \in Range(v) : f1.accession = f2.accession
    BY <1>5, <1>7 DEF Filing, K!F!FilingKey
<1>9. ASSUME NEW f \in Range(v), f.name \notin K!F!Instant
      PROVE  f.start = K!F!DurationStart(F, key[3])
    <2>1. PICK n \in DOMAIN v : f = v[n]
        BY <1>7
    <2> HIDE DEF F, key, v
    <2>2. /\ v[n].name = n
          /\ n \in K!F!Instant \/ v[n].start = K!F!DurationStart(F, key[3])
        BY <1>5, <1>6, CoherentIs DEF F
    <2>. QED BY <1>9, <2>1, <2>2
<1>10. ASSUME NEW a \in AnchorsOf(p) PROVE \E f \in Range(v) : f.filed >= a.filed
    <2>1. /\ a \in all /\ K!F!Usable(a) /\ a.name \in K!F!Anchor /\ a.start # None
          /\ K!F!PeriodKey(a) = key
        BY <1>3 DEF AnchorsOf
    <2>2. a \in facts
        BY <2>1 DEF facts
    <2> DEFINE id == K!F!FilingKey(a)
               G == FilingOf(facts, id)
               x == K!F!Coherent(G, key[3])
    <2>3. a \in G /\ G \in SUBSET w
        BY <1>2, <2>2 DEF FilingOf
    <2>4. DOMAIN x \cap K!F!Anchor # {}
        <3> HIDE DEF G, id, key
        <3>. QED BY <2>1, <2>3, AnchorKept
    <2>5. x \in filings
        <3>1. x # <<>>
            BY <2>4
        <3>2. id \in {K!F!FilingKey(f) : f \in {f2 \in facts : K!F!PeriodKey(f2) = key}}
            BY <2>1, <2>2
        <3>. QED BY <3>1, <3>2 DEF K!F!FilingsOf, FilingOf
    <2>6. PICK n \in DOMAIN x : TRUE
        BY <2>4
    <2>7. x[n] \in G
        <3> HIDE DEF G, id, key
        <3>. QED BY <2>3, CoherentIs
    <2>8. x[n].filed = a.filed /\ a.filed \in Int
        BY <2>3, <2>7 DEF FilingOf, K!F!FilingKey, FactsTyped
    <2> DEFINE Day(y) == K!F!Max({f.filed : f \in K!F!FactsOf(y)})
    <2> HIDE DEF x
    <2>9. Day(x) = a.filed
        <3>1. PICK c \in facts : Filing(w, x, K!F!FilingKey(c))
            BY <1>2, <2>5, FilingIs
        <3>. QED BY <2>6, <2>8, <3>1, FilingDay
    <2>10. Day(v) \in Int /\ \A m \in DOMAIN v : v[m].filed = Day(v)
        BY <1>5, FilingDay
    <2>11. ~K!F!Outranks(x, v)
        BY <1>4, <2>5
    <2>12. Day(x) <= Day(v)
        <3> SUFFICES ASSUME Day(x) > Day(v) PROVE FALSE
            BY <2>8, <2>9, <2>10
        <3>. QED BY <2>4, <2>11 DEF K!F!Outranks
    <2>13. PICK m \in DOMAIN v : TRUE
        BY <1>5 DEF Filing
    <2>. QED BY <1>7, <2>8, <2>9, <2>10, <2>12, <2>13
<1>. QED BY <1>8, <1>9, <1>10 DEF CoherentPeriod

-----------------------------------------------------------------------------
(* The slippage of a purchase                                                *)

Unspent == [remaining |-> Notional, base |-> 0]
Spend(l, fill) == S!Least(fill.remaining, S!Cost(l))
Filled(l, fill) ==
    [remaining |-> fill.remaining - Spend(l, fill),
     base      |-> fill.base + (Spend(l, fill) * S!Fine) \div l.price]
FillPeels(levels, V, f) ==
    IF V = {} THEN Unspent ELSE Filled(levels[Max(V)], f[V \ {Max(V)}])

(* The library's recursion written with the operators above.                 *)
LEMMA FillUnfolds ==
    ASSUME NEW levels
    PROVE  S!BuyFill(levels)
             = (CHOOSE f : f = [V \in SUBSET DOMAIN levels |-> FillPeels(levels, V, f)])
                  [DOMAIN levels]
BY DEF S!BuyFill, S!FoldLeft, S!MapThenFoldSet, FillPeels, Filled, Spend, Unspent, S!Max, Max

(* The recursion has a solution.                                             *)
LEMMA FillExists ==
    ASSUME NEW levels, NEW n \in Nat
    PROVE  \E f : f = [V \in SUBSET (1..n) |-> FillPeels(levels, V, f)]
<1> DEFINE D == 1..n
           Of(k) == {V \in SUBSET D : Cardinality(V) <= k}
           Up(k, f) == f = [V \in Of(k) |-> FillPeels(levels, V, f)]
           T == {k \in Nat : \E f : Up(k, f)}
<1>0. IsFiniteSet(D) /\ D \subseteq Int
    BY FS_Interval
<1> HIDE DEF D
<1>1. ASSUME NEW V \in SUBSET D, V # {}
      PROVE  /\ V \ {Max(V)} \in SUBSET D
             /\ Cardinality(V) \in Nat \ {0} /\ Cardinality(V \ {Max(V)}) = Cardinality(V) - 1
    <2>1. IsFiniteSet(V) /\ V \subseteq Int
        BY <1>0, FS_Subset
    <2>2. Max(V) \in V
        BY <1>1, <2>1, LeastAndGreatest
    <2>. QED BY <1>1, <2>1, <2>2, FS_RemoveElement, FS_CardinalityType, FS_EmptySet
<1>2. 0 \in T
    <2> DEFINE g == [V \in Of(0) |-> Unspent]
    <2>1. ASSUME NEW V \in Of(0) PROVE V = {}
        <3>1. V \in SUBSET D /\ Cardinality(V) <= 0
            OBVIOUS
        <3>2. V # {} => Cardinality(V) \in Nat \ {0}
            BY <1>1, <3>1
        <3>. QED BY <3>1, <3>2
    <2>2. Up(0, g)
        BY <2>1 DEF FillPeels
    <2>. QED BY <2>2
<1>3. ASSUME NEW k \in T \cap Nat PROVE k + 1 \in T
    <2>1. PICK f : Up(k, f)
        OBVIOUS
    <2> DEFINE g == [V \in Of(k + 1) |-> FillPeels(levels, V, f)]
    <2>2. ASSUME NEW V \in Of(k) PROVE V \in Of(k + 1) /\ g[V] = f[V]
        <3>1. V \in Of(k + 1)
            <4>1. V \in SUBSET D /\ Cardinality(V) <= k
                OBVIOUS
            <4>2. Cardinality(V) \in Nat
                BY <1>0, <4>1, FS_Subset, FS_CardinalityType
            <4>. QED BY <4>1, <4>2
        <3>2. f[V] = FillPeels(levels, V, f)
            BY <2>1
        <3>. QED BY <3>1, <3>2
    <2>3. ASSUME NEW V \in Of(k + 1), V # {} PROVE V \ {Max(V)} \in Of(k)
        <3>1. V \in SUBSET D /\ Cardinality(V) <= k + 1
            BY <2>3
        <3>. QED BY <1>1, <2>3, <3>1
    <2>4. ASSUME NEW V \in Of(k + 1) PROVE FillPeels(levels, V, f) = FillPeels(levels, V, g)
        BY <2>2, <2>3 DEF FillPeels
    <2>5. Up(k + 1, g)
        <3> HIDE DEF Of
        <3>. QED BY <2>4
    <2>6. \E h : Up(k + 1, h)
        <3> HIDE DEF Up
        <3>. QED BY <2>5
    <2>7. k + 1 \in Nat
        OBVIOUS
    <2> HIDE DEF Up
    <2>. QED BY <2>6, <2>7
<1>4. Cardinality(D) \in T
    <2> HIDE DEF T
    <2>1. Cardinality(D) \in Nat
        BY <1>0, FS_CardinalityType
    <2>. QED BY <1>2, <1>3, <2>1, NatSetInduction
<1>5. PICK f : Up(Cardinality(D), f)
    BY <1>4
<1>6. Of(Cardinality(D)) = SUBSET D
    BY <1>0, FS_Subset
<1>7. f = [V \in SUBSET D |-> FillPeels(levels, V, f)]
    BY <1>5, <1>6
<1>. QED BY <1>7 DEF D

(* What is left and bought after each level in turn.                         *)
Trail(fs, levels, n) ==
    fs[0] = Unspent /\ \A k \in 1..n : fs[k] = Filled(levels[k], fs[k - 1])

(* A purchase follows such a trail.                                          *)
LEMMA FillTrails ==
    ASSUME NEW n \in Nat, NEW levels, DOMAIN levels = 1..n
    PROVE  \E fs : Trail(fs, levels, n) /\ S!BuyFill(levels) = fs[n]
<1> DEFINE Is(f) == f = [V \in SUBSET (1..n) |-> FillPeels(levels, V, f)]
           f == CHOOSE g : Is(g)
           fs == [k \in 0..n |-> f[1..k]]
<1>1. Is(f)
    <2>1. \E g : Is(g)
        BY FillExists
    <2> HIDE DEF Is
    <2>. QED BY <2>1
<1>2. S!BuyFill(levels) = f[1..n]
    BY FillUnfolds
<1> HIDE DEF f
<1>3. \A V \in SUBSET (1..n) : f[V] = FillPeels(levels, V, f)
    BY <1>1
<1>4. fs[0] = Unspent
    <2>1. 1..0 = {} /\ 1..0 \in SUBSET (1..n)
        OBVIOUS
    <2>2. f[1..0] = Unspent
        BY <1>3, <2>1 DEF FillPeels
    <2>. QED BY <2>2
<1>5. ASSUME NEW k \in 1..n PROVE fs[k] = Filled(levels[k], fs[k - 1])
    <2>1. 1..k \in SUBSET (1..n) /\ 1..k # {} /\ k \in Nat \ {0} /\ k - 1 \in 0..n /\ k \in 0..n
        OBVIOUS
    <2>2. f[1..k] = Filled(levels[k], f[1..(k - 1)])
        BY <1>3, <2>1, LastOfInterval DEF FillPeels
    <2>. QED BY <2>1, <2>2
<1>6. fs[n] = f[1..n]
    OBVIOUS
<1> HIDE DEF fs
<1>. QED BY <1>2, <1>4, <1>5, <1>6 DEF Trail

(* What buying q at price p saves against another price, in units of 1/Fine.  *)
Fine == S!Fine
Saves(p, q, price) == IF p < price THEN (q * Fine) * (price - p) ELSE 0

(* Division rounds down.                                                    *)
LEMMA Divides ==
    ASSUME NEW a \in Nat \ {0}, NEW d \in Nat
    PROVE  d \div a \in Nat /\ a * (d \div a) <= d /\ d < a * (d \div a) + a
OBVIOUS

(* What is bought at one level, against another price: the spent amount at    *)
(* that price, and what a cheaper level saves when it is bought up.          *)
Weighs(p, q, price, s, b) ==
    /\ b \in Nat /\ Saves(p, q, price) \in Nat
    /\ b * price <= s * Fine + Saves(p, q, price)
    /\ s = p * q /\ p <= price => b * price = s * Fine + Saves(p, q, price)
    /\ p = price => b * price + price > s * Fine
(* A level weighs so.                                                        *)
LEMMA LevelBuys ==
    ASSUME NEW p \in Nat \ {0}, NEW price \in Nat \ {0}, NEW q \in Nat, NEW s \in Nat,
           s <= p * q, NEW b, b = (s * Fine) \div p
    PROVE  Weighs(p, q, price, s, b)
<1> USE DEF Weighs
<1> DEFINE g == Fine
           d == s * g
           all == q * g
<1>0. g \in Nat
    BY DEF S!Fine, Fine
<1> HIDE DEF g
<1>1. d \in Nat /\ all \in Nat /\ p * q \in Nat
    BY <1>0
<1>2. b = d \div p
    BY DEF g
<1>11. Saves(p, q, price) = IF p < price THEN all * (price - p) ELSE 0
    BY DEF g, Saves
<1>3. d <= p * all
    <2>1. d <= (p * q) * g
        BY <1>0, <1>1
    <2>2. (p * q) * g = p * all
        BY <1>0
    <2>. QED BY <2>1, <2>2
<1>4. s = p * q => d = p * all
    BY <1>0
<1>5. d = s * Fine
    BY DEF g
<1> HIDE DEF d, all
<1>6. b \in Nat /\ p * b <= d /\ d < p * b + p
    BY <1>1, <1>2, Divides
<1>7. b <= all
    <2> SUFFICES ASSUME all + 1 <= b PROVE FALSE
        BY <1>1, <1>6
    <2>1. p * (all + 1) <= p * b
        BY <1>1, <1>6
    <2>. QED BY <1>1, <1>3, <1>6, <2>1
<1>8. s = p * q => b = all
    <2> SUFFICES ASSUME d = p * all, b + 1 <= all PROVE FALSE
        BY <1>1, <1>4, <1>6, <1>7
    <2>1. p * (b + 1) <= p * all
        BY <1>1, <1>6
    <2>. QED BY <1>1, <1>6, <2>1
<1>9. CASE p < price
    <2> DEFINE e == price - p
    <2>1. e \in Nat /\ b * price = p * b + b * e
        BY <1>6, <1>9
    <2>2. Saves(p, q, price) = all * e
        BY <1>11, <1>9
    <2> HIDE DEF e
    <2>3. b * e <= all * e /\ b * e \in Nat /\ all * e \in Nat
        BY <1>1, <1>6, <1>7, <2>1
    <2> DEFINE v == Saves(p, q, price)
    <2> HIDE DEF v
    <2>4. v = all * e
        BY <2>2 DEF v
    <2>5. b * price <= d + v
        BY <1>1, <1>6, <2>1, <2>3, <2>4
    <2>6. s = p * q => b * price = d + v
        BY <1>4, <1>8, <2>1, <2>4
    <2>. QED BY <1>5, <1>6, <1>9, <2>3, <2>4, <2>5, <2>6 DEF v
<1>10. CASE price <= p
    <2>1. Saves(p, q, price) = 0
        BY <1>11, <1>10
    <2>2. b * price <= p * b /\ b * price \in Nat
        BY <1>6, <1>10
    <2>3. p = price => b * price = p * b
        BY <1>6
    <2>4. p <= price => p = price
        BY <1>10
    <2>5. s = p * q => p * b = d
        BY <1>4, <1>8
    <2> DEFINE x == b * price
               y == p * b
    <2>6. x <= y /\ x \in Nat /\ y \in Nat /\ (p = price => x = y) /\ (s = p * q => y = d)
        BY <1>6, <2>2, <2>3, <2>5
    <2>7. y <= d /\ d < y + p
        BY <1>6
    <2> HIDE DEF x, y
    <2>8. x <= d /\ (s = p * q /\ p <= price => x = d) /\ (p = price => x + price > d)
        BY <1>1, <2>4, <2>6, <2>7
    <2>9. x <= d + 0 /\ d = d + 0
        BY <1>1, <2>6, <2>8
    <2>. QED BY <1>5, <1>6, <2>1, <2>8, <2>9 DEF x
<1>. QED BY <1>9, <1>10

FillOk(fill) == fill.remaining \in 0..Notional /\ fill.base \in Nat
Paid(fill) == (Notional - fill.remaining) * Fine

(* One level more: the bound of the other price on what is bought holds on,   *)
(* with equality as long as no level is dearer and each is bought up, and is  *)
(* missed by less than one unit when the money ends at a level of that price. *)
FillsOn(l, fill, price, n, next, m) ==
    /\ FillOk(next) /\ m \in Nat /\ S!Cost(l) \in Nat \ {0}
    /\ next.remaining = IF fill.remaining < S!Cost(l) THEN 0
                        ELSE fill.remaining - S!Cost(l)
    /\ fill.base * price <= Paid(fill) + n => next.base * price <= Paid(next) + m
    /\ fill.base * price = Paid(fill) + n /\ l.price <= price
         /\ S!Cost(l) <= fill.remaining
       => next.base * price = Paid(next) + m
    /\ fill.base * price = Paid(fill) + n /\ l.price = price
       => next.base * price + price > Paid(next) + m
    /\ fill.remaining = 0 => next.base = fill.base
(* A level fills so.                                                         *)
LEMMA LevelFills ==
    ASSUME NEW l, l.price \in Nat \ {0}, l.quantity \in Nat \ {0}, NEW fill, FillOk(fill),
           NEW price \in Nat \ {0}, NEW n \in Nat,
           NEW next, next = Filled(l, fill), NEW m, m = n + Saves(l.price, l.quantity, price)
    PROVE  FillsOn(l, fill, price, n, next, m)
<1> DEFINE p == l.price
           q == l.quantity
           c == S!Cost(l)
           s == Spend(l, fill)
           b == (s * Fine) \div p
           v == Saves(p, q, price)
           r == fill.remaining
           e == fill.base
<1>0. /\ p \in Nat \ {0} /\ q \in Nat \ {0} /\ r \in Nat /\ r <= Notional /\ e \in Nat
      /\ Notional \in Nat
    BY NotionalAssumption DEF FillOk
<1>1. c = p * q
    BY DEF S!Cost
<1>2. s = IF r < c THEN r ELSE c
    BY DEF Spend, S!Least
<1>3. next = [remaining |-> r - s, base |-> e + b]
    BY DEF Filled, Fine
<1>4. next.remaining = r - s /\ next.base = e + b
    BY <1>3
<1>5. Paid(fill) = (Notional - r) * Fine /\ Paid(next) = (Notional - (r - s)) * Fine
    BY <1>4 DEF Paid
<1>6. FillOk(next) <=> (r - s) \in 0..Notional /\ (e + b) \in Nat
    BY <1>4 DEF FillOk
<1>7. m = n + v
    OBVIOUS
<1> HIDE DEF p, q, r, e, c, s
<1>8. c \in Nat \ {0}
    BY <1>0, <1>1
<1>9. s \in Nat /\ s <= r /\ s <= c
    BY <1>0, <1>2, <1>8
<1>10. /\ b \in Nat /\ v \in Nat
       /\ b * price <= s * Fine + v
       /\ s = c /\ p <= price => b * price = s * Fine + v
       /\ p = price => b * price + price > s * Fine
    <2>1. b = (s * Fine) \div p /\ v = Saves(p, q, price)
        OBVIOUS
    <2>2. s <= p * q
        BY <1>1, <1>9
    <2> HIDE DEF b, v
    <2>3. p \in Nat \ {0} /\ q \in Nat /\ s \in Nat
        BY <1>0, <1>9
    <2>4. Weighs(p, q, price, s, b)
        BY <2>1, <2>2, <2>3, LevelBuys
    <2>. QED BY <1>1, <2>1, <2>4 DEF Weighs
<1>11. p = price => v = 0
    BY <1>0 DEF Saves
<1> HIDE DEF b, v
<1>12. Fine \in Nat
    BY DEF Fine, S!Fine
<1> DEFINE pf == Paid(fill)
           pn == Paid(next)
           sf == s * Fine
           bp == b * price
           ep == e * price
<1>13. pn = pf + sf /\ pf \in Nat /\ sf \in Nat
    <2> DEFINE g == Fine
               x == Notional - r
    <2> HIDE DEF g
    <2>1. x \in Nat /\ g \in Nat /\ x * g \in Nat /\ s * g \in Nat
        BY <1>0, <1>9, <1>12 DEF g
    <2>2. Notional - (r - s) = x + s
        BY <1>0, <1>9
    <2>3. (x + s) * g = x * g + s * g
        BY <1>9, <2>1
    <2>4. pf = x * g /\ pn = (x + s) * g /\ sf = s * g
        BY <1>5, <2>2 DEF g
    <2> HIDE DEF x
    <2>. QED BY <2>1, <2>3, <2>4
<1>14. (e + b) * price = ep + bp /\ bp \in Nat /\ ep \in Nat
    BY <1>0, <1>10
<1>15. /\ bp <= sf + v
       /\ s = c /\ p <= price => bp = sf + v
       /\ p = price => bp + price > sf
    BY <1>10
<1>20. c <= r => s = c
    BY <1>0, <1>2, <1>8
<1>21. r = 0 => b = 0
    <2> SUFFICES ASSUME r = 0 PROVE b = 0
        OBVIOUS
    <2>1. s = 0
        BY <1>9
    <2>2. s * Fine = 0
        BY <1>12, <2>1
    <2>. QED BY <1>0, <2>2 DEF b
<1> HIDE DEF pf, pn, sf, bp, ep
<1>16. FillOk(next) /\ m \in Nat
    BY <1>0, <1>6, <1>7, <1>9, <1>10
<1>17. ep <= pf + n => ep + bp <= pn + m
    BY <1>7, <1>10, <1>13, <1>14, <1>15
<1>18. ep = pf + n /\ s = c /\ p <= price => ep + bp = pn + m
    BY <1>7, <1>10, <1>13, <1>14, <1>15
<1>19. ep = pf + n /\ p = price => ep + bp + price > pn + m
    BY <1>7, <1>10, <1>11, <1>13, <1>14, <1>15
<1>22. next.base * price = ep + bp
    BY <1>4, <1>14
<1>23. next.remaining = IF r < c THEN 0 ELSE r - c
    BY <1>0, <1>2, <1>4, <1>8, <1>9
<1>24. r = 0 => next.base = e
    BY <1>0, <1>4, <1>21
<1>. QED BY <1>8, <1>16, <1>17, <1>18, <1>19, <1>20, <1>22, <1>23, <1>24
    DEF FillsOn, p, r, e, c, pf, pn, ep

Priced(w, O) == \A i \in O : w[i].price \in Nat \ {0} /\ w[i].quantity \in Nat \ {0}
Costs(w, O) == [i \in O |-> S!Cost(w[i])]
Savings(w, O, price) == [i \in O |-> Saves(w[i].price, w[i].quantity, price)]
Left(cost) == IF Notional < cost THEN 0 ELSE Notional - cost

Listed(w, p) == [k \in DOMAIN p |-> w[p[k]]]
(* What a purchase on the seen levels is known of against one price.         *)
Sum(f, T) == SumFunctionOnSet(f, T)
Bounded(w, O, price, fill, seen) ==
    /\ FillOk(fill) /\ IsFiniteSet(seen)
    /\ Sum(Costs(w, O), seen) \in Nat /\ Sum(Savings(w, O, price), seen) \in Nat
    /\ fill.remaining = Left(Sum(Costs(w, O), seen))
    /\ fill.base * price <= Paid(fill) + Sum(Savings(w, O, price), seen)

(* The sums of a level more.                                                 *)
AddsUp(w, O, price, seen, i) ==
    /\ IsFiniteSet(seen)
    /\ S!Cost(w[i]) \in Nat \ {0} /\ Saves(w[i].price, w[i].quantity, price) \in Nat
    /\ Sum(Costs(w, O), seen) \in Nat /\ Sum(Savings(w, O, price), seen) \in Nat
    /\ Sum(Costs(w, O), seen \cup {i}) = Sum(Costs(w, O), seen) + S!Cost(w[i])
    /\ Sum(Savings(w, O, price), seen \cup {i})
          = Sum(Savings(w, O, price), seen) + Saves(w[i].price, w[i].quantity, price)
(* They add up so.                                                           *)
LEMMA SeenSums ==
    ASSUME NEW O, IsFiniteSet(O), NEW w, Priced(w, O), NEW price \in Nat \ {0},
           NEW seen \in SUBSET O, NEW i \in O \ seen
    PROVE  AddsUp(w, O, price, seen, i)
<1> DEFINE cs == Costs(w, O)
           sv == Savings(w, O, price)
<1>0. Fine \in Nat
    BY DEF Fine, S!Fine
<1>1. ASSUME NEW j \in O
      PROVE  /\ S!Cost(w[j]) \in Nat \ {0} /\ Saves(w[j].price, w[j].quantity, price) \in Nat
             /\ cs[j] = S!Cost(w[j]) /\ sv[j] = Saves(w[j].price, w[j].quantity, price)
    <2> DEFINE p == w[j].price
               q == w[j].quantity
    <2>1. p \in Nat \ {0} /\ q \in Nat \ {0}
        BY DEF Priced
    <2>2. S!Cost(w[j]) = p * q
        BY DEF S!Cost
    <2>3. cs[j] = S!Cost(w[j]) /\ sv[j] = Saves(p, q, price)
        BY DEF Costs, Savings
    <2> HIDE DEF p, q
    <2>4. p * q \in Nat \ {0}
        BY <2>1
    <2>5. Saves(p, q, price) \in Nat
        <3>1. p < price => (q * Fine) \in Nat /\ price - p \in Nat
            BY <1>0, <2>1
        <3> DEFINE a == q * Fine
                   d == price - p
        <3>2. Saves(p, q, price) = IF p < price THEN a * d ELSE 0
            BY DEF Saves
        <3> HIDE DEF a, d
        <3>3. p < price => a \in Nat /\ d \in Nat
            BY <3>1 DEF a, d
        <3>. QED BY <3>2, <3>3
    <2>. QED BY <2>2, <2>3, <2>4, <2>5 DEF p, q
<1>2. IsFiniteSet(seen)
    BY FS_Subset
<1>3. \A x \in seen \cup {i} : cs[x] \in Nat /\ sv[x] \in Nat
    BY <1>1
<1> HIDE DEF cs, sv
<1>4. Sum(cs, seen) \in Nat /\ Sum(sv, seen) \in Nat
    BY <1>2, <1>3, SumIsNat DEF Sum
<1>5. /\ Sum(cs, seen \cup {i}) = Sum(cs, seen) + cs[i]
      /\ Sum(sv, seen \cup {i}) = Sum(sv, seen) + sv[i]
    <2>1. i \notin seen
        OBVIOUS
    <2>2. /\ \A x \in seen \cup {i} : cs[x] \in Nat
          /\ \A x \in seen \cup {i} : sv[x] \in Nat
        BY <1>3
    <2>. QED BY <1>2, <2>1, <2>2, SumAdds DEF Sum
<1>6. cs[i] = S!Cost(w[i]) /\ sv[i] = Saves(w[i].price, w[i].quantity, price)
    BY <1>1
<1>. QED BY <1>1, <1>2, <1>4, <1>5, <1>6 DEF AddsUp, cs, sv

(* Every price bounds what any order buys.                                   *)
LEMMA OrderBuys ==
    ASSUME NEW O, IsFiniteSet(O), NEW w, Priced(w, O), NEW p, OrderOf(p, O),
           NEW fs, Trail(fs, Listed(w, p), Cardinality(O)), NEW price \in Nat \ {0},
           NEW k \in 0..Cardinality(O)
    PROVE  Bounded(w, O, price, fs[k], Seen(p, k))
<1> DEFINE n == Cardinality(O)
           T == {j \in Nat : j <= n => Bounded(w, O, price, fs[j], Seen(p, j))}
<1>0. n \in Nat /\ DOMAIN p = 1..n
    BY FS_CardinalityType DEF OrderOf
<1>1. 0 \in T
    <2>1. Seen(p, 0) = {} /\ fs[0] = Unspent
        BY SeenGrows DEF Trail
    <2>2. /\ IsFiniteSet({}) /\ Sum(Costs(w, O), {}) = 0 /\ Sum(Savings(w, O, price), {}) = 0
        BY FS_EmptySet, SumPeels DEF Sum
    <2>3. FillOk(Unspent) /\ Unspent.remaining = Notional /\ Unspent.base = 0 /\ Paid(Unspent) = 0
        BY NotionalAssumption DEF FillOk, Unspent, Paid, Fine, S!Fine
    <2>4. Left(0) = Notional
        BY NotionalAssumption DEF Left
    <2>5. Bounded(w, O, price, Unspent, {})
        BY <2>2, <2>3, <2>4 DEF Bounded
    <2>. QED BY <2>1, <2>5
<1>2. ASSUME NEW j \in T \cap Nat PROVE j + 1 \in T
    <2> SUFFICES ASSUME j + 1 <= n
                 PROVE  Bounded(w, O, price, fs[j + 1], Seen(p, j + 1))
        BY <1>2
    <2> DEFINE i == p[j + 1]
               seen == Seen(p, j)
               l == w[i]
               c == S!Cost(l)
               v == Saves(l.price, l.quantity, price)
               a == Sum(Costs(w, O), seen)
               b == Sum(Savings(w, O, price), seen)
    <2>1. j + 1 \in 1..n /\ (j + 1) - 1 = j /\ j \in Nat /\ j <= n
        BY <1>0
    <2>2. Bounded(w, O, price, fs[j], seen)
        BY <2>1
    <2>3. Seen(p, j + 1) = seen \cup {i} /\ i \in O \ seen
        BY <2>1, SeenGrows
    <2>4. seen \in SUBSET O
        <3>1. \A x \in 1..j : x \in 1..n /\ p[x] \in O
            BY <1>0, <2>1 DEF OrderOf
        <3>. QED BY <3>1 DEF Seen
    <2>5. fs[j + 1] = Filled(l, fs[j])
        BY <1>0, <2>1 DEF Trail, Listed
    <2> HIDE DEF i, seen
    <2>6. /\ IsFiniteSet(seen) /\ c \in Nat \ {0} /\ v \in Nat /\ a \in Nat /\ b \in Nat
          /\ Sum(Costs(w, O), seen \cup {i}) = a + c
          /\ Sum(Savings(w, O, price), seen \cup {i}) = b + v
        <3>1. AddsUp(w, O, price, seen, i)
            BY <2>3, <2>4, SeenSums
        <3>. QED BY <3>1 DEF AddsUp
    <2>7. l.price \in Nat \ {0} /\ l.quantity \in Nat \ {0}
        BY <2>3 DEF Priced
    <2>8. FillOk(fs[j]) /\ fs[j].remaining = Left(a) /\ fs[j].base * price <= Paid(fs[j]) + b
        BY <2>2 DEF Bounded
    <2> HIDE DEF l, a, b
    <2>9. /\ FillOk(fs[j + 1])
          /\ fs[j + 1].remaining = IF fs[j].remaining < c THEN 0 ELSE fs[j].remaining - c
          /\ fs[j + 1].base * price <= Paid(fs[j + 1]) + (b + v)
        <3>1. FillsOn(l, fs[j], price, b, fs[j + 1], b + v)
            BY <2>5, <2>6, <2>7, <2>8, LevelFills
        <3>. QED BY <2>8, <3>1 DEF FillsOn
    <2> HIDE DEF c, v
    <2>10. fs[j + 1].remaining = Left(a + c)
        BY <2>6, <2>8, <2>9, NotionalAssumption DEF Left
    <2>11. IsFiniteSet(seen \cup {i})
        BY <2>6, FS_AddElement
    <2>12. a + c \in Nat /\ b + v \in Nat
        BY <2>6
    <2>. QED BY <2>3, <2>6, <2>9, <2>10, <2>11, <2>12 DEF Bounded
<1>3. k \in T
    <2> HIDE DEF T
    <2>1. Nat \subseteq T
        BY <1>1, <1>2, NatSetInduction
    <2>. QED BY <1>0, <2>1
<1>. QED BY <1>0, <1>3

(* In the order of the prices the bound is exact for every price no level was *)
(* dearer than, until the money ends at a level, whose price it misses by less *)
(* than one unit from then on.                                               *)
Cheapest(w, p) ==
    \A i, j \in DOMAIN p : i < j => w[p[i]].price <= w[p[j]].price
Exact(w, O, price, fill, seen) ==
    fill.base * price = Paid(fill) + Sum(Savings(w, O, price), seen)
Near(w, O, price, fill, seen) ==
    fill.base * price + price > Paid(fill) + Sum(Savings(w, O, price), seen)
Buying(w, O, p, j, fill, seen) ==
    \A price \in Nat \ {0} : (\A i \in 1..j : w[p[i]].price <= price) =>
        Exact(w, O, price, fill, seen)
Bought(w, O, p, j, fill, seen) ==
    /\ fill.remaining = 0
    /\ \E price \in Nat \ {0} :
          /\ \A i \in DOMAIN p : j < i => price <= w[p[i]].price
          /\ Near(w, O, price, fill, seen)

(* The cheapest first come near the bound of some price.                     *)
LEMMA SortedBuys ==
    ASSUME NEW O, IsFiniteSet(O), O # {}, NEW w, Priced(w, O), NEW p, OrderOf(p, O),
           NEW fs, Trail(fs, Listed(w, p), Cardinality(O)), Cheapest(w, p)
    PROVE  \E price \in Nat \ {0} : Near(w, O, price, fs[Cardinality(O)], O)
<1> DEFINE n == Cardinality(O)
           Ok(j) == \/ Buying(w, O, p, j, fs[j], Seen(p, j))
                    \/ Bought(w, O, p, j, fs[j], Seen(p, j))
           T == {j \in Nat : j <= n => Ok(j)}
<1>0. n \in Nat \ {0} /\ DOMAIN p = 1..n /\ \A i \in 1..n : p[i] \in O
    BY FS_CardinalityType, FS_EmptySet DEF OrderOf
<1>1. \A i \in 1..n : w[p[i]].price \in Nat \ {0} /\ w[p[i]].quantity \in Nat \ {0}
    BY <1>0 DEF Priced
<1>2. 0 \in T
    <2>1. Seen(p, 0) = {} /\ fs[0] = Unspent
        BY SeenGrows DEF Trail
    <2>2. \A price : Sum(Savings(w, O, price), {}) = 0
        BY FS_EmptySet, SumPeels DEF Sum
    <2>3. Unspent.base = 0 /\ Paid(Unspent) = 0
        BY NotionalAssumption DEF Unspent, Paid, Fine, S!Fine
    <2>4. Buying(w, O, p, 0, fs[0], Seen(p, 0))
        BY <2>1, <2>2, <2>3 DEF Buying, Exact
    <2>. QED BY <2>4
<1>3. ASSUME NEW j \in T \cap Nat PROVE j + 1 \in T
    <2> SUFFICES ASSUME j + 1 <= n PROVE Ok(j + 1)
        BY <1>3
    <2> DEFINE i == p[j + 1]
               seen == Seen(p, j)
               l == w[i]
    <2>1. j + 1 \in 1..n /\ (j + 1) - 1 = j /\ j \in 0..n /\ j \in Nat /\ j <= n
        BY <1>0
    <2>2. Ok(j)
        BY <2>1
    <2>3. Seen(p, j + 1) = seen \cup {i} /\ i \in O \ seen
        BY <2>1, SeenGrows
    <2>4. seen \in SUBSET O
        BY <1>0, <2>1 DEF Seen
    <2>5. fs[j + 1] = Filled(l, fs[j])
        BY <1>0, <2>1 DEF Trail, Listed
    <2>6. l.price \in Nat \ {0} /\ l.quantity \in Nat \ {0}
        BY <1>1, <2>1
    <2>7. FillOk(fs[j])
        <3>1. Bounded(w, O, 1, fs[j], seen)
            BY <2>1, OrderBuys
        <3>. QED BY <3>1 DEF Bounded
    <2>8. \A x \in 1..j : w[p[x]].price <= l.price
        BY <1>0, <2>1 DEF Cheapest
    <2>9. \A x \in 1..n : j + 1 < x => l.price <= w[p[x]].price
        BY <1>0, <2>1 DEF Cheapest
    <2> HIDE DEF i, seen, l
    <2>10. ASSUME NEW price \in Nat \ {0}
           PROVE  LET b == Sum(Savings(w, O, price), seen)
                      v == Saves(l.price, l.quantity, price)
                  IN  /\ b \in Nat /\ v \in Nat
                      /\ Sum(Savings(w, O, price), seen \cup {i}) = b + v
        <3>1. AddsUp(w, O, price, seen, i)
            BY <2>3, <2>4, SeenSums
        <3>. QED BY <3>1 DEF AddsUp, l
    <2>11. ASSUME NEW price \in Nat \ {0}
           PROVE  /\ FillOk(fs[j + 1]) /\ S!Cost(l) \in Nat \ {0}
                  /\ fs[j + 1].remaining = IF fs[j].remaining < S!Cost(l) THEN 0
                                          ELSE fs[j].remaining - S!Cost(l)
                  /\ Exact(w, O, price, fs[j], seen) /\ l.price <= price
                       /\ S!Cost(l) <= fs[j].remaining
                     => Exact(w, O, price, fs[j + 1], seen \cup {i})
                  /\ Exact(w, O, price, fs[j], seen) /\ l.price = price
                     => Near(w, O, price, fs[j + 1], seen \cup {i})
                  /\ fs[j].remaining = 0 => fs[j + 1].base = fs[j].base
        <3> DEFINE b == Sum(Savings(w, O, price), seen)
                   v == Saves(l.price, l.quantity, price)
                   m == Sum(Savings(w, O, price), seen \cup {i})
        <3>1. b \in Nat /\ v \in Nat /\ m = b + v
            BY <2>10
        <3>2. m = b + Saves(l.price, l.quantity, price)
            BY <3>1
        <3> HIDE DEF b, v, m
        <3>3. /\ FillOk(fs[j + 1]) /\ S!Cost(l) \in Nat \ {0}
              /\ fs[j + 1].remaining = IF fs[j].remaining < S!Cost(l) THEN 0
                                      ELSE fs[j].remaining - S!Cost(l)
              /\ fs[j].base * price = Paid(fs[j]) + b /\ l.price <= price
                   /\ S!Cost(l) <= fs[j].remaining
                 => fs[j + 1].base * price = Paid(fs[j + 1]) + m
              /\ fs[j].base * price = Paid(fs[j]) + b /\ l.price = price
                 => fs[j + 1].base * price + price > Paid(fs[j + 1]) + m
              /\ fs[j].remaining = 0 => fs[j + 1].base = fs[j].base
            <4>1. FillsOn(l, fs[j], price, b, fs[j + 1], m)
                BY <2>5, <2>6, <2>7, <3>1, <3>2, LevelFills
            <4>. QED BY <4>1 DEF FillsOn
        <3>. QED BY <3>3 DEF b, m, Exact, Near
    <2>12. fs[j].remaining \in Nat /\ fs[j].base \in Nat
        BY <2>7, NotionalAssumption DEF FillOk
    <2>13. S!Cost(l) \in Nat \ {0}
        BY <2>6, <2>11
    <2>14. CASE Buying(w, O, p, j, fs[j], seen) /\ S!Cost(l) <= fs[j].remaining
        <3> SUFFICES ASSUME NEW price \in Nat \ {0},
                            \A x \in 1..(j + 1) : w[p[x]].price <= price
                     PROVE  Exact(w, O, price, fs[j + 1], seen \cup {i})
            BY <2>3 DEF Buying
        <3>1. \A x \in 1..j : w[p[x]].price <= price
            BY <2>1
        <3>2. l.price <= price
            BY <2>1 DEF l, i
        <3>3. Exact(w, O, price, fs[j], seen)
            BY <2>14, <3>1 DEF Buying
        <3>. QED BY <2>11, <2>14, <3>2, <3>3
    <2>15. CASE Buying(w, O, p, j, fs[j], seen) /\ fs[j].remaining < S!Cost(l)
        <3>1. Exact(w, O, l.price, fs[j], seen)
            BY <2>6, <2>8, <2>15 DEF Buying
        <3>2. fs[j + 1].remaining = 0 /\ Near(w, O, l.price, fs[j + 1], seen \cup {i})
            BY <2>6, <2>11, <2>15, <3>1
        <3>3. \A x \in DOMAIN p : j + 1 < x => l.price <= w[p[x]].price
            BY <1>0, <2>9
        <3>4. Bought(w, O, p, j + 1, fs[j + 1], seen \cup {i})
            BY <2>6, <3>2, <3>3 DEF Bought
        <3>. QED BY <2>3, <3>4
    <2>16. CASE Bought(w, O, p, j, fs[j], seen)
        <3>1. PICK price \in Nat \ {0} :
                 /\ \A x \in DOMAIN p : j < x => price <= w[p[x]].price
                 /\ Near(w, O, price, fs[j], seen)
            BY <2>16 DEF Bought
        <3>2. fs[j].remaining = 0
            BY <2>16 DEF Bought
        <3>3. fs[j + 1].remaining = 0 /\ fs[j + 1].base = fs[j].base
            BY <2>6, <2>11, <2>13, <3>2
        <3>4. price <= l.price
            BY <1>0, <2>1, <3>1 DEF l, i
        <3>5. Sum(Savings(w, O, price), seen \cup {i}) = Sum(Savings(w, O, price), seen)
            <4> DEFINE b == Sum(Savings(w, O, price), seen)
                       v == Saves(l.price, l.quantity, price)
            <4>1. b \in Nat /\ Sum(Savings(w, O, price), seen \cup {i}) = b + v
                BY <2>10
            <4>2. v = 0
                BY <2>6, <3>4 DEF Saves
            <4> HIDE DEF b, v
            <4>3. b + v = b
                BY <4>1, <4>2
            <4>. QED BY <4>1, <4>3 DEF b
        <3>6. Paid(fs[j + 1]) = Paid(fs[j])
            BY <3>2, <3>3 DEF Paid
        <3>7. Near(w, O, price, fs[j + 1], seen \cup {i})
            BY <3>1, <3>3, <3>5, <3>6 DEF Near
        <3>8. \A x \in DOMAIN p : j + 1 < x => price <= w[p[x]].price
            BY <1>0, <2>1, <3>1
        <3>9. Bought(w, O, p, j + 1, fs[j + 1], seen \cup {i})
            BY <3>3, <3>7, <3>8 DEF Bought
        <3>. QED BY <2>3, <3>9
    <2>. QED BY <2>2, <2>12, <2>13, <2>14, <2>15, <2>16 DEF seen
<1>4. Ok(n)
    <2>1. n \in T
        <3> HIDE DEF T
        <3>. QED BY <1>0, <1>2, <1>3, NatSetInduction
    <2>. QED BY <1>0, <2>1
<1>5. Seen(p, n) = O
    BY SeenGrows
<1>6. CASE Buying(w, O, p, n, fs[n], O)
    <2> DEFINE price == w[p[n]].price
    <2>1. price \in Nat \ {0}
        BY <1>0, <1>1
    <2>2. \A i \in 1..n : w[p[i]].price <= price
        BY <1>0, <1>1 DEF Cheapest
    <2> HIDE DEF price
    <2>3. Exact(w, O, price, fs[n], O)
        BY <1>6, <2>1, <2>2 DEF Buying
    <2>4. Bounded(w, O, price, fs[n], O)
        BY <1>0, <1>5, <2>1, OrderBuys
    <2> DEFINE b == Sum(Savings(w, O, price), O)
               x == fs[n].base * price
               y == Paid(fs[n])
    <2>5. x = y + b /\ b \in Nat /\ x \in Nat
        BY <2>1, <2>3, <2>4 DEF Exact, Bounded, FillOk
    <2> HIDE DEF b, x
    <2>6. x + price > y + b
        BY <2>1, <2>5
    <2>7. Near(w, O, price, fs[n], O)
        BY <2>6 DEF Near, b, x
    <2>. QED BY <2>1, <2>7
<1>7. CASE Bought(w, O, p, n, fs[n], O)
    BY <1>7 DEF Bought
<1>. QED BY <1>4, <1>5, <1>6, <1>7

(* No order buys more than the cheapest first.                               *)
LEMMA CheapestBuysMost ==
    ASSUME NEW O, IsFiniteSet(O), O # {}, NEW w, Priced(w, O),
           NEW p, OrderOf(p, O), Cheapest(w, p), NEW q, OrderOf(q, O)
    PROVE  /\ S!BuyFill(Listed(w, q)).base \in Nat
           /\ S!BuyFill(Listed(w, p)).base >= S!BuyFill(Listed(w, q)).base
<1> DEFINE n == Cardinality(O)
<1>0. n \in Nat /\ n \in 0..n /\ DOMAIN Listed(w, p) = 1..n /\ DOMAIN Listed(w, q) = 1..n
    BY FS_CardinalityType DEF OrderOf, Listed
<1>1. PICK fs : Trail(fs, Listed(w, p), n) /\ S!BuyFill(Listed(w, p)) = fs[n]
    BY <1>0, FillTrails
<1>2. PICK G : Trail(G, Listed(w, q), n) /\ S!BuyFill(Listed(w, q)) = G[n]
    BY <1>0, FillTrails
<1>3. PICK price \in Nat \ {0} : Near(w, O, price, fs[n], O)
    BY <1>1, SortedBuys
<1>4. Bounded(w, O, price, fs[n], O) /\ Bounded(w, O, price, G[n], O)
    <2>1. Seen(p, n) = O /\ Seen(q, n) = O
        BY SeenGrows
    <2>. QED BY <1>0, <1>1, <1>2, <2>1, OrderBuys
<1> DEFINE b == Sum(Savings(w, O, price), O)
           x == fs[n].base
           y == G[n].base
<1>5. Paid(fs[n]) = Paid(G[n])
    BY <1>4 DEF Bounded, Paid
<1>6. x \in Nat /\ y \in Nat /\ Paid(fs[n]) \in Nat /\ b \in Nat
    BY <1>4, NotionalAssumption DEF Bounded, FillOk, Paid, Fine, S!Fine
<1>7. x * price + price > Paid(fs[n]) + b
    BY <1>3 DEF Near
<1>8. y * price <= Paid(fs[n]) + b
    BY <1>4, <1>5 DEF Bounded
<1> HIDE DEF n, b, x, y
<1>9. x >= y
    <2> SUFFICES ASSUME x + 1 <= y PROVE FALSE
        BY <1>6
    <2>1. (x + 1) * price <= y * price
        BY <1>6
    <2>2. (x + 1) * price = x * price + price
        BY <1>6
    <2>. QED BY <1>6, <1>7, <1>8, <2>1, <2>2
<1>. QED BY <1>1, <1>2, <1>6, <1>9 DEF x, y

(* The shown asks are all the offered ones, cheapest first.                  *)
Cheaper(levels, i, j) ==
    \/ levels[i].price < levels[j].price
    \/ ~(levels[j].price < levels[i].price) /\ i < j
CheapestFirst(levels) ==
    [k \in 1..Cardinality(S!OfferedIn(levels)) |->
        CHOOSE x \in S!OfferedIn(levels) :
            Cardinality({y \in S!OfferedIn(levels) : Cheaper(levels, y, x)}) = k - 1]

(* That is how the adapter lists them.                                       *)
LEMMA LevelsAreListed ==
    ASSUME NEW levels
    PROVE  S!LevelsOf(levels, LAMBDA a, b : a.price < b.price)
             = Listed(levels, CheapestFirst(levels))
BY DEF S!LevelsOf, S!InOrder, S!Cardinality, Cardinality, Cheaper, CheapestFirst, Listed

(* A sequence over a set has its elements there.                             *)
LEMMA SeqHas ==
    ASSUME NEW A, NEW s \in Seq(A), NEW i \in DOMAIN s
    PROVE  s[i] \in A
OBVIOUS

(* It lists each of them, and no dearer one before a cheaper.                *)
LEMMA AsksInOrder ==
    ASSUME NEW levels \in Seq([price : Int, quantity : Int])
    PROVE  /\ IsFiniteSet(S!OfferedIn(levels))
           /\ OrderOf(CheapestFirst(levels), S!OfferedIn(levels))
           /\ Cheapest(levels, CheapestFirst(levels))
<1> DEFINE O == S!OfferedIn(levels)
           R == {e \in O \X O : Cheaper(levels, e[1], e[2])}
           s == CheapestFirst(levels)
           n == Cardinality(O)
<1>0. /\ O \subseteq DOMAIN levels /\ DOMAIN levels \subseteq Int /\ IsFiniteSet(DOMAIN levels)
      /\ \A i \in DOMAIN levels : levels[i].price \in Int
    <2>1. Len(levels) \in Nat /\ DOMAIN levels = 1..Len(levels)
        OBVIOUS
    <2>2. IsFiniteSet(1..Len(levels))
        BY <2>1, FS_Interval
    <2>3. \A i \in DOMAIN levels : levels[i] \in [price : Int, quantity : Int]
        BY SeqHas
    <2>4. O \subseteq DOMAIN levels
        BY DEF S!OfferedIn
    <2>5. DOMAIN levels \subseteq Int
        BY <2>1
    <2>6. IsFiniteSet(DOMAIN levels)
        BY <2>1, <2>2
    <2>. QED BY <2>3, <2>4, <2>5, <2>6
<1>1. IsFiniteSet(O) /\ n \in Nat
    BY <1>0, FS_Subset, FS_CardinalityType
<1>2. s = [k \in 1..n |-> CHOOSE x \in O : Cardinality({y \in O : Cheaper(levels, y, x)}) = k - 1]
    BY DEF CheapestFirst
<1>3. \A x \in O : x \in Int /\ levels[x].price \in Int
    BY <1>0
<1> HIDE DEF O, s
<1>4. \A x, y \in O : <<x, y>> \in R <=> Cheaper(levels, x, y)
    OBVIOUS
<1> HIDE DEF R
<1>5. Orders(R, O)
    <2>1. \A x \in O : <<x, x>> \notin R
        BY <1>3, <1>4 DEF Cheaper
    <2>2. ASSUME NEW x \in O, NEW y \in O, x # y
          PROVE  Cheaper(levels, x, y) \/ Cheaper(levels, y, x)
        <3> DEFINE a == levels[x].price
                   b == levels[y].price
        <3>1. x \in Int /\ y \in Int /\ a \in Int /\ b \in Int
            BY <1>3
        <3> HIDE DEF a, b
        <3>2. \/ a < b \/ (~(b < a) /\ x < y)
              \/ b < a \/ (~(a < b) /\ y < x)
            BY <2>2, <3>1
        <3>. QED BY <3>2 DEF a, b, Cheaper
    <2>3. ASSUME NEW x \in O, NEW y \in O, NEW z \in O,
                 Cheaper(levels, x, y), Cheaper(levels, y, z)
          PROVE  Cheaper(levels, x, z)
        <3> DEFINE a == levels[x].price
                   b == levels[y].price
                   c == levels[z].price
        <3>1. /\ x \in Int /\ y \in Int /\ z \in Int
              /\ a \in Int /\ b \in Int /\ c \in Int
            BY <1>3
        <3>2. /\ a < b \/ (~(b < a) /\ x < y)
              /\ b < c \/ (~(c < b) /\ y < z)
            BY <2>3 DEF Cheaper
        <3> HIDE DEF a, b, c
        <3>3. a < c \/ (~(c < a) /\ x < z)
            BY <3>1, <3>2
        <3>. QED BY <3>3 DEF a, c, Cheaper
    <2>4. \A x, y \in O : x # y => <<x, y>> \in R \/ <<y, x>> \in R
        BY <1>4, <2>2
    <2>5. \A x, y, z \in O : <<x, y>> \in R /\ <<y, z>> \in R => <<x, z>> \in R
        BY <1>4, <2>3
    <2>. QED BY <2>1, <2>4, <2>5 DEF Orders
<1>6. \A x \in O : {y \in O : Cheaper(levels, y, x)} = Below(R, O, x)
    BY <1>4 DEF Below
<1>7. Enumerates(s, R, O)
    <2> SUFFICES ASSUME NEW k \in 1..n
                 PROVE  s[k] \in O /\ Cardinality(Below(R, O, s[k])) = k - 1
        <3>1. (\A k \in 1..n : s[k] \in O) => s \in [1..n -> O]
            BY <1>2
        <3>. QED BY <3>1 DEF Enumerates
    <2>1. \E x \in O : Cardinality(Below(R, O, x)) = k - 1
        BY <1>1, <1>5, RanksEnumerate
    <2>2. \E x \in O : Cardinality({y \in O : Cheaper(levels, y, x)}) = k - 1
        BY <1>6, <2>1
    <2>3. s[k] = CHOOSE x \in O : Cardinality({y \in O : Cheaper(levels, y, x)}) = k - 1
        BY <1>2
    <2>4. s[k] \in O /\ Cardinality({y \in O : Cheaper(levels, y, s[k])}) = k - 1
        BY <2>2, <2>3
    <2>. QED BY <1>6, <2>4
<1>8. OrderOf(s, O) /\ \A i, j \in DOMAIN s : i < j => <<s[i], s[j]>> \in R
    BY <1>1, <1>5, <1>7, RanksList
<1>9. \A i \in DOMAIN s : s[i] \in O
    BY <1>8 DEF OrderOf
<1>10. Cheapest(levels, s)
    <2> SUFFICES ASSUME NEW i \in DOMAIN s, NEW j \in DOMAIN s, i < j
                 PROVE  levels[s[i]].price <= levels[s[j]].price
        BY DEF Cheapest
    <2>2. <<s[i], s[j]>> \in R /\ s[i] \in O /\ s[j] \in O
        BY <1>8, <1>9
    <2>3. Cheaper(levels, s[i], s[j])
        BY <1>4, <2>2
    <2> DEFINE a == levels[s[i]].price
               b == levels[s[j]].price
    <2>4. a \in Int /\ b \in Int
        BY <1>3, <2>2
    <2>5. a < b \/ ~(b < a)
        BY <2>3 DEF Cheaper
    <2> HIDE DEF a, b
    <2>6. a <= b
        BY <2>4, <2>5
    <2>. QED BY <2>6 DEF a, b
<1>. QED BY <1>1, <1>8, <1>10 DEF O, s

(* So the shown asks are bought as cheaply as any order of the offered ones   *)
(* allows.                                                                   *)
LEMMA BookIsBest ==
    ASSUME NEW w, w.asks \in Seq([price : Int, quantity : Int]), S!NormalizeBook(w).ok
    PROVE  LET offered == S!OfferedIn(w.asks)
               orders  == {p \in [1..Cardinality(offered) -> offered] : Range(p) = offered}
               bought  == {S!BuyFill(Listed(w.asks, p)).base : p \in orders}
           IN  S!BuyFill(S!NormalizeBook(w).data.asks).base = Max(bought)
<1> DEFINE levels  == w.asks
           order   == CheapestFirst(levels)
           O       == S!OfferedIn(levels)
           orders  == {p \in [1..Cardinality(O) -> O] : Range(p) = O}
           bought  == {S!BuyFill(Listed(levels, p)).base : p \in orders}
           best    == S!BuyFill(Listed(levels, order)).base
           asks    == S!LevelsOf(levels, LAMBDA a, b : a.price < b.price)
<1>1. /\ S!NormalizeBook(w).data.asks = asks /\ asks # <<>>
      /\ \A i \in DOMAIN asks : asks[i].price > 0
    BY DEF S!NormalizeBook, S!NormalizedAtFetch, S!Normalized, S!SchemaError
<1>2. asks = Listed(levels, order)
    BY LevelsAreListed
<1> HIDE DEF asks
<1>3. IsFiniteSet(O) /\ OrderOf(order, O) /\ Cheapest(levels, order)
    BY AsksInOrder
<1>4. /\ \A i \in O : i \in DOMAIN levels /\ levels[i].quantity > 0
      /\ \A i \in DOMAIN levels : levels[i].price \in Int /\ levels[i].quantity \in Int
    <2>1. \A i \in DOMAIN levels : levels[i] \in [price : Int, quantity : Int]
        BY SeqHas
    <2>2. \A i \in O : i \in DOMAIN levels /\ levels[i].quantity > 0
        BY DEF S!OfferedIn
    <2>. QED BY <2>1, <2>2
<1> HIDE DEF levels, O, order
<1>5. Priced(levels, O)
    <2> SUFFICES ASSUME NEW i \in O
                 PROVE  levels[i].price \in Nat \ {0} /\ levels[i].quantity \in Nat \ {0}
        BY DEF Priced
    <2>1. PICK k \in DOMAIN order : order[k] = i
        BY <1>3 DEF OrderOf, Range
    <2>2. asks[k].price > 0
        BY <1>1, <1>2, <2>1 DEF Listed
    <2>3. levels[i].price > 0
        BY <1>2, <2>1, <2>2 DEF Listed
    <2>. QED BY <1>4, <2>3
<1>6. O # {}
    <2> SUFFICES ASSUME O = {} PROVE asks = <<>>
        BY <1>1
    <2>1. DOMAIN order = {}
        BY <1>3, FS_EmptySet DEF OrderOf
    <2>2. asks = [k \in {} |-> levels[order[k]]]
        BY <1>2, <2>1 DEF Listed
    <2>. QED BY <2>2
<1>7. best \in bought
    BY <1>3 DEF OrderOf
<1>8. \A x \in bought : best >= x /\ x \in Nat
    <2> SUFFICES ASSUME NEW q \in orders
                 PROVE  /\ best >= S!BuyFill(Listed(levels, q)).base
                        /\ S!BuyFill(Listed(levels, q)).base \in Nat
        OBVIOUS
    <2>1. OrderOf(q, O)
        BY DEF OrderOf
    <2>. QED BY <1>3, <1>5, <1>6, <2>1, CheapestBuysMost
<1>9. S!BuyFill(S!NormalizeBook(w).data.asks).base = best
    BY <1>1, <1>2
<1> HIDE DEF bought, best
<1>10. Max(bought) \in bought /\ \A x \in bought : Max(bought) >= x
    BY <1>7, <1>8 DEF Max
<1>11. best = Max(bought)
    BY <1>7, <1>8, <1>10
<1>. QED BY <1>9, <1>11 DEF bought, best, orders, O, levels

-----------------------------------------------------------------------------
(* The theorems                                                              *)

LEMMA EveryAnswerTells == IInv => (Replied => Told)
<1> SUFFICES ASSUME IInv, Replied PROVE Told
    OBVIOUS
<1>1. request \in Servable
    BY DEF IInv, Replied
<1>. QED BY <1>1, RequestIs, SpotTold, FuturesTold, CryptoTold, StockTold

(* A page shows every part or names it as missing and says it is partial,    *)
(* whichever reads failed and in whatever order.                             *)
THEOREM MissingIsNamedHolds == Spec => []MissingIsNamed
<1>1. IInv => MissingIsNamed
    BY EveryAnswerTells, ToldIsHonest
<1>. QED BY <1>1, Invariance, PTL

(* Stale data are never shown as fresh, and cost a risk its confidence.      *)
THEOREM StaleNeverLiveHolds == Spec => []StaleNeverLive
<1>1. IInv => StaleNeverLive
    BY EveryAnswerTells, ToldIsHonest
<1>. QED BY <1>1, Invariance, PTL

(* A page that calls itself ready lacks nothing, and nothing of it is stale  *)
(* or incomplete.                                                            *)
THEOREM ReadyMeansCompleteHolds == Spec => []ReadyMeansComplete
<1>1. IInv => ReadyMeansComplete
    BY EveryAnswerTells, ToldIsHonest
<1>. QED BY <1>1, Invariance, PTL

(* Whatever is missing, the risk is a mean of the scores there are, and says  *)
(* so.                                                                       *)
THEOREM RiskIsWeightedMeanHolds == Spec => []RiskIsWeightedMean
<1>1. IInv => RiskIsWeightedMean
    <2> SUFFICES ASSUME IInv, Replied, reply.risk # None PROVE Mean(reply.risk)
        BY DEF RiskIsWeightedMean, Mean
    <2>1. request \in Servable
        BY DEF IInv, Replied
    <2>. QED BY <2>1, RequestIs, SpotRated, FuturesRated, CryptoRated, StockRated
<1>. QED BY <1>1, Invariance, PTL

(* Each point of a shown history joins a price, a cap and a volume of one     *)
(* instant, and the points are in the order of time, however the payload     *)
(* aligns its three series.                                                  *)
THEOREM HistoryAlignedHolds == Spec => []HistoryAligned
<1>1. IInv => HistoryAligned
    <2> SUFFICES ASSUME IInv, Replied, request.service = "crypto", "history" \in ShownReads
                 PROVE  AlignedWith(Parts["history"].data, WireOf("history"))
        BY DEF HistoryAligned
    <2>1. request \in Servable
        BY DEF IInv, Replied
    <2>2. "history" \in DOMAIN reads /\ reads["history"] \notin {Waiting, Lost}
        BY DEF ShownReads, Arrived
    <2>3. PICK wire \in DOMAIN Wires["crypto"]["history"],
               status \in Statuses["crypto"]["history"] :
             /\ Normal["crypto"]["history"][wire].ok
             /\ reads["history"] = Got("crypto", "history", wire, status)
        BY <2>2 DEF IInv, ReadOk
    <2>4. "crypto" \in DOMAIN Wires /\ "history" \in DOMAIN Wires["crypto"]
        BY <2>1, <2>2, RequestIs DEF IInv
    <2> DEFINE w == Wires["crypto"]["history"][wire]
    <2>5. Normal["crypto"]["history"][wire] = C!CryptoNormalize("history", w)
        BY <2>3, <2>4 DEF Normal, Normalize
    <2>6. {w.prices, w.caps, w.volumes} \subseteq Seq(Int \X Int)
        BY <2>3, <2>4, WireAssumption DEF WireTyped
    <2>7. WireOf("history") = w /\ Parts["history"].data = C!CryptoNormalize("history", w).data
        BY <2>2, <2>3, <2>5 DEF WireOf, Parts, Arrived, Got, PartOf
    <2> HIDE DEF w
    <2>8. C!CryptoNormalize("history", w) = C!NormalizeHistory(w)
        BY <2>3, <2>5 DEF C!CryptoNormalize, C!SchemaError
    <2>. QED BY <2>3, <2>5, <2>6, <2>7, <2>8, HistoryJoins
<1>. QED BY <1>1, Invariance, PTL

(* The slippage of a purchase is that of the cheapest way to spend the        *)
(* notional on the offered levels, however many there are, whatever they cost *)
(* and in whatever order the provider lists them.                            *)
THEOREM SlippageIsBestFillHolds == Spec => []SlippageIsBestFill
<1>1. IInv => SlippageIsBestFill
    <2> SUFFICES ASSUME IInv, Replied, request.service = "spot", "order_book" \in ShownReads
                 PROVE  LET wire    == WireOf("order_book").asks
                            offered == S!OfferedIn(wire)
                            orders  == {p \in [1..Cardinality(offered) -> offered] :
                                          Range(p) = offered}
                            bought  == {S!BuyFill(Listed(wire, p)).base : p \in orders}
                        IN  S!BuyFill(Parts["order_book"].data.asks).base = Max(bought)
        BY DEF SlippageIsBestFill, Listed
    <2>1. request \in Servable
        BY DEF IInv, Replied
    <2>2. "order_book" \in DOMAIN reads /\ reads["order_book"] \notin {Waiting, Lost}
        BY DEF ShownReads, Arrived
    <2>3. PICK wire \in DOMAIN Wires["spot"]["order_book"],
               status \in Statuses["spot"]["order_book"] :
             /\ Normal["spot"]["order_book"][wire].ok
             /\ reads["order_book"] = Got("spot", "order_book", wire, status)
        BY <2>2 DEF IInv, ReadOk
    <2>4. "spot" \in DOMAIN Wires /\ "order_book" \in DOMAIN Wires["spot"]
        BY <2>1, <2>2, RequestIs DEF IInv
    <2> DEFINE w == Wires["spot"]["order_book"][wire]
    <2>5. Normal["spot"]["order_book"][wire] = S!SpotNormalize("order_book", w)
        BY <2>3, <2>4 DEF Normal, Normalize
    <2>6. w.asks \in Seq([price : Int, quantity : Int])
        BY <2>3, <2>4, WireAssumption DEF WireTyped
    <2>7. /\ WireOf("order_book") = w
          /\ Parts["order_book"].data = S!SpotNormalize("order_book", w).data
        BY <2>2, <2>3, <2>5 DEF WireOf, Parts, Arrived, Got, PartOf
    <2> HIDE DEF w
    <2>8. S!SpotNormalize("order_book", w) = S!NormalizeBook(w)
        BY <2>3, <2>5 DEF S!SpotNormalize, S!SchemaError
    <2>9. S!NormalizeBook(w).ok
        BY <2>3, <2>5, <2>8
    <2>. QED BY <2>6, <2>7, <2>8, <2>9, BookIsBest
<1>. QED BY <1>1, Invariance, PTL

(* What is shown is of the asset that was asked for, even when a provider     *)
(* answers with another.                                                     *)
THEOREM OnlyTheAssetHolds == Spec => []OnlyTheAsset
<1>1. IInv => OnlyTheAsset
    <2> SUFFICES ASSUME IInv, Replied PROVE OnlyTheAsset
        BY DEF OnlyTheAsset
    <2>0. request \in Servable /\ Settled
        BY DEF IInv, Replied
    <2>1. ASSUME request.service = "stock", NEW c \in ShownReads \cap {"profile", "quote", "candles"}
          PROVE  Parts[c].data.symbol = Asset /\ Parts[c].data.exchange = request.exchange
        <3> DEFINE f == K!FundamentalsOf(request.op, request.deployment, request.exchange, Parts)
        <3>1. c \in Arrived /\ c \in reply.shown
            BY DEF ShownReads, PartFor, K!SecReads
        <3>2. ~K!Mistaken(request.exchange, Parts)
            <4> HIDE DEF f
            <4>1. Unavailable \/ FundamentalsOnly(f) \/ WholePage(f) \/ MarketOnly
                BY <2>1, StockAnswerIs DEF f
            <4>2. ~Unavailable
                BY <3>1 DEF Unavailable
            <4>3. ~FundamentalsOnly(f)
                BY <3>1 DEF FundamentalsOnly
            <4>. QED BY <4>1, <4>2, <4>3 DEF WholePage, MarketOnly
        <3>3. c \in DOMAIN Parts \cap {"profile", "quote", "candles"}
            BY <3>1 DEF Parts
        <3>. QED BY <3>2, <3>3 DEF K!Mistaken, K!SameIdentity
    <2>2. ASSUME request.service = "crypto", request.op \in C!OfOneCoin
          PROVE  "overview" \in Arrived /\ Parts["overview"].data[1].id = Asset
        BY <2>0, <2>2, OverviewArrives DEF C!CoinFound
    <2>3. ASSUME request.service = "futures", NEW c \in ShownReads \cap {"funding", "basis"},
                 NEW i \in DOMAIN Parts[c].data
          PROVE  Parts[c].data[i].symbol = Asset
        <3>1. c \in Arrived
            BY DEF ShownReads
        <3>2. PICK wire \in DOMAIN Wires[request.service][c],
                   status \in Statuses[request.service][c] :
                 LET norm == Normalize(request.service, c, Wires[request.service][c][wire])
                 IN  norm.ok /\ Parts[c] = PartOf(request.service, c, norm, status)
            BY <2>0, <3>1, ArrivedIs
        <3> DEFINE w    == Wires[request.service][c][wire]
                   norm == Normalize(request.service, c, w)
        <3>3. norm = U!FuturesNormalize(c, w) /\ norm.ok
            BY <2>3, <3>2 DEF Normalize
        <3>4. Parts[c].data = norm.data
            BY <3>2 DEF PartOf
        <3> HIDE DEF w, norm
        <3>5. U!HistoryOk(w, c # "positioning_taker") /\ norm.data = w
            BY <3>3 DEF U!FuturesNormalize, U!SchemaError, U!Normalized
        <3>. QED BY <2>3, <3>4, <3>5 DEF U!HistoryOk
    <2>. QED BY <2>1, <2>2, <2>3 DEF OnlyTheAsset
<1>. QED BY <1>1, Invariance, PTL

(* A period that is shown is of one filing, its flows of one duration, and   *)
(* it is the latest filing of those that report an anchor: no quarter has a  *)
(* value of the year to date.                                                *)
THEOREM PeriodsCoherentHolds == Spec => []PeriodsCoherent
<1>1. IInv => PeriodsCoherent
    <2> SUFFICES ASSUME IInv, Replied, request.service = "stock", "facts" \in ShownReads,
                        NEW p \in Range(SecPeriods)
                 PROVE  CoherentPeriod(p)
        BY DEF PeriodsCoherent
    <2>1. request \in Servable
        BY DEF IInv, Replied
    <2>2. "facts" \in DOMAIN reads /\ reads["facts"] \notin {Waiting, Lost}
        BY DEF ShownReads, Arrived
    <2>3. PICK wire \in DOMAIN Wires["stock"]["facts"], status \in Statuses["stock"]["facts"] :
             /\ Normal["stock"]["facts"][wire].ok
             /\ reads["facts"] = Got("stock", "facts", wire, status)
        BY <2>2 DEF IInv, ReadOk
    <2>4. "stock" \in DOMAIN Wires /\ "facts" \in DOMAIN Wires["stock"]
        BY <2>1, <2>2, RequestIs DEF IInv
    <2> DEFINE w == Wires["stock"]["facts"][wire]
    <2>5. FactsTyped(w)
        BY <2>3, <2>4, WireAssumption DEF WireTyped
    <2>6. Normal["stock"]["facts"][wire] = K!StockNormalize("facts", w)
        BY <2>3, <2>4 DEF Normal, Normalize
    <2>7. Parts["facts"].data = K!StockNormalize("facts", w).data
        BY <2>2, <2>3, <2>6 DEF Parts, Arrived, Got, PartOf
    <2> HIDE DEF w
    <2>8. K!StockNormalize("facts", w) = K!F!NormalizeFacts(w)
        BY <2>3, <2>6 DEF K!StockNormalize, K!SecReads, K!F!SecNormalize, K!F!SchemaError,
                          K!SchemaError
    <2>9. K!F!NormalizeFacts(w).data \in SUBSET w
        BY <2>3, <2>6, <2>8 DEF K!F!NormalizeFacts, K!F!SchemaError, K!F!Normalized
    <2>. QED BY <2>5, <2>7, <2>8, <2>9, PeriodIsCoherent DEF SecPeriods
<1>. QED BY <1>1, Invariance, PTL

(* Fundamentals of a manifest are shown only of a company a person approved,  *)
(* each value with verified evidence in a report of an official host.        *)
THEOREM ShownIsReviewedHolds == Spec => []ShownIsReviewed
<1>1. IInv => ShownIsReviewed
    <2> SUFFICES ASSUME IInv, Replied, request.service = "stock", "fundamentals" \in reply.shown,
                        "facts" \notin Arrived
                 PROVE  ShownIsReviewed
        BY DEF ShownIsReviewed
    <2> DEFINE d == request.deployment
               entries == d.manifest
               f == K!FundamentalsOf(request.op, d, request.exchange, Parts)
    <2>0. request \in Servable /\ Settled /\ "fundamentals" \notin Arrived /\ DOMAIN Parts = Arrived
        BY StockReads DEF IInv, Replied, Parts
    <2>1. f.kind = "snapshot"
        <3> HIDE DEF f
        <3>1. Unavailable \/ FundamentalsOnly(f) \/ WholePage(f) \/ MarketOnly
            BY StockAnswerIs DEF f
        <3>2. ~Unavailable /\ ~MarketOnly
            BY <2>0 DEF Unavailable, MarketOnly
        <3>. QED BY <2>0, <3>1, <3>2 DEF FundamentalsOnly, WholePage
    <2>2. K!Published(d, request.exchange) # {}
        <3> SUFFICES ASSUME K!Published(d, request.exchange) = {} PROVE FALSE
            OBVIOUS
        <3>1. "facts" \notin DOMAIN Parts
            BY <2>0
        <3>. QED BY <2>1, <3>1 DEF K!FundamentalsOf, K!SecReads
    <2>3. entries # None /\ K!M!Published(entries, request.exchange) # {}
        BY <2>2 DEF K!Published
    <2>4. PICK j \in DOMAIN entries : /\ entries[j].status = "approved"
                                      /\ entries[j].exchange = request.exchange
                                      /\ entries[j].symbol = Asset
        BY <2>3 DEF K!M!Published
    <2> DEFINE e == entries[j]
    <2>5. K!M!EntryOk(e)
        BY <2>0, <2>3 DEF Servable, Started, K!M!ManifestOk
    <2>6. e \in Range(entries)
        BY DEF Range
    <2> HIDE DEF e
    <2>7. e.reviewed
        BY <2>4, <2>5 DEF K!M!EntryOk, K!M!ReviewOk, e
    <2>8. ASSUME NEW i \in DOMAIN e.periods, NEW n \in DOMAIN e.periods[i].facts, e.exchange = "PSX"
          PROVE  /\ e.periods[i].facts[n].verified
                 /\ \E r \in Range(e.reports) :
                       r.id = e.periods[i].facts[n].report /\ r.host \in AllowedHosts
        <3>1. K!M!EvidenceOk(e, e.periods[i], e.periods[i].facts[n])
            BY <2>5, <2>8 DEF K!M!EntryOk, K!M!PsxPeriodOk
        <3>2. PICK k \in DOMAIN e.reports : /\ e.reports[k].id = e.periods[i].facts[n].report
                                            /\ e.status = "approved" => e.periods[i].facts[n].verified
            BY <3>1 DEF K!M!EvidenceOk
        <3>3. e.reports[k].host \in AllowedHosts
            BY <2>5 DEF K!M!EntryOk
        <3>4. e.reports[k] \in Range(e.reports)
            BY DEF Range
        <3>. QED BY <2>4, <3>2, <3>3, <3>4 DEF e
    <2>9. /\ e.symbol = Asset /\ e.exchange = request.exchange /\ e.status = "approved"
        BY <2>4 DEF e
    <2>. QED BY <2>6, <2>7, <2>8, <2>9 DEF ShownIsReviewed
<1>. QED BY <1>1, Invariance, PTL

====
