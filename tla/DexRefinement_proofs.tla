------------------------- MODULE DexRefinement_proofs -------------------------
(***************************************************************************)
(* The unary handlers of the Dex service keep its promise, for any number  *)
(* of requests and of orders: the initial state is one of DexPromise, and  *)
(* every step is one of its steps or changes nothing the promise speaks of.*)
(***************************************************************************)
EXTENDS DexCalls_proofs

Keys == {"get_market_pubkeys", "monitor_queue"}
Simulates == {"cancel_order", "settle_funds", "close_open_orders", "match_orders"}

(* What the promise needs of the calls s that are ahead of a request of    *)
(* kind k with the transactions built so far: none is built twice, only a  *)
(* listing makes vaults, keys take one look-up, a simulation comes last    *)
(* and finds what is simulated, and the market is looked up before         *)
(* anything is built.                                                      *)
Ahead(k, s, built) ==
  /\ \A i \in 1..Len(s) : s[i][1] = "hash" => s[i][2] \notin built
  /\ \A i, j \in 1..Len(s) : s[i][1] = "hash" /\ s[j] = s[i] => i = j
  /\ k # "list_market" => \A i \in 1..Len(s) : s[i][2] = "own"
  /\ k \in Keys => Len(s) = 1 /\ s[1] = <<"market", "own">>
  /\ k \in Simulates =>
       /\ s[Len(s)] = <<"simulate", "own">>
       /\ \A i \in 1..Len(s) : s[i][1] = "simulate" => i = Len(s)
       /\ "own" \in built \/ \E i \in 1..Len(s) : s[i] = <<"hash", "own">>
  /\ \A i \in 1..Len(s) : s[i][1] = "market" => i = 1 /\ built = {}

LEMMA SameCall ==
  ASSUME NEW c \in RpcCalls, NEW d \in RpcCalls, c[1] = d[1], c[2] = d[2]
  PROVE  c = d
BY DEF RpcCalls

LEMMA AfterMarket ==
  ASSUME NEW s \in Seq(RpcCalls), NEW byId \in BOOLEAN
  PROVE  LET r == convert_state(byId) \o s
             n == IF byId THEN 1 ELSE 0
         IN  /\ r \in Seq(RpcCalls) /\ Len(r) = Len(s) + n
             /\ \A i \in 1..Len(r) : \/ i <= n /\ i = 1 /\ r[i] = <<"market", "own">>
                                     \/ i - n \in 1..Len(s) /\ r[i] = s[i - n]
<1> DEFINE m == convert_state(byId)
           n == IF byId THEN 1 ELSE 0
           r == m \o s
<1>1. /\ m \in Seq(RpcCalls) /\ Len(m) = n /\ n \in {0, 1}
      /\ n = 1 => m[1] = <<"market", "own">>
  BY DEF convert_state, Ask, RpcCalls, Rpc, Part
<1> HIDE DEF m, n
<1>2. /\ r \in Seq(RpcCalls) /\ Len(r) = n + Len(s) /\ Len(s) \in Nat
      /\ \A i \in 1..(n + Len(s)) : r[i] = IF i <= n THEN m[i] ELSE s[i - n]
  BY <1>1, Joined
<1> HIDE DEF r
<1>3. ASSUME NEW i \in 1..Len(r)
      PROVE  \/ i <= n /\ i = 1 /\ r[i] = <<"market", "own">>
             \/ i - n \in 1..Len(s) /\ r[i] = s[i - n]
  <2>1. CASE i <= n
    BY <1>1, <1>2, <2>1
  <2>2. CASE ~(i <= n)
    BY <1>1, <1>2, <2>2
  <2> QED
    BY <2>1, <2>2
<1> QED
  BY <1>1, <1>2, <1>3 DEF r, m, n

(* A script without the look-up of its market.                             *)
Tame(k, s) ==
  /\ s \in Seq(RpcCalls) /\ Len(s) \in Nat /\ Len(s) > 0
  /\ \A i \in 1..Len(s) : s[i][1] # "market" /\ s[i][2] = "own"
  /\ \A i, j \in 1..Len(s) : s[i] = <<"hash", "own">> /\ s[j] = s[i] => i = j
  /\ k \in Simulates =>
       /\ s[Len(s)] = <<"simulate", "own">>
       /\ \A i \in 1..Len(s) : s[i][1] = "simulate" => i = Len(s)
       /\ \E i \in 1..Len(s) : s[i] = <<"hash", "own">>

LEMMA TameIsAhead ==
  ASSUME NEW k, k \notin Keys, NEW s, Tame(k, s), NEW byId \in BOOLEAN
  PROVE  Ahead(k, convert_state(byId) \o s, {})
<1> DEFINE r == convert_state(byId) \o s
           n == IF byId THEN 1 ELSE 0
<1>1. /\ r \in Seq(RpcCalls) /\ Len(r) = Len(s) + n /\ n \in {0, 1}
      /\ \A i \in 1..Len(r) : \/ i <= n /\ i = 1 /\ r[i] = <<"market", "own">>
                              \/ i - n \in 1..Len(s) /\ r[i] = s[i - n]
  BY AfterMarket DEF Tame
<1> HIDE DEF r, n
<1>2. \A i \in 1..Len(s) : i + n \in 1..Len(r) /\ r[i + n] = s[i]
  <2>1. ASSUME NEW i \in 1..Len(s)
        PROVE  i + n \in 1..Len(r) /\ ~(i + n <= n) /\ (i + n) - n = i
    BY <1>1 DEF Tame
  <2> QED
    BY <1>1, <2>1
<1>3. \A i \in 1..Len(r) : r[i][2] = "own"
  BY <1>1 DEF Tame
<1>4. \A i \in 1..Len(r) : r[i][1] = "market" => i = 1
  BY <1>1 DEF Tame
<1>5. ASSUME NEW i \in 1..Len(r), NEW j \in 1..Len(r), r[i][1] = "hash", r[j] = r[i]
      PROVE  i = j
  <2>1. r[i] # <<"market", "own">> /\ r[j] # <<"market", "own">>
    BY <1>5
  <2>2. /\ i - n \in 1..Len(s) /\ r[i] = s[i - n]
        /\ j - n \in 1..Len(s) /\ r[j] = s[j - n]
    BY <1>1, <2>1
  <2>3. s[i - n] = <<"hash", "own">>
    <3>1. s[i - n] \in RpcCalls
      BY <2>2, ElementOfSeq DEF Tame
    <3> QED
      BY <1>3, <1>5, <2>2, <3>1 DEF RpcCalls
  <2>4. i - n = j - n
    BY <1>5, <2>2, <2>3 DEF Tame
  <2> QED
    BY <1>1, <2>4
<1>6. k \in Simulates => /\ r[Len(r)] = <<"simulate", "own">>
                         /\ \A i \in 1..Len(r) : r[i][1] = "simulate" => i = Len(r)
                         /\ \E i \in 1..Len(r) : r[i] = <<"hash", "own">>
  <2>1. Len(s) \in 1..Len(s) /\ Len(s) + n = Len(r)
    BY <1>1 DEF Tame
  <2>2. ASSUME k \in Simulates, NEW i \in 1..Len(r), r[i][1] = "simulate"
        PROVE  i = Len(r)
    <3>1. i - n \in 1..Len(s) /\ r[i] = s[i - n]
      BY <1>1, <2>2
    <3>2. i - n = Len(s)
      BY <2>2, <3>1 DEF Tame
    <3> QED
      BY <1>1, <2>1, <3>2
  <2> QED
    BY <1>2, <2>1, <2>2 DEF Tame
<1>7. Ahead(k, r, {})
  BY <1>3, <1>4, <1>5, <1>6 DEF Ahead
<1> QED
  BY <1>7 DEF r

LEMMA OpenOrdersTame ==
  ASSUME NEW unnamed \in BOOLEAN, NEW k, k \notin Simulates
  PROVE  Tame(k, (IF unnamed THEN create_dex_account ELSE <<>>) \o <<Ask("hash")>>)
<1> DEFINE a == IF unnamed THEN create_dex_account ELSE <<>>
           b == <<Ask("hash")>>
           s == a \o b
<1>1. /\ a \in Seq(RpcCalls) /\ Len(a) \in {0, 1}
      /\ \A i \in 1..Len(a) : a[i] = <<"rent", "own">>
  BY DEF create_dex_account, Ask, RpcCalls, Rpc, Part
<1>2. b \in Seq(RpcCalls) /\ Len(b) = 1 /\ b[1] = <<"hash", "own">>
  BY DEF Ask, RpcCalls, Rpc, Part
<1> HIDE DEF a, b
<1>3. /\ s \in Seq(RpcCalls) /\ Len(s) = Len(a) + Len(b)
      /\ \A i \in 1..(Len(a) + Len(b)) : s[i] = IF i <= Len(a) THEN a[i] ELSE b[i - Len(a)]
  BY <1>1, <1>2, Joined
<1> HIDE DEF s
<1>4. Len(s) = Len(a) + 1 /\ Len(s) \in Nat /\ Len(s) > 0
  BY <1>1, <1>2, <1>3
<1>5. \A i \in 1..Len(s) : \/ i <= Len(a) /\ i \in 1..Len(a) /\ s[i] = <<"rent", "own">>
                           \/ ~(i <= Len(a)) /\ i = Len(s) /\ s[i] = <<"hash", "own">>
  <2>1. ASSUME NEW i \in 1..Len(s)
        PROVE  \/ i <= Len(a) /\ i \in 1..Len(a)
               \/ ~(i <= Len(a)) /\ i - Len(a) = 1 /\ i = Len(s)
    BY <1>1, <1>4
  <2> QED
    BY <1>1, <1>2, <1>3, <2>1
<1>6. ASSUME NEW i \in 1..Len(s), NEW j \in 1..Len(s), s[i] = <<"hash", "own">>, s[j] = s[i]
      PROVE  i = j
  BY <1>5, <1>6
<1>7. \A i \in 1..Len(s) : s[i][1] # "market" /\ s[i][2] = "own"
  BY <1>5
<1>8. Tame(k, s)
  BY <1>3, <1>4, <1>6, <1>7 DEF Tame
<1> QED
  BY <1>8 DEF s, a, b

LEMMA ScriptAhead ==
  ASSUME NEW k \in Handler, NEW byId \in BOOLEAN, NEW unnamed \in BOOLEAN,
         Script(k, byId, unnamed) # <<>>
  PROVE  Ahead(k, Script(k, byId, unnamed), {})
<1>1. CASE k = "list_market"
  <2>1. \A i \in 1..12 : i \in {1, 2, 3, 4, 5, 6, 9} \/ i \in {7, 8, 10, 11, 12}
    OBVIOUS
  <2>2. \A i \in 1..12 : /\ list_market[i][1] # "market"
                         /\ list_market[i][1] = "hash" => i \in {7, 10, 12}
    BY <2>1, ListMarketCalls
  <2>3. \A i, j \in {7, 10, 12} : list_market[i] = list_market[j] => i = j
    BY ListMarketCalls
  <2>4. \A i, j \in 1..12 :
          list_market[i][1] = "hash" /\ list_market[j] = list_market[i] => i = j
    BY <2>2, <2>3
  <2>5. Len(list_market) = 12 /\ Script(k, byId, unnamed) = list_market
    BY <1>1, ListMarketCalls DEF Script
  <2> QED
    BY <1>1, <2>2, <2>4, <2>5 DEF Ahead, Keys, Simulates
<1>2. CASE k \in Keys
  <2>1. Script(k, byId, unnamed) = <<Ask("market")>>
    BY <1>2 DEF Script, convert_state, Keys
  <2> QED
    BY <1>2, <2>1 DEF Ahead, Ask, Keys, Simulates
<1>3. CASE k = "consume_events"
  <2>1. Tame(k, consume_events)
    BY <1>3 DEF consume_events, Tame, Ask, RpcCalls, Rpc, Part, Simulates
  <2> QED
    BY <1>3, <2>1, TameIsAhead DEF Script, Keys
<1>4. CASE k \in {"init_open_order", "new_order"}
  BY <1>4, OpenOrdersTame, TameIsAhead
  DEF Script, init_open_orders, place_order, Keys, Simulates
<1>5. CASE k \in Simulates
  <2>1. Tame(k, <<Ask("hash"), Ask("simulate")>>)
    <3> DEFINE s == <<Ask("hash"), Ask("simulate")>>
    <3>1. /\ s \in Seq(RpcCalls) /\ Len(s) = 2
          /\ s[1] = <<"hash", "own">> /\ s[2] = <<"simulate", "own">>
      BY DEF Ask, RpcCalls, Rpc, Part
    <3> HIDE DEF s
    <3>2. \A i \in 1..2 : i = 1 \/ i = 2
      OBVIOUS
    <3>3. Tame(k, s)
      BY <3>1, <3>2 DEF Tame
    <3> QED
      BY <3>3 DEF s
  <2> QED
    BY <1>5, <2>1, TameIsAhead
    DEF Script, Keys, Simulates, cancel_order_by_client_order_id, settle_funds,
        close_open_orders, match_orders
<1> QED
  BY <1>1, <1>2, <1>3, <1>4, <1>5 DEF Handler, Keys, Simulates

(* One call less is ahead, and what it has built more is there.            *)
LEMMA AheadTail ==
  ASSUME NEW k, NEW s \in Seq(RpcCalls), NEW built, Ahead(k, s, built), Len(s) > 1,
         NEW built2, built2 = built \cup (IF s[1][1] = "hash" THEN {s[1][2]} ELSE {})
  PROVE  Ahead(k, Tail(s), built2)
<1> DEFINE r == Tail(s)
<1>1. /\ r \in Seq(RpcCalls) /\ Len(r) = Len(s) - 1 /\ Len(s) \in Nat
      /\ \A i \in 1..Len(r) : i + 1 \in 1..Len(s) /\ i + 1 # 1 /\ r[i] = s[i + 1]
  BY HeadTailProperties
<1> HIDE DEF r
<1>2. \A j \in 1..Len(s) : j = 1 \/ (j - 1 \in 1..Len(r) /\ s[j] = r[j - 1])
  BY <1>1
<1>3. Len(r) \in Nat /\ Len(r) > 0 /\ r[Len(r)] = s[Len(s)] /\ 1 \in 1..Len(s)
  BY <1>1
<1>4. \A i \in 1..Len(r) : r[i][1] = "hash" => r[i][2] \notin built2
  <2>1. SUFFICES ASSUME NEW i \in 1..Len(r), r[i][1] = "hash", r[i][2] \in built2
                 PROVE  FALSE
    OBVIOUS
  <2>2. r[i][2] \notin built
    BY <1>1, <2>1 DEF Ahead
  <2>3. s[1][1] = "hash" /\ r[i][2] = s[1][2]
    BY <2>1, <2>2
  <2>4. s[1] \in RpcCalls /\ r[i] \in RpcCalls
    BY <1>1, <1>3, <2>1, ElementOfSeq
  <2>5. s[i + 1] = s[1]
    <3>1. r[i] = s[1]
      BY <2>1, <2>3, <2>4, SameCall
    <3> QED
      BY <1>1, <3>1
  <2> QED
    BY <1>1, <1>3, <2>3, <2>5 DEF Ahead
<1>5. ASSUME NEW i \in 1..Len(r), NEW j \in 1..Len(r), r[i][1] = "hash", r[j] = r[i]
      PROVE  i = j
  <2>1. i + 1 = j + 1
    BY <1>1, <1>5 DEF Ahead
  <2> QED
    BY <2>1
<1>6. k # "list_market" => \A i \in 1..Len(r) : r[i][2] = "own"
  BY <1>1 DEF Ahead
<1>7. k \notin Keys
  BY DEF Ahead
<1>8. k \in Simulates =>
        /\ r[Len(r)] = <<"simulate", "own">>
        /\ \A i \in 1..Len(r) : r[i][1] = "simulate" => i = Len(r)
        /\ "own" \in built2 \/ \E i \in 1..Len(r) : r[i] = <<"hash", "own">>
  <2> HAVE k \in Simulates
  <2>1. /\ r[Len(r)] = <<"simulate", "own">>
        /\ \A i \in 1..Len(r) : r[i][1] = "simulate" => i = Len(r)
    <3>1. ASSUME NEW i \in 1..Len(r), r[i][1] = "simulate" PROVE i = Len(r)
      <4>1. i + 1 = Len(s)
        BY <1>1, <3>1 DEF Ahead
      <4> QED
        BY <1>1, <4>1
    <3> QED
      BY <1>3, <3>1 DEF Ahead
  <2>2. CASE "own" \in built
    BY <2>1, <2>2
  <2>3. ASSUME NEW i \in 1..Len(s), s[i] = <<"hash", "own">>
        PROVE  "own" \in built2 \/ \E j \in 1..Len(r) : r[j] = <<"hash", "own">>
    <3>1. CASE i = 1
      <4>1. s[1][1] = "hash" /\ s[1][2] = "own"
        BY <2>3, <3>1
      <4> QED
        BY <4>1
    <3>2. CASE i # 1
      BY <1>2, <2>3, <3>2
    <3> QED
      BY <3>1, <3>2
  <2> QED
    BY <2>1, <2>2, <2>3 DEF Ahead
<1>9. \A i \in 1..Len(r) : r[i][1] # "market"
  BY <1>1 DEF Ahead
<1>10. Ahead(k, r, built2)
  BY <1>4, <1>5, <1>6, <1>7, <1>8, <1>9 DEF Ahead
<1> QED
  BY <1>10 DEF r
-------------------------------------------------------------------------------
(* The transactions of a request that have been built.                     *)
PartsBuilt(t) == {p \in Part : ledger[<<t, p>>] # "unbuilt"}

Foreseen(t) ==
  /\ pc[t] = "idle" => PartsBuilt(t) = {}
  /\ kind[t] \in HandsOut /\ reply[t] # "ok" => "own" \notin PartsBuilt(t)
  /\ pc[t] \in Awaiting =>
       kind[t] \in Handler /\ Ahead(kind[t], calls[t], PartsBuilt(t))

AheadInv == DexInv /\ \A t \in Task : Foreseen(t)

LEMMA AheadInit == Init => AheadInv
  BY DexInit, DexTxAssumption DEF Init, AheadInv, Foreseen, PartsBuilt, Awaiting

(* Nothing is built by handing over, by the cluster or for others.         *)
LEMMA NothingBuiltElsewhere ==
  ASSUME DexType, NEW u \in Task,
         \/ UNCHANGED ledgerVars
         \/ Cluster
         \/ \E x \in Tx : ledger' = Submitted(x)
         \/ \E t \in Task \ {u}, p \in Part : ledger' = Built(<<t, p>>)
  PROVE  PartsBuilt(u)' = PartsBuilt(u)
<1>1. \A t \in Task, p \in Part : <<t, p>> \in Tx
  BY DexTxAssumption
<1>2. SUFFICES \A y \in {<<u, p>> : p \in Part} : (ledger'[y] = "unbuilt") = (ledger[y] = "unbuilt")
  BY DEF PartsBuilt
<1>3. ledger \in [Tx -> Stage] /\ \A y \in {<<u, p>> : p \in Part} : y \in Tx
  BY <1>1 DEF DexType
<1>4. CASE UNCHANGED ledgerVars \/ Cluster
  BY <1>3, <1>4 DEF ledgerVars, Cluster, NextBlockhash, Confirm, Finalize, Expire
<1>5. ASSUME NEW x \in Tx, ledger' = Submitted(x)
      PROVE  \A y \in {<<u, p>> : p \in Part} : (ledger'[y] = "unbuilt") = (ledger[y] = "unbuilt")
  BY <1>3, <1>5 DEF Submitted
<1>6. ASSUME NEW t \in Task \ {u}, NEW p \in Part, ledger' = Built(<<t, p>>)
      PROVE  \A y \in {<<u, q>> : q \in Part} : (ledger'[y] = "unbuilt") = (ledger[y] = "unbuilt")
  <2>1. \A y \in {<<u, q>> : q \in Part} : y # <<t, p>>
    OBVIOUS
  <2> QED
    BY <1>3, <1>6, <2>1 DEF Built
<1> QED
  BY <1>4, <1>5, <1>6

(* What a request hands out without a simulation is built last.            *)
LEMMA OwnIsBuiltLast ==
  ASSUME NEW k \in HandsOut, NEW s, NEW made, NEW checked, Plan(k, s, made, checked),
         NEW built, Ahead(k, s, built)
  PROVE  "own" \notin built /\ (s[1] = <<"hash", "own">> => Len(s) = 1)
<1>1. /\ 1 \in 1..Len(s) /\ Len(s) \in 1..Len(s)
      /\ s[Len(s)] = <<"hash", "own">>
  BY DEF Plan
<1>2. s[Len(s)][1] = "hash" /\ s[Len(s)][2] = "own"
  BY <1>1
<1> QED
  BY <1>1, <1>2 DEF Ahead

LEMMA ForeseenAlone ==
  ASSUME NEW u \in Task, Foreseen(u), Alone(u), PartsBuilt(u)' = PartsBuilt(u)
  PROVE  Foreseen(u)'
BY DEF Foreseen, Alone

(* What the answer of an RPC builds.                                       *)
LEMMA PartsOfAnswer ==
  ASSUME AheadInv, NEW t \in Task, pc[t] = "call", Receive(t)
  PROVE  /\ PartsBuilt(t)' = PartsBuilt(t) \cup (IF Op(t) = "hash" THEN {Call(t)[2]} ELSE {})
         /\ \A u \in Task \ {t} : PartsBuilt(u)' = PartsBuilt(u)
         /\ Op(t) = "hash" => ledger[CurrentTx(t)] = "unbuilt"
<1>1. /\ DexType /\ DexInv /\ Ahead(kind[t], calls[t], PartsBuilt(t))
      /\ CurrentTx(t) = <<t, Call(t)[2]>> /\ Call(t)[2] \in Part
      /\ 1 \in 1..Len(calls[t]) /\ calls[t][1] = <<Op(t), Call(t)[2]>>
  BY AtCall DEF AheadInv, DexInv, Foreseen, Awaiting, CurrentTx
<1>2. CASE Op(t) = "hash"
  <2>1. ledger' = Built(<<t, Call(t)[2]>>)
    BY <1>1, <1>2 DEF Receive
  <2>2. Call(t)[2] \notin PartsBuilt(t)
    BY <1>1, <1>2 DEF Ahead
  <2>3. ledger[<<t, Call(t)[2]>>] = "unbuilt"
    BY <1>1, <2>2 DEF PartsBuilt
  <2>4. \A p \in Part : <<t, p>> \in Tx
    BY DexTxAssumption
  <2>5. PartsBuilt(t)' = PartsBuilt(t) \cup {Call(t)[2]}
    <3>1. \A p \in Part : ledger'[<<t, p>>] = IF p = Call(t)[2] THEN "new" ELSE ledger[<<t, p>>]
      BY <1>1, <2>1, <2>3, <2>4 DEF Built, DexType
    <3> QED
      BY <1>1, <3>1 DEF PartsBuilt
  <2> QED
    BY <1>1, <1>2, <2>1, <2>3, <2>5, NothingBuiltElsewhere
<1>3. CASE Op(t) # "hash"
  <2>1. UNCHANGED ledgerVars
    BY <1>3 DEF Receive
  <2> QED
    BY <1>1, <1>3, <2>1, NothingBuiltElsewhere
<1> QED
  BY <1>2, <1>3

LEMMA AheadNext == AheadInv /\ [Next]_vars => AheadInv'
<1> SUFFICES ASSUME AheadInv, [Next]_vars PROVE AheadInv'
  OBVIOUS
<1>1. DexInv /\ DexType /\ DexInv'
  BY DexNext DEF AheadInv, DexInv
<1> DEFINE Arrives(t) == \E k \in Procedure : \/ Refuse(t, k) \/ Accept(t, k)
                                               \/ AnswerAtOnce(t, k)
<1>2. ASSUME NEW t \in Task, NEW u \in Task \ {t},
             Arrives(t) \/ TaskStep(t) \/ Cancel(t) \/ ClientSubmits(t)
      PROVE  Alone(u)
  BY <1>1, <1>2
  DEF Refuse, Accept, AnswerAtOnce, TaskStep, Lock, ReadBlockhash, Return, Succeed, Fail,
      RefuseLate, BadAccount, Simulated, Cancel, ClientSubmits, Finish, Take, Alone, DexType,
      orderVars
<1>3. ASSUME NEW t \in Task, UNCHANGED ledgerVars, pc'[t] = "done",
             pc[t] = "idle" \/ (pc[t] # "done" /\ kind' = kind)
      PROVE  Foreseen(t)' /\ \A u \in Task \ {t} : PartsBuilt(u)' = PartsBuilt(u)
  <2>1. \A u \in Task : PartsBuilt(u)' = PartsBuilt(u)
    BY <1>1, <1>3, NothingBuiltElsewhere
  <2>2. reply[t] = "none" \/ pc[t] = "done"
    BY <1>1 DEF DexInv, Good
  <2>3. kind'[t] \in HandsOut => "own" \notin PartsBuilt(t)
    BY <1>3, <2>2 DEF AheadInv, Foreseen
  <2> QED
    BY <1>3, <2>1, <2>3 DEF Foreseen, Awaiting
<1>4. ASSUME NEW t \in Task,
             \/ \E k \in Procedure : Refuse(t, k) \/ AnswerAtOnce(t, k)
             \/ Fail(t) \/ RefuseLate(t) \/ BadAccount(t)
             \/ Cancel(t) \/ \E err \in {"None", "Some"} : Simulated(t, err)
      PROVE  Foreseen(t)' /\ \A u \in Task \ {t} : PartsBuilt(u)' = PartsBuilt(u)
  <2>1. UNCHANGED ledgerVars /\ pc' = [pc EXCEPT ![t] = "done"]
    BY <1>4 DEF Refuse, AnswerAtOnce, Fail, RefuseLate, BadAccount, Cancel, Simulated, Finish
  <2>2. pc'[t] = "done"
    BY <1>1, <2>1 DEF DexType
  <2>3. pc[t] = "idle" \/ (pc[t] # "done" /\ kind' = kind)
    BY <1>4
    DEF Refuse, AnswerAtOnce, Fail, RefuseLate, BadAccount, Cancel, Simulated, RpcWait, RpcCall
  <2> QED
    BY <1>3, <2>1, <2>2, <2>3
<1>5. ASSUME NEW t \in Task, NEW k \in Procedure, Accept(t, k)
      PROVE  Foreseen(t)' /\ \A u \in Task \ {t} : PartsBuilt(u)' = PartsBuilt(u)
  <2>1. PICK byId \in BOOLEAN, unnamed \in BOOLEAN :
          /\ Script(k, byId, unnamed) # <<>>
          /\ calls' = [calls EXCEPT ![t] = Script(k, byId, unnamed)]
    BY <1>5 DEF Accept
  <2>2. /\ kind'[t] = k /\ pc'[t] = "lock" /\ calls'[t] = Script(k, byId, unnamed)
        /\ pc[t] = "idle" /\ UNCHANGED ledgerVars
    BY <1>1, <1>5, <2>1 DEF Accept, DexType
  <2>3. \A u \in Task : PartsBuilt(u)' = PartsBuilt(u)
    BY <1>1, <2>2, NothingBuiltElsewhere
  <2>4. PartsBuilt(t) = {}
    BY <2>2 DEF AheadInv, Foreseen
  <2>5. Ahead(k, Script(k, byId, unnamed), {})
    BY <2>1, ScriptAhead, HandlerAssumption
  <2> QED
    BY <2>2, <2>3, <2>4, <2>5, HandlerAssumption DEF Foreseen
<1>6. ASSUME NEW t \in Task, Lock(t)
      PROVE  Foreseen(t)' /\ \A u \in Task \ {t} : PartsBuilt(u)' = PartsBuilt(u)
  <2>1. /\ pc[t] = "lock" /\ pc'[t] = "call" /\ UNCHANGED <<kind, reply, calls, fresh>>
        /\ ledger' = ledger \/ ledger' = Submitted(CurrentTx(t))
    BY <1>1, <1>6 DEF Lock, Take, DexType
  <2>2. CurrentTx(t) \in Tx
    BY <1>1, <2>1, AtCall DEF Awaiting
  <2>3. \A u \in Task : PartsBuilt(u)' = PartsBuilt(u)
    BY <1>1, <2>1, <2>2, NothingBuiltElsewhere DEF ledgerVars
  <2> QED
    BY <2>1, <2>3 DEF AheadInv, Foreseen, Awaiting
<1>7. ASSUME NEW t \in Task, Return(t)
      PROVE  Foreseen(t)' /\ \A u \in Task \ {t} : PartsBuilt(u)' = PartsBuilt(u)
  <2>1. /\ pc[t] = "call" /\ pc'[t] = "lock" /\ kind' = kind /\ Receive(t)
        /\ Len(calls[t]) > 1 /\ calls'[t] = Tail(calls[t])
    BY <1>1, <1>7 DEF Return, DexType
  <2>2. /\ calls[t] \in Seq(RpcCalls) /\ calls[t][1] = <<Op(t), Call(t)[2]>>
        /\ Ahead(kind[t], calls[t], PartsBuilt(t))
    BY <1>1, <2>1, AtCall DEF Awaiting, Plan, AheadInv, Foreseen
  <2>3. /\ PartsBuilt(t)' = PartsBuilt(t) \cup (IF Op(t) = "hash" THEN {Call(t)[2]} ELSE {})
        /\ \A u \in Task \ {t} : PartsBuilt(u)' = PartsBuilt(u)
    BY <2>1, PartsOfAnswer
  <2>4. ASSUME NEW k, k = kind[t], NEW s, s = calls[t], NEW built, built = PartsBuilt(t),
               NEW built2, built2 = PartsBuilt(t)'
        PROVE  Ahead(k, Tail(s), built2)
    <3>1. /\ s \in Seq(RpcCalls) /\ Ahead(k, s, built) /\ Len(s) > 1
          /\ built2 = built \cup (IF s[1][1] = "hash" THEN {s[1][2]} ELSE {})
      BY <2>1, <2>2, <2>3, <2>4
    <3> QED
      BY <3>1, AheadTail
  <2>5. Ahead(kind[t], Tail(calls[t]), PartsBuilt(t)')
    BY <2>4
  <2>6. pc'[t] = "lock" /\ kind'[t] = kind[t] /\ calls'[t] = Tail(calls[t])
    BY <2>1
  <2>7. kind[t] \in HandsOut => "own" \notin PartsBuilt(t)'
    <3>1. Plan(kind[t], Tail(calls[t]), Made(t)', OrderConverts(kind[t], asked[t])')
      BY <1>1, <2>6 DEF DexInv, Good, Awaiting
    <3> QED
      BY <2>5, <3>1, OwnIsBuiltLast
  <2> QED
    BY <2>1, <2>3, <2>5, <2>6, <2>7 DEF Foreseen, AheadInv, Awaiting
<1>8. ASSUME NEW t \in Task, Succeed(t)
      PROVE  Foreseen(t)' /\ \A u \in Task \ {t} : PartsBuilt(u)' = PartsBuilt(u)
  <2>1. pc[t] = "call" /\ pc'[t] = "done" /\ reply'[t] = "ok" /\ Receive(t)
    BY <1>1, <1>8 DEF Succeed, Finish, DexType
  <2> QED
    BY <2>1, PartsOfAnswer DEF Foreseen, Awaiting
<1>9. ASSUME NEW t \in Task, ClientSubmits(t)
      PROVE  Foreseen(t)' /\ \A u \in Task \ {t} : PartsBuilt(u)' = PartsBuilt(u)
  <2>1. /\ pc[t] = "done" /\ UNCHANGED <<kind, pc, reply>>
        /\ ledger' = Submitted(OwnTx(t)) /\ OwnTx(t) \in Tx
    BY <1>1, <1>9, DexTxAssumption DEF ClientSubmits, DexInv, Good, OwnTx, Part
  <2> QED
    BY <1>1, <2>1, NothingBuiltElsewhere DEF Foreseen, Awaiting, AheadInv
<1>10. ASSUME NEW t \in Task, ReadBlockhash(t)
       PROVE  Foreseen(t)' /\ \A u \in Task \ {t} : PartsBuilt(u)' = PartsBuilt(u)
  <2>1. UNCHANGED <<kind, pc, reply, calls>> /\ UNCHANGED ledgerVars
    BY <1>10 DEF ReadBlockhash
  <2> QED
    BY <1>1, <2>1, NothingBuiltElsewhere DEF Foreseen, AheadInv
<1>11. ASSUME NEW t \in Task, Arrives(t) \/ TaskStep(t) \/ Cancel(t) \/ ClientSubmits(t)
       PROVE  AheadInv'
  <2>1. Foreseen(t)' /\ \A u \in Task \ {t} : PartsBuilt(u)' = PartsBuilt(u)
    BY <1>4, <1>5, <1>6, <1>7, <1>8, <1>9, <1>10, <1>11 DEF TaskStep
  <2>2. ASSUME NEW u \in Task \ {t} PROVE Foreseen(u)'
    BY <1>2, <1>11, <2>1, ForeseenAlone DEF AheadInv
  <2> QED
    BY <1>1, <2>1, <2>2 DEF AheadInv
<1>12. ASSUME UNCHANGED <<kind, pc, reply, calls>>, UNCHANGED ledgerVars \/ Cluster
       PROVE  AheadInv'
  <2>1. \A u \in Task : PartsBuilt(u)' = PartsBuilt(u)
    BY <1>1, <1>12, NothingBuiltElsewhere
  <2> QED
    BY <1>1, <1>12, <2>1 DEF AheadInv, Foreseen
<1>13. CASE ClusterStep \/ UNCHANGED vars
  BY <1>12, <1>13 DEF ClusterStep, vars, ledgerVars
<1> QED
  BY <1>11, <1>13 DEF Next, Terminated

LEMMA AheadInvariant == Safety => []AheadInv
  BY AheadInit, AheadNext, PTL DEF Safety

(* A handler that hands its transaction out without a simulation asks for  *)
(* the blockhash when nothing else is left to wait for: no account to be   *)
(* made, no vault to be confirmed, no other request with the RPC client.   *)
(* Whatever the node and the cluster do, the time from the blockhash to    *)
(* the client is that of one answer.                                       *)
THEOREM BlockhashComesLast == Safety => []BlockhashIsAskedForLast
<1>1. ASSUME AheadInv, ReadInv, RpcGuardSpansOneCall,
             NEW t \in Task, kind[t] \in HandsOut, BlockhashKnown(t)
      PROVE  /\ kind[t] = "list_market" => Landed(<<t, "coin">>) /\ Landed(<<t, "pc">>)
             /\ Live(t) => Holds(t, "rpc") /\ Len(calls[t]) = 1
  <2>1. DexInv /\ DexType
    BY <1>1 DEF AheadInv, DexInv
  <2>2. CASE Live(t)
    <3>1. /\ pc[t] \in Awaiting /\ reply[t] = "none"
          /\ Plan(kind[t], calls[t], Made(t), OrderConverts(kind[t], asked[t]))
          /\ Ahead(kind[t], calls[t], PartsBuilt(t))
          /\ 1 \in 1..Len(calls[t]) /\ calls[t][1] = <<Op(t), Call(t)[2]>>
      BY <1>1, <2>1, <2>2, AtCall DEF Live, DexType, Foreseen, AheadInv
    <3>2. ledger[OwnTx(t)] = "unbuilt"
      BY <1>1, <3>1 DEF AheadInv, Foreseen, PartsBuilt, OwnTx, Part
    <3>3. read[t] # "none" /\ Call(t)[2] = "own"
      BY <1>1, <3>2 DEF BlockhashKnown, CurrentTx, OwnTx
    <3>4. pc[t] = "call" /\ calls[t][1] = <<"hash", "own">>
      BY <1>1, <3>1, <3>3 DEF ReadInv
    <3>5. Len(calls[t]) = 1
      BY <1>1, <3>1, <3>4, OwnIsBuiltLast
    <3>6. Holds(t, "rpc")
      BY <1>1, <3>4 DEF RpcGuardSpansOneCall
    <3>7. ASSUME kind[t] = "list_market", NEW v \in Vault PROVE Landed(<<t, v>>)
      <4>1. v \in Made(t) \/ \E j \in 1..1 : calls[t][j] = <<"send", v>>
        BY <3>1, <3>5, <3>7 DEF Plan
      <4>2. v \in Made(t)
        BY <3>4, <4>1
      <4> QED
        BY <4>2 DEF Made
    <3> QED
      BY <3>5, <3>6, <3>7 DEF Vault
  <2>3. CASE ~Live(t)
    <3>1. ledger[OwnTx(t)] # "unbuilt"
      BY <1>1, <2>3 DEF BlockhashKnown
    <3>2. reply[t] = "ok"
      BY <1>1, <3>1 DEF AheadInv, Foreseen, PartsBuilt, OwnTx, Part
    <3> QED
      BY <2>1, <2>3, <3>2 DEF DexInv, Good, VaultsInOrder
  <2> QED
    BY <2>2, <2>3
<1>2. AheadInv /\ ReadInv /\ RpcGuardSpansOneCall => BlockhashIsAskedForLast
  BY <1>1 DEF BlockhashIsAskedForLast, HandsOut
<1> QED
  BY <1>2, AheadInvariant, ReadInvariant, GuardsSpanCalls, PTL
-------------------------------------------------------------------------------
(* The variables of the promise, as the handlers implement them.           *)
Wants(t) == CASE kind[t] = "none" -> "nothing"
              [] kind[t] \in {"get_market_pubkeys", "monitor_queue"} -> "keys"
              [] kind[t] = "list_market" -> "listing"
              [] OTHER -> "transaction"
Phase(t) == IF pc[t] = "idle" THEN "idle" ELSE IF pc[t] = "done" THEN "closed" ELSE "open"

wanted == [t \in Task |-> Wants(t)]
phases == [t \in Task |-> Phase(t)]

PromisedStep == [Promise!Next]_(Promise!promiseVars)

LEMMA PromisedStutter ==
  ASSUME wanted' = wanted, phases' = phases, reply' = reply, UNCHANGED ledgerVars
  PROVE  PromisedStep
<1>1. Promise!promiseVars' = Promise!promiseVars
  BY DEF Promise!promiseVars, Promise!ledgerVars, ledgerVars, wanted, phases, Wants, Phase
<1> QED
  BY <1>1 DEF PromisedStep

LEMMA PromisedInit == Init => Promise!Init
  BY DEF Init, Promise!Init

(* The actions of the promise, in terms of the handlers' variables.        *)
LEMMA PromisedOpen ==
  ASSUME NEW t \in Task, phases[t] = "idle", phases' = [phases EXCEPT ![t] = "open"],
         NEW w \in {"keys", "transaction", "listing"}, wanted' = [wanted EXCEPT ![t] = w],
         UNCHANGED <<reply, ledgerVars>>
  PROVE  Promise!Open(t)
BY DEF Promise!Open, Promise!ledgerVars, ledgerVars, wanted, phases, Wants, Phase

LEMMA PromisedCloseAtOnce ==
  ASSUME NEW t \in Task, phases[t] = "idle", phases' = [phases EXCEPT ![t] = "closed"],
         NEW w \in {"keys", "transaction", "listing"}, wanted' = [wanted EXCEPT ![t] = w],
         NEW r \in Promise!Error \cup {"ok"}, r = "ok" => w = "keys",
         reply' = [reply EXCEPT ![t] = r], UNCHANGED ledgerVars
  PROVE  Promise!CloseAtOnce(t)
BY DEF Promise!CloseAtOnce, Promise!ledgerVars, ledgerVars, wanted, phases, Wants, Phase

LEMMA PromisedVault ==
  ASSUME NEW t \in Task, NEW v \in Vault, phases[t] = "open", wanted[t] = "listing",
         v = "pc" => Landed(<<t, "coin">>), UNCHANGED <<wanted, phases, reply>>,
         \/ ledger[<<t, v>>] = "unbuilt" /\ ledger' = Built(<<t, v>>)
              /\ fresh' \in {fresh, fresh \cup {<<t, v>>}}
         \/ ledger' = Submitted(<<t, v>>) /\ UNCHANGED fresh
  PROVE  Promise!MakeVault(t, v) /\ v \in Promise!Vaults
BY DEF Promise!MakeVault, Promise!Vaults, Promise!Make, Promise!Built, Promise!Submitted,
       Promise!Landed, Built, Submitted, Landed, Vault, wanted, phases, Wants, Phase

LEMMA PromisedSign ==
  ASSUME NEW t \in Task, wanted[t] \in {"transaction", "listing"},
         wanted[t] = "listing" => \A v \in Vault : Landed(<<t, v>>),
         ledger[OwnTx(t)] = "unbuilt", ledger' = Built(OwnTx(t)),
         fresh' \in {fresh, fresh \cup {OwnTx(t)}}
  PROVE  Promise!Sign(t)
BY DEF Promise!Sign, Promise!Make, Promise!Own, Promise!VaultsExist, Promise!Vaults,
       Promise!Built, Promise!Landed, Built, Landed, OwnTx, Vault, wanted, Wants

LEMMA PromisedSignFirst ==
  ASSUME NEW t \in Task, phases[t] = "open", Promise!Sign(t),
         UNCHANGED <<wanted, phases, reply>>
  PROVE  Promise!SignFirst(t)
BY DEF Promise!SignFirst, wanted, phases, Wants, Phase

LEMMA PromisedLastSign ==
  ASSUME NEW t \in Task, phases[t] = "open", phases' = [phases EXCEPT ![t] = "closed"],
         Promise!Sign(t), reply' = [reply EXCEPT ![t] = "ok"], wanted' = wanted
  PROVE  Promise!Close(t)
BY DEF Promise!Close, wanted, phases, Wants, Phase

LEMMA PromisedClose ==
  ASSUME NEW t \in Task, phases[t] = "open", phases' = [phases EXCEPT ![t] = "closed"],
         NEW r \in Promise!Error \cup {"ok"}, reply' = [reply EXCEPT ![t] = r],
         r = "ok" => wanted[t] = "keys" \/ ledger[OwnTx(t)] # "unbuilt",
         r = "invalid" => PartsBuilt(t) = {},
         wanted' = wanted, UNCHANGED ledgerVars
  PROVE  Promise!Close(t)
<1>1. r = "invalid" => Promise!Untouched(t)
  BY DEF Promise!Untouched, Promise!Vaults, PartsBuilt, Part
<1> QED
  BY <1>1 DEF Promise!Close, Promise!Own, Promise!ledgerVars, OwnTx, ledgerVars,
              wanted, phases, Wants, Phase

LEMMA PromisedSubmit ==
  ASSUME NEW t \in Task, reply[t] = "ok", ledger' = Submitted(OwnTx(t)),
         UNCHANGED <<wanted, phases, reply, fresh>>
  PROVE  Promise!ClientSubmits(t)
BY DEF Promise!ClientSubmits, Promise!Own, Promise!Submitted, OwnTx, Submitted,
       wanted, phases, Wants, Phase
-------------------------------------------------------------------------------
(* Each step of a handler is one of those, or nothing to the promise.      *)
Others(t) == \A u \in Task \ {t} : kind'[u] = kind[u] /\ pc'[u] = pc[u]

LEMMA WantsOf ==
  ASSUME NEW t \in Task
  PROVE  /\ kind[t] \in Keys => Wants(t) = "keys"
         /\ kind[t] = "list_market" => Wants(t) = "listing"
         /\ kind[t] \in Handler \ (Keys \cup {"list_market"}) => Wants(t) = "transaction"
<1>1. CASE kind[t] \in Keys
  BY <1>1 DEF Wants, Keys
<1>2. CASE kind[t] = "list_market"
  BY <1>2 DEF Wants, Keys
<1>3. CASE kind[t] \in Handler \ (Keys \cup {"list_market"})
  <2>1. kind[t] # "none" /\ kind[t] # "list_market" /\ kind[t] \notin Keys
    BY <1>3 DEF Handler
  <2> QED
    BY <1>3, <2>1 DEF Wants, Keys
<1> QED
  BY <1>1, <1>2, <1>3 DEF Keys, Handler

LEMMA Framed ==
  ASSUME NEW t \in Task, Others(t)
  PROVE  /\ wanted[t] = Wants(t) /\ wanted' = [wanted EXCEPT ![t] = Wants(t)']
         /\ phases[t] = Phase(t) /\ phases' = [phases EXCEPT ![t] = Phase(t)']
<1>1. \A u \in Task \ {t} : Wants(u)' = Wants(u) /\ Phase(u)' = Phase(u)
  BY DEF Others, Wants, Phase
<1> HIDE DEF Wants, Phase
<1> QED
  BY <1>1 DEF wanted, phases

LEMMA ArrivalPromised ==
  ASSUME AheadInv, NEW t \in Task, NEW k \in Procedure,
         Refuse(t, k) \/ Accept(t, k) \/ AnswerAtOnce(t, k)
  PROVE  Promise!Open(t) \/ Promise!CloseAtOnce(t)
<1>1. /\ pc[t] = "idle" /\ kind' = [kind EXCEPT ![t] = k] /\ UNCHANGED ledgerVars
      /\ DexType /\ k \in Handler
  BY HandlerAssumption DEF Refuse, Accept, AnswerAtOnce, AheadInv, DexInv
<1>2. Others(t) /\ kind'[t] = k
  BY <1>1 DEF Refuse, Accept, AnswerAtOnce, Finish, Others, DexType
<1>3. phases[t] = "idle"
  BY <1>1, <1>2, Framed DEF Phase
<1>4. PICK w \in {"keys", "transaction", "listing"} :
        wanted' = [wanted EXCEPT ![t] = w] /\ (k = "monitor_queue" => w = "keys")
  <2>1. Wants(t)' \in {"keys", "transaction", "listing"}
        /\ (k = "monitor_queue" => Wants(t)' = "keys")
    <3>1. CASE k \in Keys
      BY <1>2, <3>1 DEF Wants, Keys
    <3>2. CASE k = "list_market"
      BY <1>2, <3>2 DEF Wants
    <3>3. CASE k \in Handler \ (Keys \cup {"list_market"})
      <4>1. k # "none" /\ k # "list_market" /\ k \notin Keys /\ k # "monitor_queue"
        BY <3>3 DEF Handler, Keys
      <4> QED
        BY <1>2, <4>1 DEF Wants, Keys
    <3> QED
      BY <1>1, <3>1, <3>2, <3>3 DEF Keys
  <2> HIDE DEF Wants
  <2> QED
    BY <1>2, <2>1, Framed
<1>5. CASE Accept(t, k)
  <2>1. pc'[t] = "lock" /\ reply' = reply
    BY <1>1, <1>5 DEF Accept, DexType
  <2>2. phases' = [phases EXCEPT ![t] = "open"]
    BY <1>2, <2>1, Framed DEF Phase
  <2> QED
    BY <1>1, <1>3, <1>4, <2>1, <2>2, PromisedOpen
<1>6. CASE Refuse(t, k) \/ AnswerAtOnce(t, k)
  <2>1. PICK r \in Promise!Error \cup {"ok"} :
          Finish(t, r) /\ (r = "ok" => k = "monitor_queue")
    BY <1>6 DEF Refuse, AnswerAtOnce, EarlyFault, LateFault, Promise!Error
  <2>2. pc'[t] = "done" /\ reply' = [reply EXCEPT ![t] = r]
    BY <1>1, <2>1 DEF Finish, DexType
  <2>3. phases' = [phases EXCEPT ![t] = "closed"]
    BY <1>2, <2>2, Framed DEF Phase
  <2> QED
    BY <1>1, <1>3, <1>4, <2>1, <2>2, <2>3, PromisedCloseAtOnce
<1> QED
  BY <1>5, <1>6

(* What is common to the steps of a handler that has begun.                *)
LEMMA Working ==
  ASSUME AheadInv, NEW t \in Task, TaskStep(t) \/ Cancel(t)
  PROVE  /\ DexInv /\ DexType /\ pc[t] \in Awaiting /\ kind' = kind /\ Others(t)
         /\ kind[t] \in Handler
         /\ Plan(kind[t], calls[t], Made(t), OrderConverts(kind[t], asked[t]))
         /\ Ahead(kind[t], calls[t], PartsBuilt(t))
         /\ 1 \in 1..Len(calls[t]) /\ calls[t][1] = <<Op(t), Call(t)[2]>>
         /\ Call(t)[2] \in Part /\ Op(t) \in Rpc
         /\ phases[t] = "open" /\ wanted[t] = Wants(t) /\ wanted' = wanted
<1>1. DexInv /\ DexType
  BY DEF AheadInv, DexInv
<1>2. pc[t] \in Awaiting /\ kind' = kind
  BY <1>1
  DEF TaskStep, Lock, ReadBlockhash, Return, Succeed, Fail, RefuseLate, BadAccount, Simulated,
      Cancel, Awaiting, RpcWait, RpcCall, DexType
<1>3. Others(t)
  BY <1>1, <1>2
  DEF TaskStep, Lock, ReadBlockhash, Return, Succeed, Fail, RefuseLate, BadAccount, Simulated,
      Cancel, Finish, Take, Others, DexType
<1>4. /\ Plan(kind[t], calls[t], Made(t), OrderConverts(kind[t], asked[t]))
      /\ 1 \in 1..Len(calls[t]) /\ calls[t][1] = <<Op(t), Call(t)[2]>>
      /\ Call(t)[2] \in Part /\ Op(t) \in Rpc
  BY <1>1, <1>2, AtCall
<1>5. Ahead(kind[t], calls[t], PartsBuilt(t))
  BY <1>2 DEF AheadInv, Foreseen
<1>6. kind[t] \in Handler
  BY <1>2 DEF AheadInv, Foreseen
<1>7. phases[t] = "open" /\ wanted[t] = Wants(t)
  BY <1>2, <1>3, Framed DEF Phase, Awaiting
<1>8. wanted' = wanted
  BY <1>2 DEF wanted, Wants
<1> QED
  BY <1>1, <1>2, <1>3, <1>4, <1>5, <1>6, <1>7, <1>8

(* A handler that ends without a good answer: an error, and "invalid" only *)
(* while the market is being looked up.                                    *)
LEMMA FailurePromised ==
  ASSUME AheadInv, NEW t \in Task, Fail(t) \/ RefuseLate(t) \/ BadAccount(t) \/ Cancel(t)
  PROVE  Promise!Close(t)
<1>1. /\ DexType /\ pc[t] \in Awaiting /\ Others(t) /\ phases[t] = "open" /\ wanted' = wanted
      /\ Ahead(kind[t], calls[t], PartsBuilt(t))
      /\ 1 \in 1..Len(calls[t]) /\ calls[t][1] = <<Op(t), Call(t)[2]>>
  BY Working DEF TaskStep
<1>2. PICK r \in Promise!Error : Finish(t, r) /\ (r = "invalid" => Op(t) = "market")
  BY DEF Fail, RefuseLate, BadAccount, Cancel, FailureStatus, LateFault, Promise!Error
<1>3. UNCHANGED ledgerVars
  BY DEF Fail, RefuseLate, BadAccount, Cancel
<1>4. r = "invalid" => PartsBuilt(t) = {}
  BY <1>1, <1>2 DEF Ahead
<1>5. pc'[t] = "done" /\ reply' = [reply EXCEPT ![t] = r]
  BY <1>1, <1>2 DEF Finish, DexType
<1>6. phases' = [phases EXCEPT ![t] = "closed"]
  BY <1>1, <1>5, Framed DEF Phase
<1>7. r # "ok"
  BY DEF Promise!Error
<1> QED
  BY <1>1, <1>3, <1>4, <1>5, <1>6, <1>7, PromisedClose

LEMMA SimulatedPromised ==
  ASSUME AheadInv, NEW t \in Task, NEW err \in {"None", "Some"}, Simulated(t, err)
  PROVE  Promise!Close(t)
<1>1. /\ DexType /\ pc[t] \in Awaiting /\ Others(t) /\ phases[t] = "open" /\ wanted' = wanted
      /\ kind[t] \in Handler
      /\ Plan(kind[t], calls[t], Made(t), OrderConverts(kind[t], asked[t]))
      /\ Ahead(kind[t], calls[t], PartsBuilt(t))
      /\ 1 \in 1..Len(calls[t]) /\ calls[t][1] = <<Op(t), Call(t)[2]>>
  BY Working DEF TaskStep
<1>2. PICK r \in {"ok", "internal"} : Finish(t, r)
  BY DEF Simulated
<1>3. UNCHANGED ledgerVars /\ Op(t) = "simulate"
  BY DEF Simulated
<1>4. kind[t] \in Simulates
  BY <1>1, <1>3 DEF Plan, Ahead, HandsOut, Handler, Simulates, Keys
<1>5. ledger[OwnTx(t)] # "unbuilt"
  <2>1. Len(calls[t]) = 1
    <3>1. calls[t][1][1] = "simulate"
      BY <1>1, <1>3
    <3>2. \A i \in 1..Len(calls[t]) : calls[t][i][1] = "simulate" => i = Len(calls[t])
      BY <1>1, <1>4 DEF Ahead
    <3> QED
      BY <1>1, <3>1, <3>2
  <2>2. calls[t][1] # <<"hash", "own">>
    BY <1>1, <1>3
  <2>3. "own" \in PartsBuilt(t)
    BY <1>1, <1>4, <2>1, <2>2 DEF Ahead
  <2> QED
    BY <2>3 DEF PartsBuilt, OwnTx
<1>6. pc'[t] = "done" /\ reply' = [reply EXCEPT ![t] = r]
  BY <1>1, <1>2 DEF Finish, DexType
<1>7. phases' = [phases EXCEPT ![t] = "closed"]
  BY <1>1, <1>6, Framed DEF Phase
<1>8. r \in Promise!Error \cup {"ok"} /\ r # "invalid"
  BY DEF Promise!Error
<1> QED
  BY <1>1, <1>3, <1>5, <1>6, <1>7, <1>8, PromisedClose

(* The mutex is not the promise's business; a send that goes out with the  *)
(* guard is one of the vaults of a listing.                                *)
LEMMA LockPromised ==
  ASSUME AheadInv, NEW t \in Task, Lock(t)
  PROVE  PromisedStep
<1>1. /\ DexInv /\ DexType /\ Others(t) /\ phases[t] = "open" /\ wanted' = wanted
      /\ wanted[t] = Wants(t) /\ Call(t)[2] \in Part
      /\ Plan(kind[t], calls[t], Made(t), OrderConverts(kind[t], asked[t]))
      /\ Ahead(kind[t], calls[t], PartsBuilt(t))
      /\ 1 \in 1..Len(calls[t]) /\ calls[t][1] = <<Op(t), Call(t)[2]>>
  BY Working DEF TaskStep
<1>2. /\ pc'[t] = "call" /\ reply' = reply /\ fresh' = fresh
      /\ ledger' = IF Op(t) = "send" THEN Submitted(CurrentTx(t)) ELSE ledger
  BY <1>1 DEF Lock, Take, DexType
<1>3. phases' = phases
  <2>1. \A u \in Task : Phase(u)' = Phase(u)
    BY <1>1, <1>2 DEF Others, Phase, Lock
  <2> HIDE DEF Phase
  <2> QED
    BY <2>1 DEF phases
<1>4. CASE Op(t) = "send" /\ ledger[CurrentTx(t)] # "unbuilt"
  <2> DEFINE v == Call(t)[2]
  <2>1. v \in Vault /\ CurrentTx(t) = <<t, v>>
    BY <1>1, <1>4 DEF Plan, CurrentTx
  <2>2. kind[t] = "list_market"
    BY <1>1, <2>1 DEF Ahead, Vault
  <2>3. wanted[t] = "listing"
    BY <1>1, <2>2, WantsOf
  <2>4. v = "pc" => Landed(<<t, "coin">>)
    BY <1>1, <1>4, <2>1 DEF DexInv, Good, VaultsInOrder
  <2>5. ledger' = Submitted(<<t, v>>) /\ UNCHANGED fresh
    BY <1>2, <1>4, <2>1
  <2> HIDE DEF v
  <2>6. Promise!MakeVault(t, v) /\ v \in Promise!Vaults
    BY <1>1, <1>2, <1>3, <2>1, <2>3, <2>4, <2>5, PromisedVault
  <2> QED
    BY <2>6 DEF PromisedStep, Promise!Next
<1>5. CASE ~(Op(t) = "send" /\ ledger[CurrentTx(t)] # "unbuilt")
  <2>1. UNCHANGED ledgerVars
    BY <1>2, <1>5 DEF Submitted, ledgerVars
  <2> QED
    BY <1>1, <1>2, <1>3, <2>1, PromisedStutter
<1> QED
  BY <1>4, <1>5

(* An answer with more to come: a vault is built, a transaction that is to *)
(* be simulated is signed, or nothing is made.                             *)
LEMMA ReturnPromised ==
  ASSUME AheadInv, NEW t \in Task, Return(t)
  PROVE  PromisedStep
<1>1. /\ DexInv /\ DexType /\ Others(t) /\ phases[t] = "open" /\ wanted' = wanted
      /\ wanted[t] = Wants(t) /\ Call(t)[2] \in Part /\ kind[t] \in Handler
      /\ Plan(kind[t], calls[t], Made(t), OrderConverts(kind[t], asked[t]))
      /\ Ahead(kind[t], calls[t], PartsBuilt(t))
      /\ 1 \in 1..Len(calls[t]) /\ calls[t][1] = <<Op(t), Call(t)[2]>>
  BY Working DEF TaskStep
<1>2. /\ pc[t] = "call" /\ pc'[t] = "lock" /\ reply' = reply /\ Receive(t)
      /\ Len(calls[t]) > 1
  BY <1>1 DEF Return, DexType
<1>3. phases' = phases
  <2>1. \A u \in Task : Phase(u)' = Phase(u)
    BY <1>1, <1>2 DEF Others, Phase
  <2> HIDE DEF Phase
  <2> QED
    BY <2>1 DEF phases
<1>4. CASE Op(t) # "hash"
  BY <1>1, <1>2, <1>3, <1>4, PromisedStutter DEF Receive
<1>5. ASSUME Op(t) = "hash"
      PROVE  /\ ledger[<<t, Call(t)[2]>>] = "unbuilt"
             /\ ledger' = Built(<<t, Call(t)[2]>>)
             /\ fresh' \in {fresh, fresh \cup {<<t, Call(t)[2]>>}}
  BY <1>2, <1>5, PartsOfAnswer DEF Receive, CurrentTx
<1>6. ASSUME Op(t) = "hash", NEW v \in Vault, v = Call(t)[2]
      PROVE  PromisedStep
  <2>1. kind[t] = "list_market"
    BY <1>1, <1>6 DEF Ahead, Vault
  <2>2. wanted[t] = "listing"
    BY <1>1, <2>1, WantsOf
  <2>3. v = "pc" => Landed(<<t, "coin">>)
    <3>1. v = "pc" => calls[t][1] = <<"hash", "pc">>
      BY <1>1, <1>6
    <3> QED
      BY <1>1, <3>1 DEF Plan, Made
  <2>4. Promise!MakeVault(t, v) /\ v \in Promise!Vaults
    BY <1>1, <1>2, <1>3, <1>5, <1>6, <2>2, <2>3, PromisedVault
  <2> QED
    BY <2>4 DEF PromisedStep, Promise!Next
<1>7. ASSUME Op(t) = "hash", Call(t)[2] = "own"
      PROVE  PromisedStep
  <2>1. kind[t] \notin Keys
    BY <1>1, <1>2 DEF Ahead
  <2>2. kind[t] # "list_market"
    <3>1. calls[t][1] = <<"hash", "own">> /\ calls[t][1][1] = "hash"
      BY <1>1, <1>7
    <3>2. Len(calls[t]) \in 1..Len(calls[t])
      BY <1>1 DEF Plan
    <3>3. calls[t][Len(calls[t])] = calls[t][1] => 1 = Len(calls[t])
      BY <1>1, <3>1, <3>2 DEF Ahead
    <3> QED
      BY <1>1, <1>2, <3>1, <3>3 DEF Plan, HandsOut
  <2>3. wanted[t] = "transaction"
    BY <1>1, <2>1, <2>2, WantsOf
  <2>4. Promise!Sign(t)
    BY <1>5, <1>7, <2>3, PromisedSign DEF OwnTx
  <2>5. Promise!SignFirst(t)
    BY <1>1, <1>2, <1>3, <2>4, PromisedSignFirst
  <2> QED
    BY <2>5 DEF PromisedStep, Promise!Next
<1> QED
  BY <1>1, <1>4, <1>6, <1>7 DEF Part, Vault

(* The last good answer: the keys, or the signature that ends a request    *)
(* whose transaction is not simulated.                                     *)
LEMMA SucceedPromised ==
  ASSUME AheadInv, NEW t \in Task, Succeed(t)
  PROVE  Promise!Close(t)
<1>1. /\ DexInv /\ DexType /\ Others(t) /\ phases[t] = "open" /\ wanted' = wanted
      /\ wanted[t] = Wants(t) /\ kind[t] \in Handler
      /\ Plan(kind[t], calls[t], Made(t), OrderConverts(kind[t], asked[t]))
      /\ Ahead(kind[t], calls[t], PartsBuilt(t))
      /\ 1 \in 1..Len(calls[t]) /\ calls[t][1] = <<Op(t), Call(t)[2]>>
  BY Working DEF TaskStep
<1>2. /\ pc[t] = "call" /\ Finish(t, "ok") /\ Receive(t)
      /\ Len(calls[t]) = 1 /\ Op(t) # "simulate"
  BY DEF Succeed
<1>3. pc'[t] = "done" /\ reply' = [reply EXCEPT ![t] = "ok"]
  BY <1>1, <1>2 DEF Finish, DexType
<1>4. phases' = [phases EXCEPT ![t] = "closed"]
  BY <1>1, <1>3, Framed DEF Phase
<1>5. CASE kind[t] \in Keys
  <2>1. Op(t) = "market"
    BY <1>1, <1>5 DEF Ahead
  <2>2. UNCHANGED ledgerVars
    BY <1>2, <2>1 DEF Receive
  <2>3. wanted[t] = "keys"
    BY <1>1, <1>5, WantsOf
  <2>4. "ok" \in Promise!Error \cup {"ok"} /\ "ok" # "invalid"
    OBVIOUS
  <2> QED
    BY <1>1, <1>3, <1>4, <2>2, <2>3, <2>4, PromisedClose
<1>6. CASE kind[t] \in HandsOut
  <2>1. calls[t][1] = <<"hash", "own">>
    BY <1>1, <1>2, <1>6 DEF Plan
  <2>2. Op(t) = "hash" /\ Call(t)[2] = "own"
    BY <1>1, <2>1
  <2>3. /\ ledger[OwnTx(t)] = "unbuilt" /\ ledger' = Built(OwnTx(t))
        /\ fresh' \in {fresh, fresh \cup {OwnTx(t)}}
    BY <1>2, <2>2, PartsOfAnswer DEF Receive, CurrentTx, OwnTx
  <2>4. wanted[t] \in {"transaction", "listing"}
    BY <1>1, <1>6, WantsOf DEF HandsOut, Keys
  <2>5. ASSUME wanted[t] = "listing", NEW v \in Vault
        PROVE  Landed(<<t, v>>)
    <3>1. kind[t] = "list_market"
      BY <1>1, <1>6, <2>5, WantsOf DEF HandsOut, Keys
    <3>2. v \in Made(t)
      BY <1>1, <1>2, <2>1, <3>1 DEF Plan
    <3> QED
      BY <3>2 DEF Made
  <2>6. Promise!Sign(t)
    BY <2>3, <2>4, <2>5, PromisedSign
  <2> QED
    BY <1>1, <1>3, <1>4, <2>6, PromisedLastSign
<1>7. CASE kind[t] \in Simulates
  BY <1>1, <1>2, <1>7 DEF Ahead
<1> QED
  BY <1>1, <1>5, <1>6, <1>7 DEF Handler, Keys, HandsOut, Simulates

LEMMA SubmitPromised ==
  ASSUME NEW t \in Task, ClientSubmits(t)
  PROVE  Promise!ClientSubmits(t)
<1>1. /\ reply[t] = "ok" /\ ledger' = Submitted(OwnTx(t))
      /\ UNCHANGED <<kind, pc, reply, fresh>>
  BY DEF ClientSubmits
<1>2. wanted' = wanted /\ phases' = phases
  BY <1>1 DEF wanted, phases, Wants, Phase
<1> QED
  BY <1>1, <1>2, PromisedSubmit

LEMMA EveryStepPromised ==
  ASSUME AheadInv, [Next]_vars
  PROVE  PromisedStep
<1>1. ASSUME NEW t \in Task, NEW k \in Procedure,
             Refuse(t, k) \/ Accept(t, k) \/ AnswerAtOnce(t, k)
      PROVE  PromisedStep
  BY <1>1, ArrivalPromised DEF PromisedStep, Promise!Next
<1>2. ASSUME NEW t \in Task, TaskStep(t) \/ Cancel(t)
      PROVE  PromisedStep
  <2>1. ASSUME Promise!Close(t) PROVE PromisedStep
    BY <2>1 DEF PromisedStep, Promise!Next
  <2>2. CASE ReadBlockhash(t)
    BY <2>2, PromisedStutter DEF ReadBlockhash, wanted, phases, Wants, Phase
  <2> QED
    BY <1>2, <2>1, <2>2, LockPromised, ReturnPromised, SucceedPromised, SimulatedPromised,
       FailurePromised DEF TaskStep
<1>3. ASSUME NEW t \in Task, ClientSubmits(t)
      PROVE  PromisedStep
  BY <1>3, SubmitPromised DEF PromisedStep, Promise!Next
<1>4. ASSUME UNCHANGED <<kind, pc, reply>>
      PROVE  wanted' = wanted /\ phases' = phases
  BY <1>4 DEF wanted, phases, Wants, Phase
<1>5. CASE ClusterStep
  <2>1. /\ UNCHANGED <<kind, pc, reply>>
        /\ Cluster \/ UNCHANGED ledgerVars
    BY <1>5 DEF ClusterStep
  <2>2. ASSUME Cluster PROVE Promise!ClusterStep
    BY <1>4, <2>1, <2>2
    DEF Promise!ClusterStep, Promise!Cluster, Promise!NextBlockhash, Promise!Confirm,
        Promise!Finalize, Promise!Expire, Cluster, NextBlockhash, Confirm, Finalize, Expire,
        wanted, phases, Wants, Phase
  <2> QED
    BY <1>4, <2>1, <2>2, PromisedStutter DEF PromisedStep, Promise!Next
<1>6. CASE UNCHANGED vars
  BY <1>4, <1>6, PromisedStutter DEF vars, ledgerVars
<1> QED
  BY <1>1, <1>2, <1>3, <1>5, <1>6 DEF Next, Terminated

(* The signing service keeps its promise: it makes the vaults of listings  *)
(* only, one after the other, signs nothing before they exist, hands out   *)
(* nothing it has not signed, and says "invalid" only while nothing has    *)
(* been made.  That every request is closed is the promise's fairness and  *)
(* not stated here.                                                        *)
THEOREM DexHandlersKeepPromise ==
  Safety => Promise!Init /\ [][Promise!Next]_(Promise!promiseVars)
<1>1. AheadInv /\ [Next]_vars => [Promise!Next]_(Promise!promiseVars)
  BY EveryStepPromised DEF PromisedStep
<1> QED
  BY <1>1, PromisedInit, AheadInvariant, PTL DEF Safety

===============================================================================
