---------------------------- MODULE DexCalls_proofs ----------------------------
(***************************************************************************)
(* Theorems about the unary handlers of the Dex service, for any number of *)
(* requests, any orders and any width of the limit: the daemon signs and   *)
(* does not send, vaults are made in order, and orders are signed as asked.*)
(***************************************************************************)
EXTENDS DexCalls, TLAPS, SequenceTheorems

Rpc == {"rent", "hash", "send", "simulate", "queue", "market"}
RpcCalls == Rpc \X Part
Vault == {"coin", "pc"}

(* The handlers that hand a transaction out without simulating it.         *)
HandsOut == {"list_market", "consume_events", "init_open_order", "new_order"}

(* What is left to do for a request of kind k, when the vaults made exist  *)
(* and its order has been looked at or not: sends are about vaults, the    *)
(* coin vault is there when the pc vault is begun, a listing makes both,   *)
(* a transaction handed out is built last, and an order is looked at       *)
(* before it is placed.                                                    *)
Plan(k, s, made, checked) ==
  /\ s \in Seq(RpcCalls) /\ Len(s) \in Nat /\ Len(s) > 0
  /\ \A i \in 1..Len(s) : s[i][1] = "send" => s[i][2] \in Vault
  /\ \A i \in 1..Len(s) : s[i] = <<"hash", "pc">> =>
       "coin" \in made \/ \E j \in 1..(i - 1) : s[j] = <<"send", "coin">>
  /\ k = "list_market" =>
       \A v \in Vault : v \in made \/ \E j \in 1..Len(s) : s[j] = <<"send", v>>
  /\ k \in HandsOut =>
       s[Len(s)] = <<"hash", "own">> /\ \A i \in 1..Len(s) : s[i][1] # "simulate"
  /\ k = "new_order" => checked \/ (s[1] = <<"market", "own">> /\ Len(s) > 1)

LEMMA Joined ==
  ASSUME NEW s \in Seq(RpcCalls), NEW r \in Seq(RpcCalls)
  PROVE  /\ s \o r \in Seq(RpcCalls)
         /\ Len(s \o r) = Len(s) + Len(r) /\ Len(s) \in Nat /\ Len(r) \in Nat
         /\ \A i \in 1..(Len(s) + Len(r)) :
              (s \o r)[i] = IF i <= Len(s) THEN s[i] ELSE r[i - Len(s)]
BY LenProperties, ConcatProperties

Rents(s, n) == /\ s \in Seq(RpcCalls) /\ Len(s) = n
               /\ \A i \in 1..n : s[i] = <<"rent", "own">>

LEMMA MoreRents ==
  ASSUME NEW s, NEW n \in Nat, Rents(s, n)
  PROVE  Rents(s \o create_dex_account, n + 1)
<1>1. Rents(create_dex_account, 1)
  BY DEF Rents, create_dex_account, Ask, RpcCalls, Rpc, Part
<1> DEFINE r == s \o create_dex_account
<1>2. /\ r \in Seq(RpcCalls) /\ Len(r) = n + 1
      /\ \A i \in 1..(n + 1) : r[i] = IF i <= n THEN s[i] ELSE create_dex_account[i - n]
  BY <1>1, Joined DEF Rents
<1>3. \A i \in 1..(n + 1) : (i <= n /\ i \in 1..n) \/ (~(i <= n) /\ i - n = 1)
  OBVIOUS
<1> QED
  BY <1>1, <1>2, <1>3 DEF Rents

LEMMA ListMarketCalls ==
  /\ list_market \in Seq(RpcCalls) /\ Len(list_market) = 12
  /\ \A i \in {1, 2, 3, 4, 5, 6, 9} : list_market[i] = <<"rent", "own">>
  /\ list_market[7] = <<"hash", "coin">> /\ list_market[8] = <<"send", "coin">>
  /\ list_market[10] = <<"hash", "pc">> /\ list_market[11] = <<"send", "pc">>
  /\ list_market[12] = <<"hash", "own">>
<1> DEFINE vaults(v) == create_token_account(v)
           L1 == gen_listing_params \o vaults("coin")
           L2 == L1 \o vaults("pc")
           last == <<Ask("hash")>>
<1>1. Rents(gen_listing_params, 5)
  <2>1. Rents(create_dex_account, 1)
    BY DEF Rents, create_dex_account, Ask, RpcCalls, Rpc, Part
  <2>2. Rents(create_dex_account \o create_dex_account, 2)
    BY <2>1, MoreRents
  <2>3. Rents(create_dex_account \o create_dex_account \o create_dex_account, 3)
    BY <2>2, MoreRents
  <2>4. Rents(create_dex_account \o create_dex_account \o create_dex_account
                \o create_dex_account, 4)
    BY <2>3, MoreRents
  <2> QED
    BY <2>4, MoreRents DEF gen_listing_params
<1>2. \A v \in Vault : /\ vaults(v) \in Seq(RpcCalls) /\ Len(vaults(v)) = 3
                       /\ vaults(v)[1] = <<"rent", "own">>
                       /\ vaults(v)[2] = <<"hash", v>> /\ vaults(v)[3] = <<"send", v>>
  BY DEF create_token_account, Ask, RpcCalls, Rpc, Part, Vault
<1>3. /\ last \in Seq(RpcCalls) /\ Len(last) = 1 /\ last[1] = <<"hash", "own">>
  BY DEF Ask, RpcCalls, Rpc, Part
<1> HIDE DEF vaults, last
<1>4. /\ L1 \in Seq(RpcCalls) /\ Len(L1) = 8
      /\ L1[1] = <<"rent", "own">> /\ L1[2] = <<"rent", "own">> /\ L1[3] = <<"rent", "own">>
      /\ L1[4] = <<"rent", "own">> /\ L1[5] = <<"rent", "own">> /\ L1[6] = <<"rent", "own">>
      /\ L1[7] = <<"hash", "coin">> /\ L1[8] = <<"send", "coin">>
  <2>1. /\ L1 \in Seq(RpcCalls) /\ Len(L1) = 8
        /\ \A i \in 1..8 : L1[i] = IF i <= 5 THEN gen_listing_params[i]
                                             ELSE vaults("coin")[i - 5]
    <3>1. vaults("coin") \in Seq(RpcCalls) /\ Len(vaults("coin")) = 3
      BY <1>2 DEF Vault
    <3>2. gen_listing_params \in Seq(RpcCalls) /\ Len(gen_listing_params) = 5
      BY <1>1 DEF Rents
    <3> HIDE DEF L1
    <3>3. L1 = gen_listing_params \o vaults("coin")
      BY DEF L1
    <3>4. /\ L1 \in Seq(RpcCalls)
          /\ Len(L1) = Len(gen_listing_params) + Len(vaults("coin"))
          /\ \A i \in 1..(Len(gen_listing_params) + Len(vaults("coin"))) :
               L1[i] = IF i <= Len(gen_listing_params) THEN gen_listing_params[i]
                       ELSE vaults("coin")[i - Len(gen_listing_params)]
      BY <3>1, <3>2, <3>3, Joined
    <3>5. Len(gen_listing_params) + Len(vaults("coin")) = 8
      <4>1. Len(gen_listing_params) = 5 /\ Len(vaults("coin")) = 3
        BY <3>1, <3>2
      <4>2. \A a, b : a = 5 /\ b = 3 => a + b = 8
        OBVIOUS
      <4> QED
        BY <4>1, <4>2
    <3> QED
      BY <3>2, <3>4, <3>5
  <2> QED
    BY <1>1, <1>2, <2>1 DEF Rents, Vault
<1> HIDE DEF L1
<1>5. /\ L2 \in Seq(RpcCalls) /\ Len(L2) = 11
      /\ \A i \in 1..11 : L2[i] = IF i <= 8 THEN L1[i] ELSE vaults("pc")[i - 8]
  <2>1. vaults("pc") \in Seq(RpcCalls) /\ Len(vaults("pc")) = 3
    BY <1>2 DEF Vault
  <2> HIDE DEF L2
  <2>2. L2 = L1 \o vaults("pc")
    BY DEF L2
  <2>3. /\ L2 \in Seq(RpcCalls)
        /\ Len(L2) = Len(L1) + Len(vaults("pc"))
        /\ \A i \in 1..(Len(L1) + Len(vaults("pc"))) :
             L2[i] = IF i <= Len(L1) THEN L1[i] ELSE vaults("pc")[i - Len(L1)]
    BY <1>4, <2>1, <2>2, Joined
  <2>4. Len(L1) + Len(vaults("pc")) = 11
    <3>1. Len(L1) = 8 /\ Len(vaults("pc")) = 3
      BY <1>4, <2>1
    <3>2. \A a, b : a = 8 /\ b = 3 => a + b = 11
      OBVIOUS
    <3> QED
      BY <3>1, <3>2
  <2> QED
    BY <1>4, <2>3, <2>4
<1>6. list_market = L2 \o last
  BY DEF list_market, L1, last, vaults
<1> HIDE DEF L2
<1>7. /\ list_market \in Seq(RpcCalls) /\ Len(list_market) = 12
      /\ \A i \in 1..12 : list_market[i] = IF i <= 11 THEN L2[i] ELSE last[i - 11]
  <2>1. /\ list_market \in Seq(RpcCalls)
        /\ Len(list_market) = Len(L2) + Len(last)
        /\ \A i \in 1..(Len(L2) + Len(last)) :
             list_market[i] = IF i <= Len(L2) THEN L2[i] ELSE last[i - Len(L2)]
    BY <1>3, <1>5, <1>6, Joined
  <2>2. Len(L2) + Len(last) = 12
    BY <1>3, <1>5
  <2> QED
    BY <1>5, <2>1, <2>2
<1>8. /\ \A i \in {1, 2, 3, 4, 5, 6, 9} : list_market[i] = <<"rent", "own">>
      /\ list_market[7] = <<"hash", "coin">> /\ list_market[8] = <<"send", "coin">>
      /\ list_market[10] = <<"hash", "pc">> /\ list_market[11] = <<"send", "pc">>
      /\ list_market[12] = <<"hash", "own">>
  <2>1. \A i \in 1..11 : list_market[i] = IF i <= 8 THEN L1[i] ELSE vaults("pc")[i - 8]
    BY <1>5, <1>7
  <2>2. list_market[12] = <<"hash", "own">>
    BY <1>3, <1>7
  <2> QED
    BY <1>2, <1>4, <2>1, <2>2 DEF Vault
<1> QED
  BY <1>7, <1>8

LEMMA ListMarketPlan == Plan("list_market", list_market, {}, TRUE)
<1>1. \A i \in 1..12 : i \in {1, 2, 3, 4, 5, 6, 9} \/ i \in {7, 8, 10, 11, 12}
  OBVIOUS
<1>2. 8 \in 1..(10 - 1) /\ 8 \in 1..12 /\ 11 \in 1..12
  OBVIOUS
<1> QED
  BY ListMarketCalls, <1>1, <1>2 DEF Plan, Vault, HandsOut

(* The scripts of the other handlers make no vault.                        *)
Plain(s) == /\ s \in Seq(RpcCalls) /\ Len(s) \in Nat /\ Len(s) > 0
            /\ \A i \in 1..Len(s) : s[i][1] # "send" /\ s[i][2] = "own"

LEMMA MarketFirst ==
  ASSUME NEW s, Plain(s), NEW byId \in BOOLEAN
  PROVE  LET r == convert_state(byId) \o s
         IN  /\ Plain(r) /\ r[Len(r)] = s[Len(s)]
             /\ byId => r[1] = <<"market", "own">> /\ Len(r) > 1
             /\ \A i \in 1..Len(r) :
                  r[i] = <<"market", "own">> \/ \E j \in 1..Len(s) : r[i] = s[j]
<1> DEFINE m == convert_state(byId)
<1>1. /\ m \in Seq(RpcCalls) /\ Len(m) = IF byId THEN 1 ELSE 0
      /\ byId => m[1] = <<"market", "own">>
  BY DEF convert_state, Ask, RpcCalls, Rpc, Part
<1> HIDE DEF m
<1> DEFINE r == m \o s
<1>2. /\ r \in Seq(RpcCalls) /\ Len(r) = Len(m) + Len(s) /\ Len(r) \in Nat /\ Len(m) \in Nat
      /\ \A i \in 1..(Len(m) + Len(s)) : r[i] = IF i <= Len(m) THEN m[i] ELSE s[i - Len(m)]
  BY <1>1, Joined DEF Plain
<1> HIDE DEF r
<1>3. ASSUME NEW i \in 1..Len(r)
      PROVE  \/ r[i] = <<"market", "own">>
             \/ \E j \in 1..Len(s) : r[i] = s[j]
  <2>1. CASE i <= Len(m)
    BY <1>1, <1>2, <2>1
  <2>2. CASE ~(i <= Len(m))
    <3>1. i - Len(m) \in 1..Len(s)
      BY <1>2, <2>2 DEF Plain
    <3> QED
      BY <1>2, <2>2, <3>1
  <2> QED
    BY <2>1, <2>2
<1>4. Plain(r)
  BY <1>2, <1>3 DEF Plain
<1>5. r[Len(r)] = s[Len(s)]
  <2>1. Len(r) \in 1..(Len(m) + Len(s)) /\ ~(Len(r) <= Len(m)) /\ Len(r) - Len(m) = Len(s)
    BY <1>2 DEF Plain
  <2> QED
    BY <1>2, <2>1
<1>6. byId => r[1] = <<"market", "own">> /\ Len(r) > 1
  BY <1>1, <1>2 DEF Plain
<1> QED
  BY <1>3, <1>4, <1>5, <1>6 DEF r, m

LEMMA PlanTail ==
  ASSUME NEW k, NEW s, NEW made, NEW checked, Plan(k, s, made, checked), Len(s) > 1,
         NEW made2, made \subseteq made2, s[1][1] = "send" => s[1][2] \in made2,
         s[1][1] = "market" => checked
  PROVE  Plan(k, Tail(s), made2, checked)
<1> DEFINE r == Tail(s)
<1>1. /\ r \in Seq(RpcCalls) /\ Len(r) = Len(s) - 1
      /\ \A i \in 1..Len(r) : i + 1 \in 1..Len(s) /\ r[i] = s[i + 1]
  BY HeadTailProperties DEF Plan
<1> HIDE DEF r
<1>2. ASSUME NEW j \in 1..Len(s) PROVE j = 1 \/ (j - 1 \in 1..Len(r) /\ s[j] = r[j - 1])
  BY <1>1 DEF Plan
<1>3. Len(r) \in Nat /\ Len(r) > 0 /\ r[Len(r)] = s[Len(s)]
  BY <1>1 DEF Plan
<1>4. ASSUME NEW i \in 1..Len(r), r[i] = <<"hash", "pc">>
      PROVE  "coin" \in made2 \/ \E j \in 1..(i - 1) : r[j] = <<"send", "coin">>
  <2>1. i + 1 \in 1..Len(s) /\ s[i + 1] = <<"hash", "pc">> /\ (i + 1) - 1 = i
    BY <1>1, <1>4
  <2>2. "coin" \in made \/ \E j \in 1..((i + 1) - 1) : s[j] = <<"send", "coin">>
    BY <2>1 DEF Plan
  <2>3. ASSUME NEW j \in 1..i, s[j] = <<"send", "coin">>, j # 1
        PROVE  j - 1 \in 1..(i - 1) /\ r[j - 1] = <<"send", "coin">>
    <3>1. j \in 1..Len(s)
      BY <1>1
    <3> QED
      BY <1>2, <2>3, <3>1
  <2>4. s[1] = <<"send", "coin">> => "coin" \in made2
    OBVIOUS
  <2> QED
    BY <2>1, <2>2, <2>3, <2>4
<1>5. ASSUME k = "list_market", NEW v \in Vault
      PROVE  v \in made2 \/ \E j \in 1..Len(r) : r[j] = <<"send", v>>
  <2>1. v \in made \/ \E j \in 1..Len(s) : s[j] = <<"send", v>>
    BY <1>5 DEF Plan
  <2> QED
    BY <1>2, <2>1
<1>6. \A i \in 1..Len(r) : r[i][1] = "send" => r[i][2] \in Vault
  BY <1>1 DEF Plan
<1>7. k \in HandsOut => \A i \in 1..Len(r) : r[i][1] # "simulate"
  BY <1>1 DEF Plan
<1>8. k = "new_order" => checked
  BY DEF Plan
<1>9. k \in HandsOut => r[Len(r)] = <<"hash", "own">>
  BY <1>3 DEF Plan
<1>10. Plan(k, r, made2, checked)
  BY <1>1, <1>3, <1>4, <1>5, <1>6, <1>7, <1>8, <1>9 DEF Plan
<1> QED
  BY <1>10 DEF r

(* A script that makes no vault, after the look-up of the market.          *)
LEMMA PlainPlan ==
  ASSUME NEW s, Plain(s), NEW byId \in BOOLEAN, NEW checked, byId \/ checked,
         NEW made, NEW k, k # "list_market",
         k \in HandsOut => /\ s[Len(s)] = <<"hash", "own">>
                           /\ \A i \in 1..Len(s) : s[i][1] # "simulate"
  PROVE  Plan(k, convert_state(byId) \o s, made, checked)
<1> DEFINE r == convert_state(byId) \o s
<1>1. /\ Plain(r) /\ r[Len(r)] = s[Len(s)]
      /\ byId => r[1] = <<"market", "own">> /\ Len(r) > 1
      /\ \A i \in 1..Len(r) :
           r[i] = <<"market", "own">> \/ \E j \in 1..Len(s) : r[i] = s[j]
  BY MarketFirst
<1> HIDE DEF r
<1>2. \A i \in 1..Len(r) : r[i][1] # "send" /\ r[i] # <<"hash", "pc">>
  BY <1>1 DEF Plain
<1>3. k \in HandsOut => \A i \in 1..Len(r) : r[i][1] # "simulate"
  BY <1>1
<1>4. Plan(k, r, made, checked)
  BY <1>1, <1>2, <1>3 DEF Plan, Plain
<1> QED
  BY <1>4 DEF r

(* The blockhash, after the rent of an account when one is to be created.  *)
LEMMA OpenOrdersFirst ==
  ASSUME NEW unnamed \in BOOLEAN
  PROVE  LET s == (IF unnamed THEN create_dex_account ELSE <<>>) \o <<Ask("hash")>>
         IN  /\ Plain(s) /\ s[Len(s)] = <<"hash", "own">>
             /\ \A i \in 1..Len(s) : s[i][1] # "simulate"
<1> DEFINE a == IF unnamed THEN create_dex_account ELSE <<>>
           b == <<Ask("hash")>>
           s == a \o b
<1>1. /\ a \in Seq(RpcCalls) /\ Len(a) \in {0, 1}
      /\ \A i \in 1..Len(a) : a[i] = <<"rent", "own">>
  BY DEF create_dex_account, Ask, RpcCalls, Rpc, Part
<1>2. b \in Seq(RpcCalls) /\ Len(b) = 1 /\ b[1] = <<"hash", "own">>
  BY DEF Ask, RpcCalls, Rpc, Part
<1> HIDE DEF a, b
<1>3. /\ s \in Seq(RpcCalls) /\ Len(s) = Len(a) + Len(b)
      /\ \A i \in 1..(Len(a) + Len(b)) : s[i] = IF i <= Len(a) THEN a[i] ELSE b[i - Len(a)]
  BY <1>1, <1>2, Joined
<1> HIDE DEF s
<1>4. Len(s) = Len(a) + 1 /\ Len(s) \in Nat /\ Len(s) > 0
  BY <1>1, <1>2, <1>3
<1>5. \A i \in 1..Len(s) : \/ i <= Len(a) /\ i \in 1..Len(a)
                           \/ ~(i <= Len(a)) /\ i - Len(a) = 1 /\ i = Len(s)
  BY <1>1, <1>4
<1>6. Len(s) \in 1..Len(s) /\ ~(Len(s) <= Len(a))
  BY <1>1, <1>4
<1>7. \A i \in 1..Len(s) : s[i] \in {<<"rent", "own">>, <<"hash", "own">>}
  BY <1>1, <1>2, <1>3, <1>5
<1>8. s[Len(s)] = <<"hash", "own">>
  BY <1>2, <1>3, <1>5, <1>6
<1> QED
  BY <1>3, <1>4, <1>7, <1>8 DEF Plain, s, a, b

LEMMA ScriptPlan ==
  ASSUME NEW k \in Handler, NEW byId \in BOOLEAN, NEW unnamed \in BOOLEAN, NEW made,
         NEW checked, byId \/ checked, Script(k, byId, unnamed) # <<>>
  PROVE  Plan(k, Script(k, byId, unnamed), made, checked)
<1>1. CASE k = "list_market"
  BY <1>1, ListMarketPlan DEF Script, Plan, HandsOut
<1>2. CASE k \in {"get_market_pubkeys", "monitor_queue"}
  <2>1. Script(k, byId, unnamed) = <<Ask("market")>>
    BY <1>2 DEF Script, convert_state
  <2> QED
    BY <1>2, <2>1 DEF Plan, Ask, RpcCalls, Rpc, Part, HandsOut
<1>3. CASE k = "consume_events"
  <2>1. /\ Plain(consume_events) /\ consume_events[Len(consume_events)] = <<"hash", "own">>
        /\ \A i \in 1..Len(consume_events) : consume_events[i][1] # "simulate"
    BY DEF consume_events, Plain, Ask, RpcCalls, Rpc, Part
  <2> QED
    BY <1>3, <2>1, PlainPlan DEF Script
<1>4. CASE k \in {"init_open_order", "new_order"}
  BY <1>4, OpenOrdersFirst, PlainPlan DEF Script, init_open_orders, place_order
<1>5. CASE k \in {"cancel_order", "settle_funds", "close_open_orders", "match_orders"}
  <2>1. Plain(<<Ask("hash"), Ask("simulate")>>)
    BY DEF Plain, Ask, RpcCalls, Rpc, Part
  <2> QED
    BY <1>5, <2>1, PlainPlan
    DEF Script, HandsOut, cancel_order_by_client_order_id, settle_funds, close_open_orders,
        match_orders
<1> QED
  BY <1>1, <1>2, <1>3, <1>4, <1>5 DEF Handler
-------------------------------------------------------------------------------
Awaiting == {"lock", "call"}
Made(t) == {v \in Vault : Landed(<<t, v>>)}

(* The types, and those the functions need that TypeOK leaves open.        *)
DexType ==
  /\ kind \in [Task -> Procedure \cup {"none"}]
  /\ pc \in [Task -> {"idle", "done"} \cup Awaiting]
  /\ reply \in [Task -> Reply]
  /\ holder \in [Mutex -> Task \cup {NoTask}]
  /\ ledger \in [Tx -> Stage]
  /\ fresh \subseteq Tx
  /\ calls = [t \in Task |-> calls[t]]
  /\ asked \in [Task -> OrderRequest \cup {NoOrder}]
  /\ signed = [t \in Task |-> signed[t]]
  /\ verdict \in [Task -> {"none", "None", "Some"}]

(* Vaults are made in order, and those of an answered listing are there.   *)
VaultsInOrder(t) ==
  /\ ledger[<<t, "pc">>] # "unbuilt" => Landed(<<t, "coin">>)
  /\ kind[t] = "list_market" /\ reply[t] = "ok" =>
       Landed(<<t, "coin">>) /\ Landed(<<t, "pc">>)

(* What is known of a request: it follows its plan, what it signed for its *)
(* client has not been sent, and the order it signed is the one asked for. *)
Good(t) ==
  /\ pc[t] = "idle" => kind[t] = "none"
  /\ reply[t] # "none" => pc[t] = "done"
  /\ pc[t] \in Awaiting => Plan(kind[t], calls[t], Made(t), OrderConverts(kind[t], asked[t]))
  /\ (signed[t] # NoOrder) = (kind[t] = "new_order" /\ reply[t] = "ok")
  /\ signed[t] # NoOrder => SaysTheSame(asked[t], signed[t])
  /\ reply[t] # "ok" => ledger[OwnTx(t)] \in {"unbuilt", "new", "expired"}
  /\ VaultsInOrder(t)

DexInv == DexType /\ \A t \in Task : Good(t)

LEMMA DexInit == Init => DexInv
  BY DexTxAssumption, NoTaskAssumption
  DEF Init, DexInv, DexType, Good, VaultsInOrder, OwnTx, Part, Awaiting, Reply, Mutex, Stage

(* What becomes of the transactions of a request that is not about them.   *)
Quiet(t) ==
  /\ ledger[OwnTx(t)] \in {"unbuilt", "new", "expired"} =>
       ledger'[OwnTx(t)] \in {"unbuilt", "new", "expired"}
  /\ ledger[<<t, "pc">>] = "unbuilt" => ledger'[<<t, "pc">>] = "unbuilt"
  /\ \A v \in Vault : Landed(<<t, v>>) => Landed(<<t, v>>)'

LEMMA QuietCluster ==
  ASSUME DexType, NEW t \in Task, UNCHANGED ledgerVars \/ Cluster
  PROVE  Quiet(t)
<1>1. \A p \in Part : <<t, p>> \in Tx
  BY DexTxAssumption
<1>2. CASE UNCHANGED ledgerVars
  BY <1>2 DEF Quiet, ledgerVars, Landed
<1>3. CASE NextBlockhash
  BY <1>3 DEF Quiet, NextBlockhash, Landed
<1>4. ASSUME NEW x \in Tx, Confirm(x) \/ Finalize(x) \/ Expire(x) PROVE Quiet(t)
  BY <1>1, <1>4
  DEF Quiet, Confirm, Finalize, Expire, Landed, OwnTx, DexType, Stage, Part, Vault
<1> QED
  BY <1>2, <1>3, <1>4 DEF Cluster

(* Building or submitting x does nothing to the other transactions, and    *)
(* nothing to what has landed.                                             *)
LEMMA LedgerTouch ==
  ASSUME DexType, NEW x \in Tx, ledger' = Built(x) \/ ledger' = Submitted(x)
  PROVE  /\ ledger' \in [Tx -> Stage]
         /\ \A y \in Tx : y # x => ledger'[y] = ledger[y]
         /\ \A y \in Tx : Landed(y) => Landed(y)'
         /\ ledger' = Submitted(x) => (ledger[x] = "unbuilt" => ledger'[x] = "unbuilt")
         /\ ledger' = Built(x) /\ ledger[x] \in {"unbuilt", "new", "expired"} =>
              ledger'[x] \in {"unbuilt", "new", "expired"}
BY DEF DexType, Built, Submitted, Landed, Stage

LEMMA QuietOthers ==
  ASSUME DexType, NEW t \in Task, NEW u \in Task, u # t, NEW p \in Part,
         ledger' = Built(<<t, p>>) \/ ledger' = Submitted(<<t, p>>)
  PROVE  Quiet(u)
<1>1. <<t, p>> \in Tx /\ \A q \in Part : <<u, q>> \in Tx /\ <<u, q>> # <<t, p>>
  BY DexTxAssumption
<1>2. \A q \in Part : ledger'[<<u, q>>] = ledger[<<u, q>>]
  BY <1>1, LedgerTouch
<1> QED
  BY <1>2 DEF Quiet, Landed, OwnTx, Part, Vault

(* A request that a step leaves alone stays good.                          *)
Alone(u) ==
  /\ kind'[u] = kind[u] /\ pc'[u] = pc[u] /\ reply'[u] = reply[u]
  /\ calls'[u] = calls[u] /\ asked'[u] = asked[u] /\ signed'[u] = signed[u]

LEMMA PlanMore ==
  ASSUME NEW k, NEW s, NEW made, NEW checked, Plan(k, s, made, checked),
         NEW made2, made \subseteq made2
  PROVE  Plan(k, s, made2, checked)
BY DEF Plan

LEMMA GoodAlone ==
  ASSUME NEW u \in Task, Good(u), Alone(u), Quiet(u)
  PROVE  Good(u)'
<1>1. Made(u) \subseteq Made(u)'
  BY DEF Quiet, Made
<1>2. pc[u] \in Awaiting =>
        Plan(kind[u], calls[u], Made(u)', OrderConverts(kind[u], asked[u]))
  BY <1>1, PlanMore DEF Good
<1>3. VaultsInOrder(u)'
  BY DEF Good, Alone, Quiet, VaultsInOrder, Vault
<1>4. pc'[u] \in Awaiting =>
        Plan(kind'[u], calls'[u], Made(u)', OrderConverts(kind'[u], asked'[u]))
  BY <1>2 DEF Alone
<1>5. OwnTx(u)' = OwnTx(u)
  BY DEF OwnTx
<1> QED
  BY <1>3, <1>4, <1>5 DEF Good, Alone, Quiet

LEMMA FinishType ==
  ASSUME DexType, NEW t \in Task, NEW r \in Reply, Finish(t, r)
  PROVE  /\ pc' \in [Task -> {"idle", "done"} \cup Awaiting]
         /\ reply' \in [Task -> Reply]
         /\ holder' \in [Mutex -> Task \cup {NoTask}]
         /\ pc'[t] = "done" /\ reply'[t] = r
         /\ \A u \in Task \ {t} : pc'[u] = pc[u] /\ reply'[u] = reply[u]
BY DEF DexType, Finish, Dropped

LEMMA GuardsDroppedType ==
  ASSUME DexType, NEW t \in Task
  PROVE  GuardsDropped(t) \in [Mutex -> Task \cup {NoTask}]
BY DEF DexType, GuardsDropped, Dropped

(* A request ends with an error.                                           *)
LEMMA GoodError ==
  ASSUME DexInv, NEW t \in Task, pc[t] # "done", NEW r \in Reply \ {"none", "ok"}, Finish(t, r),
         UNCHANGED <<ledgerVars, calls, asked, signed>>,
         kind' \in [Task -> Procedure \cup {"none"}],
         \A u \in Task \ {t} : kind'[u] = kind[u],
         verdict' \in [Task -> {"none", "None", "Some"}]
  PROVE  DexInv'
<1>1. DexType'
  BY FinishType DEF DexInv, DexType, ledgerVars
<1>2. Good(t)'
  <2>1. reply[t] = "none" /\ signed[t] = NoOrder
    BY DEF DexInv, Good
  <2>2. pc'[t] = "done" /\ reply'[t] = r
    BY FinishType DEF DexInv
  <2> QED
    BY <2>1, <2>2 DEF DexInv, Good, VaultsInOrder, Awaiting, Landed, OwnTx, ledgerVars
<1>3. ASSUME NEW u \in Task \ {t} PROVE Good(u)'
  BY FinishType, QuietCluster, GoodAlone DEF DexInv, Alone
<1> QED
  BY <1>1, <1>2, <1>3 DEF DexInv

(* A request arrives.                                                      *)
LEMMA GoodRefuse ==
  ASSUME DexInv, NEW t \in Task, NEW k \in Procedure, Refuse(t, k)
  PROVE  DexInv'
<1>1. PICK status \in EarlyFault(k) \cup LateFault(k) : Finish(t, status)
  BY DEF Refuse
<1>2. status \in Reply \ {"none", "ok"}
  BY DEF EarlyFault, LateFault, Reply
<1> QED
  BY <1>1, <1>2, GoodError DEF Refuse, orderVars, DexInv, DexType

LEMMA GoodAtOnce ==
  ASSUME DexInv, NEW t \in Task, NEW k \in Procedure, AnswerAtOnce(t, k)
  PROVE  DexInv'
<1>1. "ok" \in Reply /\ Finish(t, "ok") /\ k = "monitor_queue" /\ pc[t] = "idle"
  BY DEF AnswerAtOnce, Reply
<1>2. /\ kind' = [kind EXCEPT ![t] = k]
      /\ UNCHANGED <<ledgerVars, calls, asked, signed, verdict>>
  BY DEF AnswerAtOnce, orderVars
<1>3. DexType'
  BY <1>1, <1>2, FinishType DEF DexInv, DexType, ledgerVars
<1>4. Good(t)'
  <2>1. reply[t] = "none" /\ signed[t] = NoOrder
    BY <1>1 DEF DexInv, Good
  <2>2. pc'[t] = "done" /\ kind'[t] = "monitor_queue"
    BY <1>1, <1>2, FinishType DEF DexInv, DexType
  <2>3. reply'[t] = "ok"
    BY <1>1, FinishType DEF DexInv
  <2> QED
    BY <1>2, <2>1, <2>2, <2>3
    DEF DexInv, Good, VaultsInOrder, Awaiting, Landed, OwnTx, ledgerVars
<1>5. ASSUME NEW u \in Task \ {t} PROVE Good(u)'
  BY <1>1, <1>2, FinishType, QuietCluster, GoodAlone DEF DexInv, DexType, Alone
<1> QED
  BY <1>3, <1>4, <1>5 DEF DexInv

LEMMA GoodAccept ==
  ASSUME DexInv, NEW t \in Task, NEW k \in Procedure, Accept(t, k)
  PROVE  DexInv'
<1>1. PICK byId \in BOOLEAN, unnamed \in BOOLEAN, req \in Requested(k) :
        /\ byId \/ OrderConverts(k, req)
        /\ Script(k, byId, unnamed) # <<>>
        /\ calls' = [calls EXCEPT ![t] = Script(k, byId, unnamed)]
        /\ asked' = [asked EXCEPT ![t] = req]
  BY DEF Accept
<1>2. /\ pc[t] = "idle" /\ kind' = [kind EXCEPT ![t] = k] /\ pc' = [pc EXCEPT ![t] = "lock"]
      /\ UNCHANGED <<reply, holder, ledgerVars, signed, verdict>>
  BY DEF Accept
<1>3. req \in OrderRequest \cup {NoOrder}
  BY DEF Requested
<1>4. DexType'
  BY <1>1, <1>2, <1>3 DEF DexInv, DexType, ledgerVars, Awaiting
<1>5. Good(t)'
  <2>1. reply[t] = "none" /\ signed[t] = NoOrder
    BY <1>2 DEF DexInv, Good
  <2>2. /\ kind'[t] = k /\ pc'[t] = "lock" /\ asked'[t] = req
        /\ calls'[t] = Script(k, byId, unnamed)
    BY <1>1, <1>2 DEF DexInv, DexType
  <2>3. Plan(k, Script(k, byId, unnamed), Made(t)', OrderConverts(k, req))
    BY <1>1, ScriptPlan, HandlerAssumption
  <2> QED
    BY <1>2, <2>1, <2>2, <2>3
    DEF DexInv, Good, VaultsInOrder, Awaiting, Landed, OwnTx, ledgerVars
<1>6. ASSUME NEW u \in Task \ {t} PROVE Good(u)'
  BY <1>1, <1>2, QuietCluster, GoodAlone DEF DexInv, DexType, Alone
<1> QED
  BY <1>4, <1>5, <1>6 DEF DexInv

(* The call a handler is at is one of the daemon's RPCs.                   *)
LEMMA AtCall ==
  ASSUME DexInv, NEW t \in Task, pc[t] \in Awaiting
  PROVE  /\ Plan(kind[t], calls[t], Made(t), OrderConverts(kind[t], asked[t]))
         /\ reply[t] = "none" /\ signed[t] = NoOrder
         /\ 1 \in 1..Len(calls[t]) /\ Call(t) = calls[t][1]
         /\ Op(t) \in Rpc /\ calls[t][1] = <<Op(t), Call(t)[2]>>
         /\ Call(t)[2] \in Part /\ CurrentTx(t) \in Tx
<1>1. /\ Plan(kind[t], calls[t], Made(t), OrderConverts(kind[t], asked[t]))
      /\ reply[t] = "none" /\ signed[t] = NoOrder
  BY DEF DexInv, Good, Awaiting
<1>2. 1 \in 1..Len(calls[t]) /\ calls[t] \in Seq(RpcCalls) /\ calls[t] # <<>>
  BY <1>1 DEF Plan
<1>3. Head(calls[t]) = calls[t][1]
  BY <1>2
<1>4. calls[t][1] \in RpcCalls
  BY <1>2, ElementOfSeq
<1> QED
  BY <1>1, <1>2, <1>3, <1>4, DexTxAssumption DEF Call, Op, CurrentTx, RpcCalls

(* A transaction handed to the cluster is that of a vault.                 *)
LEMMA GoodLock ==
  ASSUME DexInv, NEW t \in Task, Lock(t)
  PROVE  DexInv'
<1>1. /\ pc[t] = "lock" /\ Take(t, "rpc", "call") /\ pc' = [pc EXCEPT ![t] = "call"]
      /\ UNCHANGED <<kind, reply, fresh, calls, asked, signed, verdict>>
  BY DEF Lock, Take, orderVars
<1>2. ledger' = ledger \/ (Op(t) = "send" /\ ledger' = Submitted(CurrentTx(t)))
  BY DEF Lock
<1>3. CurrentTx(t) \in Tx /\ (Op(t) = "send" => Call(t)[2] \in Vault)
  BY <1>1, AtCall DEF Plan, Awaiting
<1>4. \A p \in Part : <<t, p>> \in Tx
  BY DexTxAssumption
<1>5. Quiet(t)
  BY <1>2, <1>3, <1>4, LedgerTouch DEF Quiet, CurrentTx, OwnTx, Vault, Part, DexInv, Landed
<1>6. DexType'
  BY <1>1, <1>2, <1>3, LedgerTouch DEF DexInv, DexType, Take, Awaiting
<1>7. Good(t)'
  <2>1. Made(t) \subseteq Made(t)'
    BY <1>5 DEF Quiet, Made
  <2>2. Plan(kind[t], calls[t], Made(t)', OrderConverts(kind[t], asked[t]))
    BY <1>1, <2>1, AtCall, PlanMore DEF Awaiting
  <2>3. pc'[t] = "call"
    BY <1>1 DEF DexInv, DexType
  <2>4. VaultsInOrder(t)'
    BY <1>1, <1>5 DEF DexInv, Good, Quiet, VaultsInOrder, Vault
  <2>5. OwnTx(t)' = OwnTx(t)
    BY DEF OwnTx
  <2> QED
    BY <1>1, <1>5, <2>2, <2>3, <2>4, <2>5, AtCall DEF DexInv, Good, Quiet, Awaiting
<1>8. ASSUME NEW u \in Task \ {t} PROVE Good(u)'
  <2>1. Alone(u)
    BY <1>1 DEF Alone, DexInv, DexType
  <2>2. Quiet(u)
    <3>1. CASE ledger' = ledger
      BY <1>1, <3>1, QuietCluster DEF DexInv, ledgerVars
    <3>2. CASE ledger' = Submitted(CurrentTx(t))
      BY <1>1, <3>2, AtCall, QuietOthers DEF DexInv, CurrentTx, Awaiting
    <3> QED
      BY <1>2, <3>1, <3>2
  <2> QED
    BY <2>1, <2>2, GoodAlone DEF DexInv
<1> QED
  BY <1>6, <1>7, <1>8 DEF DexInv

(* What a good answer does to the ledger: a pc vault is begun only when    *)
(* the coin vault is there, and the client's transaction stays unsent.     *)
LEMMA AnswerTouch ==
  ASSUME DexInv, NEW t \in Task, pc[t] = "call",
         IF Op(t) = "hash"
           THEN /\ ledger' = Built(CurrentTx(t))
                /\ fresh' \in {fresh, fresh \cup {CurrentTx(t)}}
           ELSE UNCHANGED ledgerVars
  PROVE  /\ ledger' \in [Tx -> Stage] /\ fresh' \subseteq Tx
         /\ ledger[OwnTx(t)] \in {"unbuilt", "new", "expired"} =>
              ledger'[OwnTx(t)] \in {"unbuilt", "new", "expired"}
         /\ \A v \in Vault : Landed(<<t, v>>) => Landed(<<t, v>>)'
         /\ ledger'[<<t, "pc">>] # "unbuilt" => Landed(<<t, "coin">>)'
         /\ \A u \in Task \ {t} : Quiet(u)
<1>1. /\ CurrentTx(t) \in Tx /\ CurrentTx(t) = <<t, Call(t)[2]>> /\ Call(t)[2] \in Part
      /\ \A p \in Part : <<t, p>> \in Tx
  BY AtCall, DexTxAssumption DEF Awaiting, CurrentTx
<1>2. ledger[<<t, "pc">>] # "unbuilt" => Landed(<<t, "coin">>)
  BY DEF DexInv, Good, VaultsInOrder
<1>3. CASE Op(t) = "hash"
  <2>1. ledger' = Built(CurrentTx(t)) /\ fresh' \in {fresh, fresh \cup {CurrentTx(t)}}
    BY <1>3
  <2>2. CurrentTx(t) = <<t, "pc">> => Landed(<<t, "coin">>)
    <3>1. SUFFICES ASSUME Call(t)[2] = "pc" PROVE Landed(<<t, "coin">>)
      BY <1>1
    <3>2. calls[t][1] = <<"hash", "pc">> /\ 1 \in 1..Len(calls[t])
      BY <1>3, <3>1, AtCall DEF Awaiting
    <3>3. ~ \E j \in 1..(1 - 1) : calls[t][j] = <<"send", "coin">>
      OBVIOUS
    <3> QED
      BY <3>2, <3>3, AtCall DEF Plan, Awaiting, Made
  <2>3. \A y \in Tx : /\ y # CurrentTx(t) => ledger'[y] = ledger[y]
                      /\ Landed(y) => Landed(y)'
    BY <1>1, <2>1, LedgerTouch DEF DexInv
  <2>4. ledger' \in [Tx -> Stage] /\ fresh' \subseteq Tx
    BY <1>1, <2>1, LedgerTouch DEF DexInv, DexType
  <2>5. ledger[OwnTx(t)] \in {"unbuilt", "new", "expired"} =>
          ledger'[OwnTx(t)] \in {"unbuilt", "new", "expired"}
    BY <1>1, <2>1, <2>3, LedgerTouch DEF DexInv, OwnTx, Part
  <2>6. ledger'[<<t, "pc">>] # "unbuilt" => Landed(<<t, "coin">>)'
    BY <1>1, <1>2, <2>2, <2>3 DEF Part
  <2>7. \A u \in Task \ {t} : Quiet(u)
    BY <1>1, <2>1, QuietOthers DEF DexInv
  <2> QED
    BY <1>1, <2>3, <2>4, <2>5, <2>6, <2>7 DEF Vault, Part
<1>4. CASE Op(t) # "hash"
  <2>1. UNCHANGED ledgerVars
    BY <1>4
  <2>2. \A u \in Task : Quiet(u)
    BY <2>1, QuietCluster DEF DexInv
  <2> QED
    BY <1>2, <2>1, <2>2 DEF DexInv, DexType, ledgerVars, Landed
<1> QED
  BY <1>3, <1>4

(* A good answer with more to come: the plan has one step less.            *)
LEMMA GoodReturn ==
  ASSUME DexInv, NEW t \in Task, Return(t)
  PROVE  DexInv'
<1>1. /\ pc[t] = "call" /\ Succeeds(t) /\ Len(calls[t]) > 1
      /\ Op(t) = "market" => OrderConverts(kind[t], asked[t])
      /\ calls' = [calls EXCEPT ![t] = Tail(@)] /\ pc' = [pc EXCEPT ![t] = "lock"]
      /\ holder' = GuardsDropped(t)
      /\ UNCHANGED <<kind, reply, asked, signed, verdict>>
  BY DEF Return, orderVars
<1>2. /\ ledger' \in [Tx -> Stage] /\ fresh' \subseteq Tx
      /\ ledger[OwnTx(t)] \in {"unbuilt", "new", "expired"} =>
           ledger'[OwnTx(t)] \in {"unbuilt", "new", "expired"}
      /\ \A v \in Vault : Landed(<<t, v>>) => Landed(<<t, v>>)'
      /\ ledger'[<<t, "pc">>] # "unbuilt" => Landed(<<t, "coin">>)'
      /\ \A u \in Task \ {t} : Quiet(u)
  <2>1. Receive(t)
    BY DEF Return
  <2> QED
    BY <1>1, <2>1, AnswerTouch DEF Receive
<1>3. DexType'
  BY <1>1, <1>2, GuardsDroppedType DEF DexInv, DexType, Awaiting
<1>4. Good(t)'
  <2>1. Made(t) \subseteq Made(t)'
    BY <1>2 DEF Made
  <2>2. calls[t][1][1] = "send" => calls[t][1][2] \in Made(t)'
    <3>1. SUFFICES ASSUME Op(t) = "send" PROVE Call(t)[2] \in Made(t)'
      BY <1>1, AtCall DEF Awaiting
    <3>2. Landed(<<t, Call(t)[2]>>) /\ Call(t)[2] \in Vault
      BY <1>1, <3>1, AtCall DEF Succeeds, CurrentTx, Plan, Awaiting
    <3> QED
      BY <1>2, <3>2 DEF Made
  <2>3. calls[t][1][1] = "market" => OrderConverts(kind[t], asked[t])
    BY <1>1, AtCall DEF Awaiting
  <2>4. Plan(kind[t], Tail(calls[t]), Made(t)', OrderConverts(kind[t], asked[t]))
    <3>1. Plan(kind[t], calls[t], Made(t), OrderConverts(kind[t], asked[t]))
      BY <1>1, AtCall DEF Awaiting
    <3>2. ASSUME NEW s, s = calls[t], NEW made, made = Made(t), NEW made2, made2 = Made(t)',
                 NEW k, k = kind[t]
          PROVE  Plan(k, Tail(s), made2, OrderConverts(kind[t], asked[t]))
      <4>1. Len(s) > 1 /\ made \subseteq made2
        BY <1>1, <2>1, <3>2
      <4>2. s[1][1] = "send" => s[1][2] \in made2
        BY <2>2, <3>2
      <4>3. s[1][1] = "market" => OrderConverts(kind[t], asked[t])
        BY <2>3, <3>2
      <4>4. Plan(k, s, made, OrderConverts(kind[t], asked[t]))
        BY <3>1, <3>2
      <4> QED
        BY <4>1, <4>2, <4>3, <4>4, PlanTail
    <3> QED
      BY <3>2
  <2>5. pc'[t] = "lock" /\ calls'[t] = Tail(calls[t])
    BY <1>1 DEF DexInv, DexType
  <2>6. OwnTx(t)' = OwnTx(t)
    BY DEF OwnTx
  <2> QED
    BY <1>1, <1>2, <2>4, <2>5, <2>6, AtCall DEF DexInv, Good, VaultsInOrder, Awaiting
<1>5. ASSUME NEW u \in Task \ {t} PROVE Good(u)'
  BY <1>1, <1>2, GoodAlone DEF DexInv, DexType, Alone
<1> QED
  BY <1>3, <1>4, <1>5 DEF DexInv

(* An order that converts to an instruction converts to one that says what *)
(* was asked: nothing is truncated or renumbered.                          *)
LEMMA OrderFaithful ==
  ASSUME NEW req \in OrderRequest \cup {NoOrder}, convert_new_order_v3(req) # Refused
  PROVE  /\ SaysTheSame(req, convert_new_order_v3(req))
         /\ convert_new_order_v3(req) # NoOrder
<1> DEFINE ins == convert_new_order_v3(req)
<1>1. /\ WellFormed(req) /\ ~(LimitSize - 1 <= req.limit)
      /\ ins = Instruction(req, req.limit % LimitSize)
  BY DEF convert_new_order_v3
<1>2. req.side \in BOOLEAN /\ req.limit \in Nat
  <2>1. req.order = "v3" /\ req # NoOrder
    BY <1>1 DEF WellFormed, NoOrder
  <2> QED
    BY <2>1, OrderRequestAssumption
<1>3. req.limit % LimitSize = req.limit
  BY <1>1, <1>2, LimitSizeAssumption
<1>4. \A names : names # {} => The(names) \in names
  BY DEF The
<1>5. /\ SelfTradeBehavior[The(Numbered(SelfTradeBehavior, req.self_trade_behavior))]
           = req.self_trade_behavior
      /\ OrderType[The(Numbered(OrderType, req.order_type))] = req.order_type
  BY <1>1, <1>4 DEF WellFormed, Numbered
<1>6. "limit" \in DOMAIN ins /\ "limit" \notin DOMAIN NoOrder
  BY <1>1 DEF Instruction, NoOrder
<1> QED
  BY <1>1, <1>2, <1>3, <1>5, <1>6 DEF SaysTheSame, Instruction

(* The last good answer: the client gets what its request was for.         *)
LEMMA GoodSucceed ==
  ASSUME DexInv, NEW t \in Task, Succeed(t)
  PROVE  DexInv'
<1>1. /\ pc[t] = "call" /\ Succeeds(t) /\ Len(calls[t]) = 1 /\ Op(t) # "simulate"
      /\ Finish(t, "ok")
      /\ signed' = IF kind[t] = "new_order"
                   THEN [signed EXCEPT ![t] = convert_new_order_v3(asked[t])] ELSE signed
      /\ UNCHANGED <<kind, calls, asked, verdict>>
  BY DEF Succeed
<1>2. /\ ledger' \in [Tx -> Stage] /\ fresh' \subseteq Tx
      /\ \A v \in Vault : Landed(<<t, v>>) => Landed(<<t, v>>)'
      /\ ledger'[<<t, "pc">>] # "unbuilt" => Landed(<<t, "coin">>)'
      /\ \A u \in Task \ {t} : Quiet(u)
  <2>1. Receive(t)
    BY DEF Succeed
  <2> QED
    BY <1>1, <2>1, AnswerTouch DEF Receive
<1>3. "ok" \in Reply
  BY DEF Reply
<1>4. DexType'
  BY <1>1, <1>2, <1>3, FinishType DEF DexInv, DexType
<1>5. Good(t)'
  <2>1. pc'[t] = "done" /\ reply'[t] = "ok"
    BY <1>1, <1>3, FinishType DEF DexInv
  <2>2. kind[t] = "list_market" => Landed(<<t, "coin">>)' /\ Landed(<<t, "pc">>)'
    <3>1. SUFFICES ASSUME kind[t] = "list_market", NEW v \in Vault PROVE Landed(<<t, v>>)'
      BY DEF Vault
    <3>2. v \in Made(t) \/ calls[t][1] = <<"send", v>>
      BY <1>1, <3>1, AtCall DEF Plan, Awaiting
    <3>3. calls[t][1] = <<"send", v>> => Landed(<<t, v>>)
      BY <1>1, AtCall DEF Succeeds, CurrentTx, Awaiting
    <3> QED
      BY <1>2, <3>2, <3>3 DEF Made
  <2>3. VaultsInOrder(t)'
    BY <1>1, <1>2, <2>2 DEF VaultsInOrder
  <2>4. CASE kind[t] = "new_order"
    <3>1. convert_new_order_v3(asked[t]) # Refused
      BY <1>1, <2>4, AtCall DEF Plan, OrderConverts, Awaiting
    <3>2. asked[t] \in OrderRequest \cup {NoOrder}
      BY DEF DexInv, DexType
    <3>3. signed'[t] = convert_new_order_v3(asked[t])
      BY <1>1, <2>4 DEF DexInv, DexType
    <3> QED
      BY <1>1, <2>1, <2>3, <2>4, <3>1, <3>2, <3>3, OrderFaithful DEF Good, Awaiting
  <2>5. CASE kind[t] # "new_order"
    BY <1>1, <2>1, <2>3, <2>5, AtCall DEF Good, Awaiting
  <2> QED
    BY <2>4, <2>5
<1>6. ASSUME NEW u \in Task \ {t} PROVE Good(u)'
  <2>1. Alone(u)
    BY <1>1, <1>3, FinishType DEF DexInv, DexType, Alone
  <2> QED
    BY <1>2, <2>1, GoodAlone DEF DexInv
<1> QED
  BY <1>4, <1>5, <1>6 DEF DexInv

(* A failed simulation and a good one are both the end of a request that   *)
(* neither lists a market nor places an order.                             *)
LEMMA GoodSimulated ==
  ASSUME DexInv, NEW t \in Task, NEW err \in {"None", "Some"}, Simulated(t, err)
  PROVE  DexInv'
<1>1. PICK r \in {"ok", "internal"} : Finish(t, r)
  BY DEF Simulated
<1>2. /\ pc[t] = "call" /\ Op(t) = "simulate" /\ verdict' = [verdict EXCEPT ![t] = err]
      /\ UNCHANGED <<kind, ledgerVars, calls, asked, signed>>
  BY DEF Simulated, orderVars
<1>3. kind[t] \notin {"list_market", "new_order"}
  BY <1>2, AtCall DEF Plan, HandsOut, Awaiting
<1>4. r \in Reply
  BY DEF Reply
<1>5. DexType'
  BY <1>1, <1>2, <1>4, FinishType DEF DexInv, DexType, ledgerVars
<1>6. Good(t)'
  <2>1. pc'[t] = "done" /\ reply'[t] = r
    BY <1>1, <1>4, FinishType DEF DexInv
  <2>2. VaultsInOrder(t)'
    BY <1>2, <1>3 DEF DexInv, Good, VaultsInOrder, Landed, ledgerVars
  <2>3. ledger[OwnTx(t)] \in {"unbuilt", "new", "expired"} /\ signed[t] = NoOrder
    BY <1>2, AtCall DEF DexInv, Good, Awaiting
  <2> QED
    BY <1>2, <1>3, <2>1, <2>2, <2>3 DEF Good, Awaiting, OwnTx, ledgerVars
<1>7. ASSUME NEW u \in Task \ {t} PROVE Good(u)'
  BY <1>1, <1>2, <1>4, FinishType, QuietCluster, GoodAlone DEF DexInv, Alone
<1> QED
  BY <1>5, <1>6, <1>7 DEF DexInv

(* Errors, faults seen late, bad accounts and clients that leave.          *)
LEMMA GoodFailures ==
  ASSUME DexInv, NEW t \in Task, Fail(t) \/ RefuseLate(t) \/ BadAccount(t) \/ Cancel(t)
  PROVE  DexInv'
<1>1. \E r \in Reply \ {"none", "ok"} : Finish(t, r)
  BY DEF Fail, RefuseLate, BadAccount, Cancel, FailureStatus, LateFault, Reply
<1>2. pc[t] # "done" /\ UNCHANGED <<kind, ledgerVars, calls, asked, signed, verdict>>
  BY DEF Fail, RefuseLate, BadAccount, Cancel, RpcWait, RpcCall, orderVars
<1> QED
  BY <1>1, <1>2, GoodError DEF DexInv, DexType

(* Only a client that was told OK submits what it was given.               *)
LEMMA GoodSubmits ==
  ASSUME DexInv, NEW t \in Task, ClientSubmits(t)
  PROVE  DexInv'
<1>1. /\ reply[t] = "ok" /\ ledger' = Submitted(<<t, "own">>)
      /\ UNCHANGED <<kind, pc, reply, holder, fresh, calls, asked, signed, verdict>>
  BY DEF ClientSubmits, OwnTx, orderVars
<1>2. \A p \in Part : <<t, p>> \in Tx
  BY DexTxAssumption
<1>3. "own" \in Part
  BY DEF Part
<1>4. DexType'
  BY <1>1, <1>2, <1>3, LedgerTouch DEF DexInv, DexType
<1>5. Good(t)'
  <2>1. \A v \in Vault : Landed(<<t, v>>) => Landed(<<t, v>>)'
    BY <1>1, <1>2, <1>3, LedgerTouch DEF DexInv, Vault, Part
  <2>2. ledger'[<<t, "pc">>] = ledger[<<t, "pc">>]
    BY <1>1, <1>2, <1>3, LedgerTouch DEF DexInv, Part
  <2>3. VaultsInOrder(t)'
    BY <1>1, <2>1, <2>2 DEF DexInv, Good, VaultsInOrder, Vault
  <2> QED
    BY <1>1, <2>3 DEF DexInv, Good, Awaiting
<1>6. ASSUME NEW u \in Task \ {t} PROVE Good(u)'
  BY <1>1, <1>3, QuietOthers, GoodAlone DEF DexInv, Alone
<1> QED
  BY <1>4, <1>5, <1>6 DEF DexInv

LEMMA GoodEnvironment ==
  ASSUME DexInv, UNCHANGED <<kind, pc, reply, holder, calls, asked, signed, verdict>>,
         UNCHANGED ledgerVars \/ Cluster
  PROVE  DexInv'
<1>1. ledger' \in [Tx -> Stage] /\ fresh' \subseteq Tx
  BY DEF DexInv, DexType, ledgerVars, Cluster, NextBlockhash, Confirm, Finalize, Expire, Stage
<1>2. DexType'
  BY <1>1 DEF DexInv, DexType
<1>3. ASSUME NEW u \in Task PROVE Good(u)'
  BY QuietCluster, GoodAlone DEF DexInv, Alone
<1> QED
  BY <1>2, <1>3 DEF DexInv

LEMMA DexNext == DexInv /\ [Next]_vars => DexInv'
<1> SUFFICES ASSUME DexInv, [Next]_vars PROVE DexInv'
  OBVIOUS
<1>1. ASSUME NEW t \in Task, NEW k \in Procedure,
             Refuse(t, k) \/ Accept(t, k) \/ AnswerAtOnce(t, k)
      PROVE  DexInv'
  BY <1>1, GoodRefuse, GoodAccept, GoodAtOnce
<1>2. ASSUME NEW t \in Task, TaskStep(t) PROVE DexInv'
  <2>1. CASE ReadBlockhash(t)
    BY <2>1, GoodEnvironment DEF ReadBlockhash, orderVars
  <2> QED
    BY <1>2, <2>1, GoodLock, GoodReturn, GoodSucceed, GoodSimulated, GoodFailures DEF TaskStep
<1>3. ASSUME NEW t \in Task, Cancel(t) \/ ClientSubmits(t) PROVE DexInv'
  BY <1>3, GoodFailures, GoodSubmits
<1>4. CASE ClusterStep
  BY <1>4, GoodEnvironment DEF ClusterStep, orderVars
<1>5. CASE UNCHANGED vars
  BY <1>5, GoodEnvironment DEF vars, ledgerVars
<1> QED
  BY <1>1, <1>2, <1>3, <1>4, <1>5 DEF Next, Terminated

LEMMA DexInvariant == Safety => []DexInv
  BY DexInit, DexNext, PTL DEF Safety

(* A blockhash is under way only to a request that awaits one.             *)
ReadInv ==
  /\ read \in [Task -> {"none", "latest", "older"}]
  /\ \A t \in Task : read[t] # "none" => pc[t] = "call" /\ Op(t) = "hash"

LEMMA ReadInit == Init => ReadInv
  BY DEF Init, ReadInv

(* Steps that change nothing an answer under way depends on, but perhaps   *)
(* whether its blockhash is the latest.                                    *)
LEMMA ReadKept ==
  ASSUME ReadInv, pc' = pc, calls' = calls, read' \in {read, Outdated}
  PROVE  ReadInv'
BY DEF ReadInv, Outdated, Op, Call

(* A request goes on, begins or ends: its answer is gone, or none was under*)
(* way.                                                                    *)
LEMMA ReadMoved ==
  ASSUME DexType, ReadInv, NEW t \in Task,
         \A u \in Task \ {t} : pc'[u] = pc[u] /\ calls'[u] = calls[u],
         \/ read' = read /\ pc[t] # "call"
         \/ AnswerGone(t)
  PROVE  ReadInv'
BY DEF ReadInv, AnswerGone, Op, Call

LEMMA ReadNext ==
  ASSUME DexInv, ReadInv, [Next]_vars
  PROVE  ReadInv'
<1>0. DexType
  BY DEF DexInv
<1>1. ASSUME NEW t \in Task, NEW k \in Procedure,
             Refuse(t, k) \/ Accept(t, k) \/ AnswerAtOnce(t, k)
      PROVE  ReadInv'
  <2>1. pc[t] # "call" /\ read' = read
    BY <1>1 DEF Refuse, Accept, AnswerAtOnce
  <2>2. \A u \in Task \ {t} : pc'[u] = pc[u] /\ calls'[u] = calls[u]
    BY <1>0, <1>1 DEF Refuse, Accept, AnswerAtOnce, Finish, DexType
  <2> QED
    BY <1>0, <2>1, <2>2, ReadMoved
<1>2. ASSUME NEW t \in Task, Lock(t)
      PROVE  ReadInv'
  <2>1. pc[t] # "call" /\ read' = read
    BY <1>2 DEF Lock
  <2>2. \A u \in Task \ {t} : pc'[u] = pc[u] /\ calls'[u] = calls[u]
    BY <1>0, <1>2 DEF Lock, Take, DexType
  <2> QED
    BY <1>0, <2>1, <2>2, ReadMoved
<1>3. ASSUME NEW t \in Task, ReadBlockhash(t)
      PROVE  ReadInv'
  BY <1>3 DEF ReadBlockhash, ReadInv, Op, Call
<1>4. ASSUME NEW t \in Task,
             Return(t) \/ Succeed(t) \/ Fail(t) \/ RefuseLate(t) \/ BadAccount(t) \/ Cancel(t)
      PROVE  ReadInv'
  <2>1. AnswerGone(t)
    BY <1>4 DEF Return, Succeed, Fail, RefuseLate, BadAccount, Cancel, Receive
  <2>2. \A u \in Task \ {t} : pc'[u] = pc[u] /\ calls'[u] = calls[u]
    BY <1>0, <1>4
    DEF Return, Succeed, Fail, RefuseLate, BadAccount, Cancel, Finish, DexType
  <2> QED
    BY <1>0, <2>1, <2>2, ReadMoved
<1>5. ASSUME NEW t \in Task, NEW err, Simulated(t, err)
      PROVE  ReadInv'
  <2>1. pc' = [pc EXCEPT ![t] = "done"] /\ calls' = calls /\ read' = read /\ Op(t) # "hash"
    BY <1>5 DEF Simulated, Finish
  <2> QED
    BY <1>0, <2>1 DEF ReadInv, DexType, Op, Call
<1>6. ASSUME pc' = pc, calls' = calls, read' \in {read, Outdated}
      PROVE  ReadInv'
  BY <1>6, ReadKept
<1>7. ASSUME NEW t \in Task, ClientSubmits(t) PROVE ReadInv'
  BY <1>6, <1>7 DEF ClientSubmits
<1>8. CASE ClusterStep
  BY <1>6, <1>8 DEF ClusterStep
<1>9. CASE UNCHANGED vars
  BY <1>6, <1>9 DEF vars
<1> QED
  BY <1>1, <1>2, <1>3, <1>4, <1>5, <1>7, <1>8, <1>9 DEF Next, TaskStep, Terminated

LEMMA ReadInvariant == Safety => []ReadInv
  BY ReadInit, ReadNext, DexInvariant, PTL DEF Safety

(* Every variable keeps its type, a handler awaits only calls of its       *)
(* script, and an order is signed exactly for an answered new_order.       *)
THEOREM DexTypeCorrect == Safety => []TypeOK
<1>1. DexInv /\ ReadInv => TypeOK
  <2> SUFFICES ASSUME DexInv, ReadInv PROVE TypeOK
    OBVIOUS
  <2>1. pc \in [Task -> PC]
    BY DEF DexInv, DexType, Awaiting, PC, RpcWait, RpcCall
  <2>2. \A t \in Task : pc[t] \in Awaiting => calls[t] # <<>>
    BY DEF DexInv, Good, Plan
  <2> QED
    BY <2>1, <2>2 DEF DexInv, DexType, Good, TypeOK, Awaiting, ReadInv
<1> QED
  BY <1>1, DexInvariant, ReadInvariant, PTL

(* The daemon never sends what it signs for a client, whatever the handler *)
(* and however its requests interleave: its sends are about vaults only.   *)
THEOREM SigningNeverSends == Safety => []SigningIsNotSending
<1>1. DexInv => SigningIsNotSending
  BY DEF DexInv, Good, SigningIsNotSending
<1> QED
  BY <1>1, DexInvariant, PTL

(* A listing begins the pc vault when the coin vault is there, and an      *)
(* answered one has both.                                                  *)
THEOREM ListingsHaveVaults == Safety => []VaultsAreMadeInOrder
<1>1. DexInv => VaultsAreMadeInOrder
  BY DEF DexInv, Good, VaultsInOrder, VaultsAreMadeInOrder
<1> QED
  BY <1>1, DexInvariant, PTL

(* The order a client is given to sign is the one it asked for, for every  *)
(* order a message can hold and every width of the limit's field.          *)
THEOREM OrdersAreFaithful == Safety => []SignedOrderIsAsAsked
<1>1. DexInv => SignedOrderIsAsAsked
  BY DEF DexInv, Good, SignedOrderIsAsAsked
<1> QED
  BY <1>1, DexInvariant, PTL
-------------------------------------------------------------------------------
(* The guard of the RPC client and the steps that pass it on.              *)
LEMMA GuardDropped ==
  ASSUME DexType, RpcGuardSpansOneCall, NEW t \in Task,
         NEW p \in {"idle", "done", "lock"},
         pc' = [pc EXCEPT ![t] = p],
         holder' = Dropped(t, Mutex) \/ holder' = Dropped(t, {"rpc"})
  PROVE  RpcGuardSpansOneCall'
BY NoTaskAssumption DEF DexType, RpcGuardSpansOneCall, Holds, Dropped, Mutex, Awaiting

LEMMA GuardTaken ==
  ASSUME DexType, RpcGuardSpansOneCall, NEW t \in Task, Take(t, "rpc", "call")
  PROVE  RpcGuardSpansOneCall'
BY NoTaskAssumption DEF DexType, RpcGuardSpansOneCall, Holds, Take, Mutex, Awaiting

LEMMA GuardFinish ==
  ASSUME DexType, RpcGuardSpansOneCall, NEW t \in Task, NEW r, Finish(t, r)
  PROVE  RpcGuardSpansOneCall'
BY GuardDropped DEF Finish

LEMMA GuardNext ==
  ASSUME DexType, RpcGuardSpansOneCall, [Next]_vars
  PROVE  RpcGuardSpansOneCall'
<1>1. ASSUME NEW t \in Task, NEW k \in Procedure,
             Refuse(t, k) \/ AnswerAtOnce(t, k)
      PROVE  RpcGuardSpansOneCall'
  BY <1>1, GuardFinish DEF Refuse, AnswerAtOnce
<1>2. ASSUME NEW t \in Task, NEW k \in Procedure, Accept(t, k)
      PROVE  RpcGuardSpansOneCall'
  BY <1>2, NoTaskAssumption DEF Accept, DexType, RpcGuardSpansOneCall, Holds, Awaiting
<1>3. ASSUME NEW t \in Task, TaskStep(t) \/ Cancel(t) PROVE RpcGuardSpansOneCall'
  <2>1. CASE Lock(t)
    BY <2>1, GuardTaken DEF Lock
  <2>2. CASE ReadBlockhash(t)
    BY <2>2 DEF ReadBlockhash, RpcGuardSpansOneCall, Holds
  <2>3. CASE Return(t)
    BY <2>3, GuardDropped DEF Return, GuardsDropped
  <2>4. CASE Succeed(t) \/ Fail(t) \/ RefuseLate(t) \/ BadAccount(t) \/ Cancel(t)
    BY <2>4, GuardFinish DEF Succeed, Fail, RefuseLate, BadAccount, Cancel
  <2>5. ASSUME NEW err, Simulated(t, err) PROVE RpcGuardSpansOneCall'
    BY <2>5, GuardFinish DEF Simulated
  <2> QED
    BY <1>3, <2>1, <2>2, <2>3, <2>4, <2>5 DEF TaskStep
<1>4. ASSUME pc' = pc, holder' = holder PROVE RpcGuardSpansOneCall'
  BY <1>4 DEF RpcGuardSpansOneCall, Holds
<1> QED
  BY <1>1, <1>2, <1>3, <1>4 DEF Next, ClientSubmits, ClusterStep, Terminated, vars

(* The handlers of the Dex service hold the RPC client for one call each   *)
(* and nobody takes it along, so that they cannot block each other: who    *)
(* holds the one mutex they use waits for none.                            *)
THEOREM GuardsSpanCalls == Safety => []RpcGuardSpansOneCall
<1>1. Init => RpcGuardSpansOneCall
  <2> SUFFICES ASSUME Init, NEW t \in Task
               PROVE  pc[t] # "call" /\ ~Holds(t, "rpc") /\ ~Holds(t, "tpu")
    BY DEF RpcGuardSpansOneCall
  <2>1. pc[t] = "idle" /\ holder["rpc"] = NoTask /\ holder["tpu"] = NoTask
    BY DEF Init, Mutex
  <2> QED
    BY <2>1, NoTaskAssumption DEF Holds
<1>2. DexInv /\ RpcGuardSpansOneCall /\ [Next]_vars => RpcGuardSpansOneCall'
  BY GuardNext DEF DexInv
<1> QED
  BY <1>1, <1>2, DexInvariant, PTL DEF Safety

(* A request at work has awaits ahead of it; it has none once it is over.  *)
LEMMA SomethingLeft ==
  ASSUME DexInv, NEW t \in Task, Live(t)
  PROVE  AwaitsLeft(t) \in Nat \ {0}
<1>1. pc[t] \in Awaiting /\ pc[t] # "done"
  BY DEF DexInv, DexType, Live
<1>2. Len(calls[t]) \in Nat \ {0}
  BY <1>1, AtCall DEF Plan
<1> QED
  BY <1>1, <1>2 DEF AwaitsLeft

LEMMA NearerByFinishing ==
  ASSUME DexInv, NEW t \in Task, Live(t), NEW r, Finish(t, r)
  PROVE  AwaitsLeft(t)' \in 0..(AwaitsLeft(t) - 1)
<1>1. AwaitsLeft(t)' = 0
  BY DEF DexInv, DexType, Finish, AwaitsLeft
<1> QED
  BY <1>1, SomethingLeft

LEMMA NearerByCalling ==
  ASSUME DexInv, NEW t \in Task, Lock(t) \/ Return(t)
  PROVE  AwaitsLeft(t)' \in 0..(AwaitsLeft(t) - 1)
<1>1. pc[t] \in Awaiting /\ pc[t] # "done"
  BY DEF Lock, Return, Awaiting
<1>2. calls[t] \in Seq(RpcCalls) /\ Len(calls[t]) \in Nat \ {0} /\ calls[t] # <<>>
  BY <1>1, AtCall DEF Plan
<1>3. CASE Lock(t)
  <2>1. pc[t] = "lock" /\ pc'[t] = "call" /\ calls' = calls
    BY <1>3 DEF Lock, Take, DexInv, DexType
  <2> QED
    BY <1>2, <2>1 DEF AwaitsLeft
<1>4. CASE Return(t)
  <2>1. pc[t] = "call" /\ pc'[t] = "lock" /\ calls'[t] = Tail(calls[t])
    BY <1>4 DEF Return, DexInv, DexType
  <2>2. Len(calls'[t]) = Len(calls[t]) - 1
    BY <1>2, <2>1
  <2>3. /\ AwaitsLeft(t) = 2 * Len(calls[t]) - 1
        /\ AwaitsLeft(t)' = 2 * Len(calls'[t]) - 0
    BY <2>1 DEF AwaitsLeft
  <2> QED
    BY <1>2, <2>2, <2>3
<1> QED
  BY <1>3, <1>4

(* A step that moves t is one of its handler or takes its client away.     *)
LEMMA OwnStepsMove ==
  ASSUME DexInv, Next, NEW t \in Task, Live(t),
         <<pc'[t], calls'[t]>> # <<pc[t], calls[t]>>
  PROVE  Cancel(t) \/ (TaskStep(t) /\ ~ReadBlockhash(t))
<1>1. ASSUME NEW u \in Task, NEW k \in Procedure,
             Refuse(u, k) \/ Accept(u, k) \/ AnswerAtOnce(u, k)
      PROVE  FALSE
  <2>1. u # t
    BY <1>1 DEF Refuse, Accept, AnswerAtOnce, Live
  <2> QED
    BY <1>1, <2>1 DEF Refuse, Accept, AnswerAtOnce, Finish, DexInv, DexType
<1>2. ASSUME pc' = pc, calls' = calls PROVE FALSE
  BY <1>2
<1>3. ASSUME NEW u \in Task, TaskStep(u) \/ Cancel(u) PROVE u = t /\ ~ReadBlockhash(u)
  <2>1. ~ReadBlockhash(u)
    BY <1>2 DEF ReadBlockhash
  <2> QED
    BY <1>3, <2>1
    DEF TaskStep, Lock, Return, Succeed, Fail, RefuseLate, BadAccount, Simulated, Cancel,
        Take, Finish, DexInv, DexType
<1> QED
  BY <1>1, <1>2, <1>3 DEF Next, ClientSubmits, ClusterStep, Terminated, vars

(* A handler of the Dex service makes each of its calls once, so that it   *)
(* ends after two awaits for each, whatever the node answers.              *)
THEOREM CallsRunOut == Safety => AnswersComeNearer
<1>1. ASSUME DexInv, Next, NEW t \in Task, Live(t),
             <<pc'[t], calls'[t]>> # <<pc[t], calls[t]>>
      PROVE  AwaitsLeft(t)' \in 0..(AwaitsLeft(t) - 1)
  <2>1. CASE Lock(t) \/ Return(t)
    BY <1>1, <2>1, NearerByCalling
  <2>2. ASSUME NEW r, Finish(t, r) PROVE AwaitsLeft(t)' \in 0..(AwaitsLeft(t) - 1)
    BY <1>1, <2>2, NearerByFinishing
  <2> QED
    BY <1>1, <2>1, <2>2, OwnStepsMove
    DEF TaskStep, Succeed, Fail, RefuseLate, BadAccount, Simulated, Cancel
<1>2. DexInv /\ [Next]_vars =>
        [\A t \in Task :
           Live(t) /\ <<pc'[t], calls'[t]>> # <<pc[t], calls[t]>>
             => AwaitsLeft(t)' \in 0..(AwaitsLeft(t) - 1)]_vars
  BY <1>1
<1> QED
  BY <1>2, DexInvariant, PTL DEF Safety, AnswersComeNearer

===============================================================================
