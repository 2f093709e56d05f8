--------------------------- MODULE EventQueue_proofs ---------------------------
(***************************************************************************)
(* Theorems about cranking, for rings of any size, any owners, any number  *)
(* of clients and any limit on the accounts an instruction may name.       *)
(***************************************************************************)
EXTENDS EventQueue, TLAPS, SequenceTheorems, FiniteSetTheorems

--------------------------------------------------------------------------------
(* The ring.  Its indices stay below twice its size, so that % subtracts   *)
(* the size once or not at all.                                            *)
LEMMA Wraps ==
  ASSUME NEW n \in Nat \ {0}, NEW i \in 0..(2 * n - 1)
  PROVE  i % n = IF i < n THEN i ELSE i - n
  BY SMT

RingType ==
  /\ ring \in [0..(Slots - 1) -> Owner]
  /\ head \in 0..(Slots - 1)
  /\ count \in 0..Slots

(* The account of the queue: its paddings, and room for Slots events.      *)
LEMMA QueueLayout ==
  /\ remove_dex_account_padding(QueueAccount) = "words"
  /\ WordsOf(QueueAccount) = HeaderWords + EventWords * Slots
  /\ RoomOf(QueueAccount) = Slots
  /\ QueueAccount.head = head /\ QueueAccount.count = count
  /\ QueueAccount.owners = [i \in 1..Slots |-> ring[i - 1]]
  <1>1. /\ QueueAccount.head = head /\ QueueAccount.count = count
        /\ QueueAccount.owners = [i \in 1..Slots |-> ring[i - 1]]
        /\ QueueAccount.begins /\ QueueAccount.ends
        /\ QueueAccount.bytes = 12 + 8 * (4 + 11 * Slots)
    BY SlotsAssumption
    DEF QueueAccount, Account, HeadPadding, TailPadding, Word, HeaderWords, EventWords
  <1>2. remove_dex_account_padding(QueueAccount) = "words"
    BY <1>1, SlotsAssumption
    DEF remove_dex_account_padding, HeadPadding, TailPadding, Word
  <1>3. WordsOf(QueueAccount) = 4 + 11 * Slots
    BY <1>1, SlotsAssumption DEF WordsOf, HeadPadding, TailPadding, Word
  <1>4. RoomOf(QueueAccount) = Slots
    BY <1>3, SlotsAssumption DEF RoomOf, HeaderWords, EventWords
  <1> QED
    BY <1>1, <1>2, <1>3, <1>4 DEF HeaderWords, EventWords

(* Reading the two segments of the ring yields it from its head on.        *)
LEMMA RingIsRead ==
  ASSUME RingType
  PROVE  ParseIsFifo /\ Fifo \in Seq(Owner) /\ Len(Fifo) = count
  <1> DEFINE a == QueueAccount
             headLen == IF Slots - head < count THEN Slots - head ELSE count
             tailLen == count - headLen
             seg0 == SubSeq(a.owners, head + 1, head + headLen)
             seg1 == SubSeq(a.owners, 1, tailLen)
  <1>1. /\ headLen \in 0..count /\ tailLen \in 0..head
        /\ head + headLen <= Slots /\ headLen + tailLen = count
        /\ tailLen > 0 => head + headLen = Slots
    BY SlotsAssumption DEF RingType
  <1>2. /\ Slots \in Nat \ {0} /\ head \in 0..(Slots - 1) /\ count \in 0..Slots
        /\ \A i \in 1..Slots : a.owners[i] = ring[i - 1] /\ a.owners[i] \in Owner
    BY QueueLayout, SlotsAssumption DEF RingType
  <1> HIDE DEF a, headLen, tailLen
  <1>3. /\ seg0 \in Seq(Owner) /\ Len(seg0) = headLen
        /\ \A i \in 1..headLen : seg0[i] = ring[head + i - 1]
    <2>1. \A i \in (head + 1)..(head + headLen) : a.owners[i] \in Owner
      BY <1>1, <1>2
    <2>2. head + 1 \in Int /\ head + headLen \in Int
      BY <1>1, <1>2
    <2>3. /\ seg0 \in Seq(Owner)
          /\ Len(seg0) = IF head + 1 <= head + headLen
                         THEN (head + headLen) - (head + 1) + 1 ELSE 0
          /\ \A i \in 1..((head + headLen) - (head + 1) + 1) :
               seg0[i] = a.owners[(head + 1) + i - 1]
      BY <2>1, <2>2, SubSeqProperties
    <2> QED
      BY <1>1, <1>2, <2>3
  <1>4. /\ seg1 \in Seq(Owner) /\ Len(seg1) = tailLen
        /\ \A i \in 1..tailLen : seg1[i] = ring[i - 1]
    <2>1. \A i \in 1..tailLen : a.owners[i] \in Owner
      BY <1>1, <1>2
    <2>2. tailLen \in Int
      BY <1>1, <1>2
    <2>3. /\ seg1 \in Seq(Owner)
          /\ Len(seg1) = IF 1 <= tailLen THEN tailLen - 1 + 1 ELSE 0
          /\ \A i \in 1..(tailLen - 1 + 1) : seg1[i] = a.owners[1 + i - 1]
      BY <2>1, <2>2, SubSeqProperties
    <2> QED
      BY <1>1, <1>2, <2>3
  <1>5. /\ Chained(seg0, seg1) \in Seq(Owner) /\ Len(Chained(seg0, seg1)) = count
        /\ \A i \in 1..count : Chained(seg0, seg1)[i] =
             IF i <= headLen THEN ring[head + i - 1] ELSE ring[i - headLen - 1]
    <2> HIDE DEF seg0, seg1
    <2>1. /\ seg0 \o seg1 \in Seq(Owner) /\ Len(seg0 \o seg1) = headLen + tailLen
          /\ \A i \in 1..(headLen + tailLen) : (seg0 \o seg1)[i] =
               IF i <= headLen THEN seg0[i] ELSE seg1[i - headLen]
      BY <1>3, <1>4, ConcatProperties
    <2>2. ASSUME NEW i \in 1..count, ~(i <= headLen)
          PROVE  i - headLen \in 1..tailLen /\ (i - headLen) - 1 = i - headLen - 1
      BY <1>1, <1>2, <2>2
    <2>3. Chained(seg0, seg1) = seg0 \o seg1
      BY DEF Chained
    <2>4. ASSUME NEW i \in 1..count
          PROVE  (seg0 \o seg1)[i] =
                   IF i <= headLen THEN ring[head + i - 1] ELSE ring[i - headLen - 1]
      <3>1. CASE i <= headLen
        <4>1. (seg0 \o seg1)[i] = seg0[i]
          BY <3>1, <1>1, <2>1
        <4>2. i \in 1..headLen
          BY <3>1, <1>1, <1>2
        <4> QED
          BY <3>1, <4>1, <4>2, <1>3
      <3>2. CASE ~(i <= headLen)
        <4>1. (seg0 \o seg1)[i] = seg1[i - headLen]
          BY <3>2, <1>1, <2>1
        <4>2. seg1[i - headLen] = ring[i - headLen - 1]
          BY <3>2, <2>2, <1>4
        <4> QED
          BY <3>2, <4>1, <4>2
      <3> QED
        BY <3>1, <3>2
    <2> QED
      BY <1>1, <2>1, <2>3, <2>4
  <1>6. ASSUME NEW i \in 1..count
        PROVE  Fifo[i] = Chained(seg0, seg1)[i] /\ Fifo[i] \in Owner
    <2> HIDE DEF seg0, seg1
    <2>1. Fifo[i] = ring[(head + i - 1) % Slots]
      BY DEF Fifo
    <2>2. CASE i <= headLen
      <3>1. head + i - 1 \in 0..(Slots - 1) /\ head + i - 1 \in 0..(2 * Slots - 1)
        BY <1>1, <1>2, <2>2
      <3>2. ASSUME NEW j \in 0..(2 * Slots - 1), j < Slots
            PROVE  j % Slots = j
        BY <3>2, <1>2, Wraps
      <3>3. (head + i - 1) % Slots = head + i - 1
        BY <3>1, <3>2, <1>2
      <3> QED
        BY <2>1, <2>2, <3>1, <3>3, <1>5 DEF RingType
    <2>3. CASE ~(i <= headLen)
      <3>1. /\ head + headLen = Slots
            /\ head + i - 1 \in Slots..(2 * Slots - 1) /\ head + i - 1 \in 0..(2 * Slots - 1)
            /\ i - headLen - 1 \in 0..(Slots - 1) /\ head + i - 1 - Slots = i - headLen - 1
        BY <1>1, <1>2, <2>3
      <3>2. (head + i - 1) % Slots = i - headLen - 1
        BY <3>1, <1>2, Wraps
      <3> QED
        BY <2>1, <2>3, <3>1, <3>2, <1>5 DEF RingType
    <2> QED
      BY <2>2, <2>3
  <1>7. Fifo \in Seq(Owner) /\ Len(Fifo) = count /\ Fifo = Chained(seg0, seg1)
    <2> HIDE DEF seg0, seg1
    <2>1. Fifo \in [1..count -> Owner] /\ DOMAIN Fifo = 1..count
      BY <1>6 DEF Fifo
    <2>2. count \in Nat
      BY <1>2
    <2>3. Fifo \in Seq(Owner) /\ Len(Fifo) = count
      BY <2>1, <2>2
    <2> QED
      BY <2>2, <2>3, <1>5, <1>6, SeqEqual
  <1>8. parse_event_queue(a) = [outcome |-> "events", events |-> Chained(seg0, seg1)]
    <2>1. /\ RoomOf(a) = Slots /\ a.head = head /\ a.count = count
          /\ ~(WordsOf(a) < HeaderWords)
      BY QueueLayout, SlotsAssumption DEF a, HeaderWords, EventWords
    <2>2. /\ Slots # 0 /\ ~(head > Slots) /\ ~(tailLen > head)
      BY <1>1, <1>2
    <2> QED
      BY <2>1, <2>2 DEF parse_event_queue, headLen, tailLen
  <1>9. remove_dex_account_padding(a) = "words"
    BY QueueLayout DEF a
  <1> QED
    BY <1>7, <1>8, <1>9 DEF ParseIsFifo, Read, a

--------------------------------------------------------------------------------
(* The choice of owners.  The rank of an owner is how many sort below it;  *)
(* the owners of a queue have the ranks from 0 up, one each.               *)
Rank(S, o) == Cardinality({p \in S : p < o})

LEMMA RankIsBelow ==
  ASSUME NEW S, IsFiniteSet(S), S \subseteq Nat, NEW o \in S
  PROVE  /\ Rank(S, o) \in Nat /\ Rank(S, o) < Cardinality(S)
         /\ \A p \in S : p < o => Rank(S, p) < Rank(S, o)
  <1>1. ASSUME NEW T, IsFiniteSet(T), NEW U \in SUBSET T, NEW x \in T, x \notin U
        PROVE  /\ Cardinality(U) \in Nat /\ Cardinality(T) \in Nat
               /\ Cardinality(U) < Cardinality(T)
    <2>1. IsFiniteSet(U) /\ Cardinality(U) <= Cardinality(T) /\ Cardinality(T) # Cardinality(U)
      BY <1>1, FS_Subset
    <2>2. Cardinality(U) \in Nat /\ Cardinality(T) \in Nat
      BY <1>1, <2>1, FS_CardinalityType
    <2> QED
      BY <2>1, <2>2
  <1> DEFINE Below(x) == {p \in S : p < x}
  <1>2. Below(o) \in SUBSET S /\ o \notin Below(o)
    OBVIOUS
  <1>3. IsFiniteSet(Below(o))
    BY <1>2, FS_Subset
  <1>4. ASSUME NEW p \in S, p < o
        PROVE  Below(p) \in SUBSET Below(o) /\ p \in Below(o) /\ p \notin Below(p)
    <2>1. \A x \in S : x < p => x < o
      <3>1. \A x \in S : x \in Nat
        OBVIOUS
      <3> QED
        BY <3>1, <1>4
    <2>2. ~(p < p)
      <3>1. p \in Nat
        OBVIOUS
      <3> QED
        BY <3>1
    <2> QED
      BY <2>1, <2>2, <1>4
  <1>5. Rank(S, o) \in Nat /\ Rank(S, o) < Cardinality(S)
    <2> HIDE DEF Below
    <2>1. Cardinality(Below(o)) \in Nat /\ Cardinality(Below(o)) < Cardinality(S)
      BY <1>1, <1>2
    <2> QED
      BY <2>1 DEF Rank, Below
  <1>6. ASSUME NEW p \in S, p < o
        PROVE  Rank(S, p) < Rank(S, o)
    <2> HIDE DEF Below
    <2>1. Cardinality(Below(p)) < Cardinality(Below(o))
      BY <1>1, <1>3, <1>4, <1>6
    <2> QED
      BY <2>1 DEF Rank, Below
  <1> QED
    BY <1>5, <1>6

LEMMA RanksAreApart ==
  ASSUME NEW S, IsFiniteSet(S), S \subseteq Nat,
         NEW o \in S, NEW p \in S, Rank(S, o) = Rank(S, p)
  PROVE  o = p
  <1>0. \A x \in S :
          /\ Rank(S, x) \in Nat /\ Rank(S, x) < Cardinality(S)
          /\ \A y \in S : y < x => Rank(S, y) < Rank(S, x)
    BY RankIsBelow
  <1>1. Rank(S, o) \in Nat /\ ~(o < p) /\ ~(p < o)
    BY <1>0
  <1>2. o \in Nat /\ p \in Nat
    OBVIOUS
  <1> QED
    BY <1>1, <1>2

(* Every rank below the number of owners is somebody's.                    *)
LEMMA RanksAreAllTaken ==
  ASSUME NEW S, IsFiniteSet(S), S \subseteq Nat, NEW k \in 0..(Cardinality(S) - 1)
  PROVE  \E o \in S : Rank(S, o) = k
  <1> DEFINE n == Cardinality(S)
             rank == [o \in S |-> Rank(S, o)]
  <1>0. \A o \in S :
          /\ Rank(S, o) \in Nat /\ Rank(S, o) < Cardinality(S)
          /\ \A p \in S : p < o => Rank(S, p) < Rank(S, o)
    BY RankIsBelow
  <1>1. n \in Nat
    BY FS_CardinalityType
  <1>2. IsFiniteSet(0..(n - 1)) /\ Cardinality(0..(n - 1)) = n
    <2>1. 0 \in Int /\ n - 1 \in Int /\ (IF 0 > n - 1 THEN 0 ELSE (n - 1) - 0 + 1) = n
      BY <1>1
    <2> HIDE DEF n
    <2> QED
      BY <2>1, FS_Interval
  <1>3. rank \in [S -> 0..(n - 1)]
    <2>1. \A o \in S : Rank(S, o) \in 0..(n - 1)
      BY <1>0, <1>1
    <2> QED
      BY <2>1
  <1>4. \A o, p \in S : rank[o] = rank[p] => o = p
    BY RanksAreApart
  <1> HIDE DEF rank, n
  <1>5. rank \in Injection(S, 0..(n - 1))
    BY <1>3, <1>4 DEF Injection, IsInjective
  <1>6. rank \in Surjection(S, 0..(n - 1))
    BY <1>2, <1>5, FS_Injection DEF n
  <1>7. PICK o \in S : rank[o] = k
    BY <1>6 DEF Surjection, n
  <1> QED
    BY <1>7 DEF rank

(* What is left of a sorted, deduplicated and truncated list.              *)
LEMMA LowestChosen ==
  ASSUME NEW S, IsFiniteSet(S), S \subseteq Nat, NEW m \in Nat \ {0},
         NEW T \in SUBSET S, \A o \in S : o \in T <=> Rank(S, o) < m
  PROVE  /\ IsFiniteSet(T) /\ Cardinality(T) <= m
         /\ S # {} => T # {}
         /\ Cardinality(S) <= m => T = S
         /\ \A o \in S \ T : Cardinality(T) = m /\ \A p \in T : p < o
  <1> DEFINE rank == [o \in T |-> Rank(S, o)]
  <1>0. \A o \in S :
          /\ Rank(S, o) \in Nat /\ Rank(S, o) < Cardinality(S)
          /\ \A p \in S : p < o => Rank(S, p) < Rank(S, o)
    BY RankIsBelow
  <1>1. Cardinality(S) \in Nat /\ (S # {} => Cardinality(S) > 0)
    BY FS_CardinalityType, FS_EmptySet
  <1>2. IsFiniteSet(0..(m - 1)) /\ Cardinality(0..(m - 1)) = m
    <2>1. 0 \in Int /\ m - 1 \in Int /\ (IF 0 > m - 1 THEN 0 ELSE (m - 1) - 0 + 1) = m
      OBVIOUS
    <2> QED
      BY <2>1, FS_Interval
  <1>3. rank \in [T -> 0..(m - 1)]
    <2>1. \A o \in T : Rank(S, o) \in 0..(m - 1)
      BY <1>0
    <2> QED
      BY <2>1
  <1>4. \A o, p \in T : rank[o] = rank[p] => o = p
    BY RanksAreApart
  <1>5. rank \in Injection(T, 0..(m - 1))
    <2> HIDE DEF rank
    <2> QED
      BY <1>3, <1>4 DEF Injection, IsInjective
  <1>6. /\ IsFiniteSet(T) /\ Cardinality(T) <= m
        /\ rank \in Surjection(T, 0..(m - 1)) => Cardinality(T) = m
    <2> HIDE DEF rank
    <2> QED
      BY <1>2, <1>5, FS_Injection
  <1>7. S # {} => T # {}
    <2> HAVE S # {}
    <2>1. 0 \in 0..(Cardinality(S) - 1)
      BY <1>1
    <2>2. PICK o \in S : Rank(S, o) = 0
      BY <2>1, RanksAreAllTaken
    <2> QED
      BY <2>2
  <1>8. Cardinality(S) <= m => T = S
    <2> HAVE Cardinality(S) <= m
    <2>1. \A o \in S : Rank(S, o) < m
      BY <1>0, <1>1
    <2> QED
      BY <2>1
  <1>9. ASSUME NEW o \in S \ T
        PROVE  Cardinality(T) = m /\ \A p \in T : p < o
    <2>1. Rank(S, o) \in Nat /\ Rank(S, o) >= m /\ Rank(S, o) < Cardinality(S)
      BY <1>0
    <2>2. ASSUME NEW p \in T
          PROVE  p < o
      <3>1. p \in S /\ Rank(S, p) < m /\ Rank(S, p) \in Nat /\ p \in Nat /\ o \in Nat /\ p # o
        BY <1>0
      <3>2. ~(o < p)
        <4>1. o < p => Rank(S, o) < Rank(S, p)
          BY <1>0, <3>1
        <4> QED
          BY <4>1, <2>1, <3>1
      <3> QED
        BY <3>1, <3>2
    <2>3. ASSUME NEW k \in 0..(m - 1)
          PROVE  \E p \in T : rank[p] = k
      <3>1. k \in 0..(Cardinality(S) - 1)
        BY <1>1, <2>1
      <3>2. PICK p \in S : Rank(S, p) = k
        BY <3>1, RanksAreAllTaken
      <3> QED
        BY <3>2
    <2>4. rank \in Surjection(T, 0..(m - 1))
      <3> HIDE DEF rank
      <3> QED
        BY <1>3, <2>3 DEF Surjection
    <2> QED
      BY <1>6, <2>2, <2>4
  <1> QED
    BY <1>6, <1>7, <1>8, <1>9

LEMMA OwnersAreFinite ==
  ASSUME NEW e \in Seq(Owner)
  PROVE  IsFiniteSet(OwnersOf(e)) /\ OwnersOf(e) \in SUBSET Owner
  <1>1. /\ Len(e) \in Nat /\ e \in [1..Len(e) -> Owner] /\ DOMAIN e = 1..Len(e)
    OBVIOUS
  <1>2. e \in Surjection(1..Len(e), OwnersOf(e))
    BY <1>1 DEF Surjection, OwnersOf
  <1>3. IsFiniteSet(1..Len(e))
    BY <1>1, FS_Interval
  <1> QED
    BY <1>1, <1>2, <1>3, FS_Surjection DEF OwnersOf

(* An instruction names the lowest owners of the events it is built from,  *)
(* all of them if they fit.                                                *)
LEMMA ChosenOwners ==
  ASSUME NEW e \in Seq(Owner)
  PROVE  LET all == OwnersOf(e)
             chosen == orders_accounts(e)
         IN  /\ chosen \in SUBSET Owner /\ chosen \subseteq all
             /\ IsFiniteSet(chosen) /\ Cardinality(chosen) <= MaxAccounts
             /\ e # <<>> => chosen # {}
             /\ Cardinality(all) <= MaxAccounts => chosen = all
             /\ \A o \in all \ chosen :
                  Cardinality(chosen) = MaxAccounts /\ \A p \in chosen : p < o
  <1> DEFINE all == OwnersOf(e)
             chosen == orders_accounts(e)
  <1>1. IsFiniteSet(all) /\ all \in SUBSET Owner /\ all \subseteq Nat
    BY OwnersAreFinite, OwnerAssumption
  <1>2. chosen \in SUBSET all /\ \A o \in all : o \in chosen <=> Rank(all, o) < MaxAccounts
    BY DEF orders_accounts, Rank
  <1>3. e # <<>> => all # {}
    BY DEF OwnersOf
  <1> HIDE DEF all, chosen
  <1>4. /\ IsFiniteSet(chosen) /\ Cardinality(chosen) <= MaxAccounts
        /\ all # {} => chosen # {}
        /\ Cardinality(all) <= MaxAccounts => chosen = all
        /\ \A o \in all \ chosen :
             Cardinality(chosen) = MaxAccounts /\ \A p \in chosen : p < o
    BY <1>1, <1>2, MaxAccountsAssumption, LowestChosen
  <1>5. chosen \subseteq all
    BY <1>2
  <1> QED
    BY <1>1, <1>3, <1>4, <1>5 DEF all, chosen

--------------------------------------------------------------------------------
(* The cranks.  An instruction names the owners chosen from the events it  *)
(* has read, and it is signed only if there were any.                      *)
Status == {"idle", "hash", "signed", "empty", "error", "panic"}

CrankType ==
  /\ RingType
  /\ appended \in 0..MaxEvents
  /\ at \in [Crank -> Status]
  /\ named \in [Crank -> SUBSET Owner]
  /\ snapshot \in [Crank -> Seq(Owner)]

CrankInv ==
  /\ CrankType
  /\ \A c \in Crank : named[c] = orders_accounts(snapshot[c])
  /\ \A c \in Crank : at[c] \in {"hash", "signed"} => snapshot[c] # <<>>

LEMMA NothingChosen == orders_accounts(<<>>) = {}
  BY DEF orders_accounts, OwnersOf

(* Whatever account is named as the queue, reading it yields owners of     *)
(* events, an error or a panic.                                            *)
LEMMA ReadType ==
  ASSUME RingType, NEW a, a = QueueAccount \/ a \in Foreign
  PROVE  Read(a).events \in Seq(Owner) /\ Read(a).outcome \in {"events", "error", "panic"}
  <1>1. CASE a = QueueAccount
    BY <1>1, RingIsRead DEF ParseIsFifo
  <1>2. CASE a \in Foreign
    <2>1. CASE remove_dex_account_padding(a) # "words"
      <3>1. /\ Read(a).events = <<>>
            /\ Read(a).outcome = remove_dex_account_padding(a)
        BY <2>1 DEF Read
      <3>2. remove_dex_account_padding(a) \in {"error", "panic"}
        BY <2>1 DEF remove_dex_account_padding
      <3> QED
        BY <3>1, <3>2
    <2>2. CASE remove_dex_account_padding(a) = "words"
      <3> DEFINE headLen == IF RoomOf(a) - a.head < a.count THEN RoomOf(a) - a.head ELSE a.count
                 tailLen == a.count - headLen
                 seg0 == SubSeq(a.owners, a.head + 1, a.head + headLen)
                 seg1 == SubSeq(a.owners, 1, tailLen)
                 r == parse_event_queue(a)
      <3>1. \/ r.outcome \in {"error", "panic"} /\ r.events = <<>>
            \/ /\ r.outcome = "events" /\ r.events = seg0 \o seg1
               /\ ~(WordsOf(a) < HeaderWords)
               /\ ~(a.head > RoomOf(a)) /\ ~(tailLen > a.head)
        BY DEF parse_event_queue, Chained
      <3>2. Read(a) = r
        BY <2>2 DEF Read
      <3>3. ASSUME /\ ~(WordsOf(a) < HeaderWords)
                   /\ ~(a.head > RoomOf(a)) /\ ~(tailLen > a.head)
            PROVE  seg0 \o seg1 \in Seq(Owner)
        <4>1. /\ a.bytes \in Nat /\ a.head \in Nat /\ a.count \in Nat
              /\ a.owners \in Seq(Owner)
          BY <1>2, ForeignAssumption
        <4>2. WordsOf(a) \in Int
          BY <4>1 DEF WordsOf, HeadPadding, TailPadding, Word
        <4>3. Len(a.owners) = RoomOf(a)
          BY <1>2, <2>2, <3>3, <4>2, ForeignAssumption DEF HeaderWords
        <4>4. /\ headLen \in Nat /\ tailLen \in Nat
              /\ a.head + headLen <= Len(a.owners) /\ tailLen <= Len(a.owners)
          BY <4>1, <4>3, <3>3
        <4>5. \A i \in 1..Len(a.owners) : a.owners[i] \in Owner
          BY <4>1
        <4> HIDE DEF headLen, tailLen
        <4>6. seg0 \in Seq(Owner)
          <5>1. \A i \in (a.head + 1)..(a.head + headLen) : a.owners[i] \in Owner
            BY <4>1, <4>4, <4>5
          <5>2. a.head + 1 \in Int /\ a.head + headLen \in Int
            BY <4>1, <4>4
          <5> QED
            BY <5>1, <5>2, SubSeqProperties
        <4>7. seg1 \in Seq(Owner)
          <5>1. \A i \in 1..tailLen : a.owners[i] \in Owner
            BY <4>1, <4>4, <4>5
          <5>2. tailLen \in Int
            BY <4>4
          <5> QED
            BY <5>1, <5>2, SubSeqProperties
        <4> QED
          BY <4>6, <4>7, ConcatProperties
      <3>4. <<>> \in Seq(Owner)
        OBVIOUS
      <3> HIDE DEF r, seg0, seg1, headLen, tailLen
      <3> QED
        BY <3>1, <3>2, <3>3, <3>4
    <2> QED
      BY <2>1, <2>2
  <1> QED
    BY <1>1, <1>2

LEMMA CrankInit == Init => CrankInv
  <1> SUFFICES ASSUME Init
               PROVE  CrankInv
    OBVIOUS
  <1>1. (CHOOSE o \in Owner : TRUE) \in Owner
    BY OwnerAssumption
  <1>2. RingType
    BY <1>1, SlotsAssumption DEF Init, RingType
  <1>3. CrankType
    BY <1>2, MaxEventsAssumption DEF Init, CrankType, Status
  <1> QED
    BY <1>3, NothingChosen DEF Init, CrankInv

LEMMA FetchPreserves ==
  ASSUME CrankInv, NEW c \in Crank, NEW a, a = QueueAccount \/ a \in Foreign, Fetch(c, a)
  PROVE  CrankInv'
  <1>1. Read(a).events \in Seq(Owner) /\ Read(a).outcome \in {"events", "error", "panic"}
    BY ReadType DEF CrankInv, CrankType
  <1> DEFINE events == Read(a).events
             next == IF Read(a).outcome # "events" THEN Read(a).outcome
                     ELSE IF events = <<>> THEN "empty" ELSE "hash"
  <1>2. /\ at' = [at EXCEPT ![c] = next]
        /\ snapshot' = [snapshot EXCEPT ![c] = events]
        /\ named' = [named EXCEPT ![c] = orders_accounts(events)]
        /\ UNCHANGED <<ring, head, count, appended>>
    BY DEF Fetch
  <1>3. next \in Status /\ (next \in {"hash", "signed"} => events # <<>>)
    BY <1>1 DEF Status
  <1>4. orders_accounts(events) \in SUBSET Owner
    BY <1>1, ChosenOwners
  <1> HIDE DEF events, next
  <1>5. events \in Seq(Owner)
    BY <1>1 DEF events
  <1>6. CrankType'
    BY <1>2, <1>3, <1>4, <1>5 DEF CrankInv, CrankType, RingType
  <1>7. \A d \in Crank : named'[d] = orders_accounts(snapshot'[d])
    BY <1>2 DEF CrankInv, CrankType
  <1>8. \A d \in Crank : at'[d] \in {"hash", "signed"} => snapshot'[d] # <<>>
    BY <1>2, <1>3 DEF CrankInv, CrankType
  <1> QED
    BY <1>6, <1>7, <1>8 DEF CrankInv, orders_accounts, OwnersOf

(* Retry and Execute forget what was read.                                 *)
LEMMA ForgetPreserves ==
  ASSUME CrankInv, NEW c \in Crank, RingType', UNCHANGED appended,
         at' = [at EXCEPT ![c] = "idle"], named' = [named EXCEPT ![c] = {}],
         snapshot' = [snapshot EXCEPT ![c] = <<>>]
  PROVE  CrankInv'
  <1>1. CrankType'
    BY DEF CrankInv, CrankType, Status
  <1>2. \A d \in Crank : named'[d] = orders_accounts(snapshot'[d])
    BY NothingChosen DEF CrankInv, CrankType
  <1>3. \A d \in Crank : at'[d] \in {"hash", "signed"} => snapshot'[d] # <<>>
    BY DEF CrankInv, CrankType
  <1> QED
    BY <1>1, <1>2, <1>3 DEF CrankInv, orders_accounts, OwnersOf

(* So do the steps that leave what was read and named alone.               *)
LEMMA KeepPreserves ==
  ASSUME CrankInv, CrankType', UNCHANGED <<named, snapshot>>,
         \A c \in Crank : at'[c] \in {"hash", "signed"} => at[c] \in {"hash", "signed"}
  PROVE  CrankInv'
  <1>1. \A d \in Crank : named'[d] = orders_accounts(snapshot'[d])
    BY DEF CrankInv
  <1>2. \A d \in Crank : at'[d] \in {"hash", "signed"} => snapshot'[d] # <<>>
    BY DEF CrankInv
  <1> QED
    BY <1>1, <1>2 DEF CrankInv, orders_accounts, OwnersOf

LEMMA InRing ==
  ASSUME NEW i \in Nat
  PROVE  i % Slots \in 0..(Slots - 1)
  BY SlotsAssumption

LEMMA CrankNext == CrankInv /\ [Next]_vars => CrankInv'
  <1> SUFFICES ASSUME CrankInv, [Next]_vars
               PROVE  CrankInv'
    OBVIOUS
  <1>0. CrankType
    BY DEF CrankInv
  <1>1. ASSUME NEW o \in Owner, AppendEvent(o)
        PROVE  CrankInv'
    <2>1. (head + count) % Slots \in 0..(Slots - 1)
      <3>1. head + count \in Nat
        BY <1>0, SlotsAssumption DEF CrankType, RingType
      <3> QED
        BY <3>1, InRing
    <2>2. RingType' /\ appended' \in 0..MaxEvents
      BY <1>0, <1>1, <2>1, SlotsAssumption, MaxEventsAssumption DEF AppendEvent, CrankType, RingType
    <2>3. CrankType'
      BY <1>0, <1>1, <2>2 DEF AppendEvent, CrankType
    <2> QED
      BY <1>1, <2>3, KeepPreserves DEF AppendEvent
  <1>2. ASSUME NEW c \in Crank, FetchQueue(c)
        PROVE  CrankInv'
    BY <1>2, FetchPreserves DEF FetchQueue
  <1>3. ASSUME NEW c \in Crank, FetchForeign(c)
        PROVE  CrankInv'
    BY <1>3, FetchPreserves DEF FetchForeign
  <1>4. ASSUME NEW c \in Crank, Sign(c) \/ Fail(c)
        PROVE  CrankInv'
    <2>1. CrankType' /\ UNCHANGED <<named, snapshot>>
      BY <1>0, <1>4 DEF Sign, Fail, CrankType, RingType, Status
    <2>2. \A d \in Crank : at'[d] \in {"hash", "signed"} => at[d] \in {"hash", "signed"}
      BY <1>0, <1>4 DEF Sign, Fail, CrankType
    <2> QED
      BY <2>1, <2>2, KeepPreserves
  <1>5. ASSUME NEW c \in Crank, Retry(c)
        PROVE  CrankInv'
    <2>1. RingType'
      BY <1>0, <1>5 DEF Retry, CrankType, RingType
    <2> QED
      BY <1>5, <2>1, ForgetPreserves DEF Retry
  <1>6. ASSUME NEW c \in Crank, Execute(c)
        PROVE  CrankInv'
    <2>1. PICK n \in 0..count : head' = (head + n) % Slots /\ count' = count - n
      BY <1>6 DEF Execute
    <2>2. head' \in 0..(Slots - 1) /\ count' \in 0..Slots
      <3>1. head + n \in Nat /\ count - n \in 0..Slots
        BY <1>0, SlotsAssumption DEF CrankType, RingType
      <3> QED
        BY <2>1, <3>1, InRing
    <2> QED
      <3>1. RingType'
        BY <1>0, <1>6, <2>2 DEF Execute, CrankType, RingType
      <3> QED
        BY <1>6, <3>1, ForgetPreserves DEF Execute
  <1>7. ASSUME UNCHANGED vars
        PROVE  CrankInv'
    <2>1. CrankType'
      BY <1>0, <1>7 DEF vars, CrankType, RingType
    <2> QED
      BY <1>7, <2>1, KeepPreserves DEF vars
  <1> QED
    BY <1>1, <1>2, <1>3, <1>4, <1>5, <1>6, <1>7 DEF Next

LEMMA CrankInvariant == Spec => []CrankInv
  BY CrankInit, CrankNext, PTL DEF Spec

(* Every variable keeps its type, and no instruction names more accounts   *)
(* than it may, however many owners wait in the ring.                      *)
THEOREM EventTypeCorrect == Spec => []TypeOK
  <1>1. CrankInv => TypeOK
    <2> SUFFICES ASSUME CrankInv
                 PROVE  TypeOK
      OBVIOUS
    <2>1. \A c \in Crank : Cardinality(named[c]) <= MaxAccounts
      BY ChosenOwners DEF CrankInv, CrankType
    <2> QED
      BY <2>1 DEF CrankInv, CrankType, RingType, Status, TypeOK
  <1> QED
    BY <1>1, CrankInvariant, PTL

(* The daemon reads the ring as the program keeps it: split at its head,   *)
(* wrapped, full or empty, of whatever size.                               *)
THEOREM RingIsReadInOrder == Spec => []ParseIsFifo
  <1>1. CrankInv => ParseIsFifo
    BY RingIsRead DEF CrankInv, CrankType
  <1> QED
    BY <1>1, CrankInvariant, PTL

(* An owner is left out of an instruction only in favour of as many lower  *)
(* ones as the instruction can name.                                       *)
THEOREM LowOwnersAreNamed == Spec => []LowOwnersFirst
  <1>1. CrankInv => LowOwnersFirst
    BY ChosenOwners DEF CrankInv, CrankType, LowOwnersFirst
  <1> QED
    BY <1>1, CrankInvariant, PTL

(* Where every owner fits, a crank whose front is still what was read      *)
(* takes at least that event: the client does not pay for nothing.         *)
THEOREM FittingCranksBite == Spec => FittingCrankBites
  <1>1. ASSUME CrankInv, NEW c \in Crank, Execute(c), count > 0,
               Cardinality(OwnersOf(snapshot[c])) <= MaxAccounts, Fifo[1] = snapshot[c][1]
        PROVE  count' < count
    <2>1. at[c] = "signed" /\ snapshot[c] \in Seq(Owner) /\ snapshot[c] # <<>>
      BY <1>1 DEF CrankInv, CrankType, Execute
    <2>2. named[c] = OwnersOf(snapshot[c]) /\ IsFiniteSet(named[c])
      BY <1>1, <2>1, ChosenOwners, OwnersAreFinite DEF CrankInv
    <2>3. Fifo[1] \in named[c]
      BY <1>1, <2>1, <2>2 DEF OwnersOf
    <2>4. Limit(named[c]) > 0
      BY <2>2, FS_CardinalityType DEF Limit
    <2>5. PICK n \in 0..count : Consumes(n, named[c]) /\ count' = count - n
      BY <1>1 DEF Execute
    <2>6. n # 0
      BY <1>1, <2>3, <2>4, <2>5 DEF Consumes
    <2> QED
      BY <1>1, <2>5, <2>6 DEF CrankInv, CrankType, RingType
  <1>2. CrankInv /\ [Next]_vars =>
          [\A c \in Crank :
             (/\ Execute(c) /\ count > 0
              /\ Cardinality(OwnersOf(snapshot[c])) <= MaxAccounts
              /\ Fifo[1] = snapshot[c][1]) => count' < count]_vars
    BY <1>1
  <1> QED
    BY <1>2, CrankInvariant, PTL DEF Spec, FittingCrankBites

===============================================================================
