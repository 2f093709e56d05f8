------------------------------ MODULE EventQueue ------------------------------
(***************************************************************************)
(* Cranking a market: ConsumeEvents of src/serum.rs and                    *)
(* consume_events_instruction, remove_dex_account_padding and              *)
(* parse_event_queue of src/serum/dex/mod.rs.                              *)
(*                                                                         *)
(* The event queue is a ring in an account of the dex program: matching    *)
(* appends events, an executed crank transaction removes them from the     *)
(* front.  The daemon reads the account, names the owners of the events in *)
(* an instruction, signs it over a fresh blockhash and returns it to the   *)
(* client, who submits it -- by which time the queue may have moved on.    *)
(*                                                                         *)
(* Owners are numbers, in the order their keys sort.                       *)
(***************************************************************************)
EXTENDS Naturals, Sequences, FiniteSets

CONSTANTS Slots,       \* the events the ring has room for
          Owner,       \* the owners (open-orders accounts), as numbers
          MaxAccounts, \* how many an instruction may name; 32 in the code
          Crank,       \* the clients that crank
          MaxEvents,   \* bound: events a run appends
          Foreign      \* other accounts a request may name, see Account

ASSUME SlotsAssumption == Slots \in Nat \ {0}
ASSUME OwnerAssumption == Owner \subseteq Nat /\ Owner # {}
ASSUME MaxAccountsAssumption == MaxAccounts \in Nat \ {0}
ASSUME MaxEventsAssumption == MaxEvents \in Nat

VARIABLES ring,        \* ring[i]: the owner of the event in slot i
          head,        \* the slot of the oldest event
          count,       \* the number of events
          appended,    \* events appended so far
          at,          \* at[c]: how far the request of crank c is
          named,       \* named[c]: the owners its instruction names
          snapshot     \* snapshot[c]: the events it read, oldest first

vars == <<ring, head, count, appended, at, named, snapshot>>

(* The queue as the program that owns it sees it.                          *)
Fifo == [i \in 1..count |-> ring[(head + i - 1) % Slots]]
-------------------------------------------------------------------------------
(* An account as the daemon reads it: its length in bytes, whether it      *)
(* begins with "serum" and ends with "padding", and, where the header and  *)
(* the events of a queue would be, the header's two numbers and the        *)
(* owners.                                                                 *)
HeadPadding == 5
TailPadding == 7
Word == 8
HeaderWords == 4
EventWords == 11

Account(bytes, begins, ends, hd, ct, owners) ==
  [bytes |-> bytes, begins |-> begins, ends |-> ends,
   head |-> hd, count |-> ct, owners |-> owners]

QueueAccount ==
  Account(HeadPadding + Word * (HeaderWords + EventWords * Slots) + TailPadding,
          TRUE, TRUE, head, count, [i \in 1..Slots |-> ring[i - 1]])

(* The first slice is taken before the length is looked at: it panics on   *)
(* an account shorter than the head padding.  Between the paddings there   *)
(* must be words, one at least.                                            *)
remove_dex_account_padding(a) ==
  IF a.bytes < HeadPadding THEN "panic"
  ELSE IF /\ a.bytes > HeadPadding + TailPadding
          /\ a.begins /\ a.ends
          /\ (a.bytes - HeadPadding - TailPadding) % Word = 0
       THEN "words" ELSE "error"

(* The length of the data between the paddings, and the events it holds.   *)
WordsOf(a) == (a.bytes - HeadPadding - TailPadding) \div Word
RoomOf(a) == (WordsOf(a) - HeaderWords) \div EventWords

(* Where an account can be read as a queue, each event has an owner.       *)
ASSUME ForeignAssumption ==
  \A a \in Foreign :
    /\ a.bytes \in Nat /\ a.head \in Nat /\ a.count \in Nat
    /\ a.owners \in Seq(Owner)
    /\ (remove_dex_account_padding(a) = "words" /\ WordsOf(a) >= HeaderWords)
         => Len(a.owners) = RoomOf(a)

(* Mutant: the wrapped events first.                                       *)
Chained_tailFirst(headSeg, tailSeg) == tailSeg \o headSeg

(* seg0.iter().chain(seg1.iter())                                          *)
Chained(headSeg, tailSeg) == headSeg \o tailSeg

(* head_seg and tail_seg: the events from the head slot on, then those     *)
(* that wrapped around.  split_at and the slices panic outside the array,  *)
(* a queue without room for one event is an error of the transmutation.    *)
parse_event_queue(a) ==
  LET room == RoomOf(a)
      headLen == IF room - a.head < a.count THEN room - a.head ELSE a.count
      tailLen == a.count - headLen
      parsed(outcome, events) == [outcome |-> outcome, events |-> events]
  IN  IF WordsOf(a) < HeaderWords THEN parsed("panic", <<>>)
      ELSE IF room = 0 THEN parsed("error", <<>>)
      ELSE IF a.head > room \/ tailLen > a.head THEN parsed("panic", <<>>)
      ELSE parsed("events", Chained(SubSeq(a.owners, a.head + 1, a.head + headLen),
                                    SubSeq(a.owners, 1, tailLen)))

Read(a) ==
  LET unpadded == remove_dex_account_padding(a)
  IN  IF unpadded = "words" THEN parse_event_queue(a)
      ELSE [outcome |-> unpadded, events |-> <<>>]

OwnersOf(events) == {events[i] : i \in DOMAIN events}

(* Mutants: the cut is one off, either way; the sort is descending.        *)
orders_accounts_oneMore(events) ==
  {o \in OwnersOf(events) :
     Cardinality({p \in OwnersOf(events) : p < o}) <= MaxAccounts}
orders_accounts_oneLess(events) ==
  {o \in OwnersOf(events) :
     Cardinality({p \in OwnersOf(events) : p < o}) + 1 < MaxAccounts}
orders_accounts_highest(events) ==
  {o \in OwnersOf(events) :
     Cardinality({p \in OwnersOf(events) : p > o}) < MaxAccounts}

(* Sorted, without duplicates, cut after MaxAccounts: the lowest ones.     *)
orders_accounts(events) ==
  {o \in OwnersOf(events) :
     Cardinality({p \in OwnersOf(events) : p < o}) < MaxAccounts}

(* The instruction lets the program consume as many events as it has       *)
(* accounts: the owners and the market, the queue and two wallets.         *)
Limit(owners) == Cardinality(owners) + 4
-------------------------------------------------------------------------------
Init ==
  /\ ring = [i \in 0..(Slots - 1) |-> CHOOSE o \in Owner : TRUE]
  /\ head = 0 /\ count = 0 /\ appended = 0
  /\ at = [c \in Crank |-> "idle"]
  /\ named = [c \in Crank |-> {}]
  /\ snapshot = [c \in Crank |-> <<>>]

(* The dex program appends the event of an owner (external).               *)
AppendEvent(o) ==
  /\ count < Slots
  /\ appended < MaxEvents
  /\ ring' = [ring EXCEPT ![(head + count) % Slots] = o]
  /\ count' = count + 1
  /\ appended' = appended + 1
  /\ UNCHANGED <<head, at, named, snapshot>>

(* get_account_data answers, and the instruction is built from its answer. *)
Fetch(c, a) ==
  LET r == Read(a)
  IN  /\ at[c] = "idle"
      /\ at' = [at EXCEPT ![c] = IF r.outcome # "events" THEN r.outcome
                                 ELSE IF r.events = <<>> THEN "empty" ELSE "hash"]
      /\ snapshot' = [snapshot EXCEPT ![c] = r.events]
      /\ named' = [named EXCEPT ![c] = orders_accounts(r.events)]
      /\ UNCHANGED <<ring, head, count, appended>>

FetchQueue(c) == Fetch(c, QueueAccount)
FetchForeign(c) == \E a \in Foreign : Fetch(c, a)

(* The blockhash arrives and the signed transaction is the answer.         *)
Sign(c) ==
  /\ at[c] = "hash"
  /\ at' = [at EXCEPT ![c] = "signed"]
  /\ UNCHANGED <<ring, head, count, appended, named, snapshot>>

(* An RPC fails, or the client gives up or loses the answer.               *)
Fail(c) ==
  /\ at[c] \in {"idle", "hash", "signed"}
  /\ at' = [at EXCEPT ![c] = "error"]
  /\ UNCHANGED <<ring, head, count, appended, named, snapshot>>

(* The client may ask again after any answer.                              *)
Retry(c) ==
  /\ at[c] \in {"error", "empty", "panic"}
  /\ at' = [at EXCEPT ![c] = "idle"]
  /\ named' = [named EXCEPT ![c] = {}]
  /\ snapshot' = [snapshot EXCEPT ![c] = <<>>]
  /\ UNCHANGED <<ring, head, count, appended>>

(* The dex program takes the n events in front that are due to owners: it  *)
(* stops at the limit or the first event whose account the instruction     *)
(* does not name (external).                                               *)
Consumes(n, owners) ==
  /\ n <= Limit(owners)
  /\ \A i \in 1..n : Fifo[i] \in owners
  /\ (n < count /\ n < Limit(owners)) => Fifo[n + 1] \notin owners

Execute(c) ==
  /\ at[c] = "signed"
  /\ \E n \in 0..count :
       /\ Consumes(n, named[c])
       /\ head' = (head + n) % Slots
       /\ count' = count - n
  /\ at' = [at EXCEPT ![c] = "idle"]
  /\ named' = [named EXCEPT ![c] = {}]
  /\ snapshot' = [snapshot EXCEPT ![c] = <<>>]
  /\ UNCHANGED <<ring, appended>>

Next ==
  \/ \E o \in Owner : AppendEvent(o)
  \/ \E c \in Crank : \/ FetchQueue(c) \/ FetchForeign(c) \/ Sign(c)
                      \/ Fail(c) \/ Retry(c) \/ Execute(c)

(* Someone keeps cranking the queue and the node does not fail for ever.   *)
Fairness ==
  \A c \in Crank : /\ SF_vars(FetchQueue(c)) /\ SF_vars(Sign(c))
                   /\ SF_vars(Execute(c)) /\ WF_vars(Retry(c))

Spec == Init /\ [][Next]_vars /\ Fairness
-------------------------------------------------------------------------------
(* Every variable has its type; the ring holds no more than it can and an  *)
(* instruction names no more owners than it may.                           *)
TypeOK ==
  /\ ring \in [0..(Slots - 1) -> Owner]
  /\ head \in 0..(Slots - 1) /\ count \in 0..Slots /\ appended \in 0..MaxEvents
  /\ at \in [Crank -> {"idle", "hash", "signed", "empty", "error", "panic"}]
  /\ named \in [Crank -> SUBSET Owner]
  /\ \A c \in Crank : Cardinality(named[c]) <= MaxAccounts
  /\ snapshot \in [Crank -> Seq(Owner)]

(* However the ring has wrapped, seg0 followed by seg1 are its events in   *)
(* the order the program will consume them, none lost or read twice.       *)
ParseIsFifo ==
  /\ Read(QueueAccount).outcome = "events"
  /\ Read(QueueAccount).events = Fifo

(* The instruction names owners that were in the queue, and it leaves one  *)
(* out only in favour of MaxAccounts lower ones: the favour the todo       *)
(* comment of the code is about.                                           *)
LowOwnersFirst ==
  \A c \in Crank : at[c] \in {"hash", "signed"} =>
    /\ named[c] \subseteq OwnersOf(snapshot[c]) /\ named[c] # {}
    /\ \A o \in OwnersOf(snapshot[c]) \ named[c] :
         /\ Cardinality(named[c]) = MaxAccounts
         /\ \A p \in named[c] : p < o

(* A crank built while every owner fits consumes at least one event, if    *)
(* the queue's front is still what was read.                               *)
FittingCrankBites ==
  [][\A c \in Crank :
       (/\ Execute(c) /\ count > 0
        /\ Cardinality(OwnersOf(snapshot[c])) <= MaxAccounts
        /\ Fifo[1] = snapshot[c][1]) => count' < count]_vars

(* With no more owners than an instruction may name, a queue that is       *)
(* cranked (and fed MaxEvents at most) runs empty.  With more of them it   *)
(* may stick for ever: the event in front can belong to an owner that      *)
(* sorts too high.                                                         *)
FittingQueueDrains ==
  (<>[](Cardinality(OwnersOf(Fifo)) <= MaxAccounts)) => <>[](count = 0)
===============================================================================
