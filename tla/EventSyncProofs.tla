-------------------------- MODULE EventSyncProofs --------------------------
(***************************************************************************)
(* Theorems about the bootnode and the app's indexer (modules Ledgers,     *)
(* Bootnode and EventSync), for every number of events in a ledger and in  *)
(* a page, every retention and cutoff, both ways an RPC server may place   *)
(* the cursor of a short page, and every set of faults.                    *)
(***************************************************************************)
EXTENDS EventSync, AmountsProofs

LEMMA Bounds ==
    /\ PerLedger \in Nat \ {0} /\ PageSize \in Nat \ {0}
    /\ MaxLedger \in Nat \ {0}
    /\ MovesOn \in BOOLEAN
BY LedgersAssumption

-----------------------------------------------------------------------------
(* Ledgers and their ids.                                                  *)

\* The ids of a ledger are those after the last one of the ledger before.
LEMMA LedgerFacts ==
    /\ \A l \in Nat : LastId(l) \in Nat
    /\ \A k, l \in Nat : k <= l => LastId(k) <= LastId(l)
    /\ \A l \in Nat : LastId(l + 1) = LastId(l) + PerLedger
    /\ LastId(0) = 0
    /\ \A id \in Nat \ {0} : LedgerOf(id) \in Nat \ {0}
    /\ \A id \in Nat \ {0}, l \in Nat : LedgerOf(id) <= l <=> id <= LastId(l)
<1>1. PerLedger \in Nat \ {0}
  BY Bounds
<1>2. \A l \in Nat : LastId(l) \in Nat
  BY <1>1 DEF LastId
<1>3. \A k, l \in Nat : k <= l => LastId(k) <= LastId(l)
  <2> SUFFICES ASSUME NEW k \in Nat, NEW l \in Nat, k <= l
               PROVE  k * PerLedger <= l * PerLedger
    BY DEF LastId
  <2>1. l - k \in Nat /\ l = k + (l - k)
    OBVIOUS
  <2>2. l * PerLedger = k * PerLedger + (l - k) * PerLedger
    BY <1>1, <2>1
  <2>3. (l - k) * PerLedger \in Nat /\ k * PerLedger \in Nat
    BY <1>1, <2>1
  <2> QED
    BY <2>2, <2>3
<1>4. \A l \in Nat : LastId(l + 1) = LastId(l) + PerLedger
  BY <1>1 DEF LastId
<1>5. LastId(0) = 0
  BY <1>1 DEF LastId
<1>6. \A id \in Nat \ {0} : LedgerOf(id) \in Nat \ {0}
  BY <1>1 DEF LedgerOf
<1>7. ASSUME NEW id \in Nat \ {0}, NEW l \in Nat
      PROVE  LedgerOf(id) <= l <=> id <= LastId(l)
  <2> DEFINE q == (id - 1) \div PerLedger
             r == (id - 1) % PerLedger
  <2>1. /\ q \in Nat /\ r \in Nat /\ r < PerLedger
        /\ id - 1 = PerLedger * q + r
    BY <1>1
  <2>2. LedgerOf(id) = q + 1
    BY DEF LedgerOf
  <2> HIDE DEF q, r
  <2>3. CASE q + 1 <= l
    <3>1. LastId(q + 1) <= LastId(l)
      BY <1>3, <2>1, <2>3
    <3>2. LastId(q + 1) = q * PerLedger + PerLedger
      BY <1>1, <2>1 DEF LastId
    <3>3. q * PerLedger = PerLedger * q
      BY <1>1, <2>1
    <3>4. PerLedger * q \in Nat
      BY <1>1, <2>1
    <3>5. id <= LastId(q + 1)
      BY <1>1, <2>1, <3>2, <3>3, <3>4
    <3> QED
      BY <1>2, <2>1, <2>2, <2>3, <3>1, <3>5
  <2>4. CASE ~(q + 1 <= l)
    <3>1. LastId(l) <= LastId(q)
      BY <1>3, <2>1, <2>4
    <3>2. LastId(q) = PerLedger * q /\ LastId(q) \in Nat
      BY <1>1, <1>2, <2>1 DEF LastId
    <3>3. LastId(q) < id
      BY <2>1, <3>2
    <3> QED
      BY <1>2, <2>1, <2>2, <2>4, <3>1, <3>2, <3>3
  <2> QED
    BY <2>3, <2>4
<1> QED
  BY <1>2, <1>3, <1>4, <1>5, <1>6, <1>7

\* The same, of two ledgers.
LEMMA LaterLedger ==
    ASSUME NEW k \in Nat, NEW l \in Nat, k <= l
    PROVE  LastId(k) \in Nat /\ LastId(l) \in Nat /\ LastId(k) <= LastId(l)
BY LedgerFacts

\* Cutting a page leaves the ids of the ledgers closed so far.
LEMMA BetweenType ==
    ASSUME LedgersTypeOK, NEW c \in Nat, NEW d \in Nat
    PROVE  /\ Between(c, d) \subseteq events
           /\ Between(c, d) \subseteq 1..LastId(tip)
           /\ LastId(tip) \in Nat /\ LastId(tip) <= LastId(MaxLedger)
<1>1. tip \in Nat /\ tip <= MaxLedger /\ MaxLedger \in Nat
  BY Bounds DEF LedgersTypeOK
<1>2. LastId(tip) \in Nat /\ LastId(tip) <= LastId(MaxLedger)
  BY <1>1, LedgerFacts
<1>3. Between(c, d) \subseteq events /\ events \subseteq 1..LastId(tip)
  BY DEF Between, LedgersTypeOK
<1> QED
  BY <1>2, <1>3

LEMMA PageType ==
    ASSUME NEW page \in Pages
    PROVE  /\ page.ids \subseteq Ids
           /\ page.end \in Nat /\ page.end \in Cursors
           /\ page.latest \in Nat \ {0} /\ page.latest <= MaxLedger
<1>1. page.end \in Cursors /\ page.latest \in 1..MaxLedger
  BY DEF Pages
<1>2. page.latest \in Nat \ {0} /\ page.latest <= MaxLedger
  BY <1>1, Bounds
<1>3. page.end \in Nat
  BY <1>1 DEF Cursors
<1> QED
  BY <1>1, <1>2, <1>3 DEF Pages

\* A page holds the events from the cursor it was asked for up to its own, and
\* only an RPC server with no later event returns an empty one.
LEMMA PageFacts ==
    ASSUME LedgersTypeOK, NEW c \in 0..LastId(tip)
    PROVE  /\ PageAfter(c) \in Pages
           /\ PageAfter(c).ids = Between(c, PageAfter(c).end)
           /\ PageAfter(c).end <= LastId(tip)
           /\ PageAfter(c).latest = tip
           /\ PageAfter(c).ids = {} => /\ c <= PageAfter(c).end
                                       /\ \A id \in events : id <= c
<1>1. LastId(tip) \in Nat /\ LastId(tip) <= LastId(MaxLedger)
  BY BetweenType
<1>2. events \subseteq 1..LastId(tip) /\ tip \in 1..MaxLedger
  BY DEF LedgersTypeOK
<1>9. \A id \in events : id \in Int /\ 0 < id /\ id <= LastId(tip)
  BY <1>1, <1>2
<1>3. PageEnd(c) \in 0..LastId(tip)
      /\ (Between(c, PageEnd(c)) = {} =>
              c <= PageEnd(c) /\ \A id \in events : id <= c)
  <2>1. CASE FullEnds(c) # {}
    <3>1. PageEnd(c) \in FullEnds(c)
      BY <2>1 DEF PageEnd
    <3>2. PageEnd(c) \in events /\ Cardinality(Between(c, PageEnd(c))) = PageSize
      BY <3>1 DEF FullEnds
    <3>3. Between(c, PageEnd(c)) # {}
      BY <3>2, FS_EmptySet, Bounds
    <3>4. PageEnd(c) \in 0..LastId(tip)
      BY <1>9, <1>1, <3>2
    <3> QED
      BY <3>3, <3>4
  <2>2. CASE FullEnds(c) = {} /\ MovesOn
    <3>1. PageEnd(c) = LastId(tip)
      BY <2>2 DEF PageEnd, ShortEnd
    <3> QED
      BY <1>1, <1>2, <3>1 DEF Between
  <2>3. CASE FullEnds(c) = {} /\ ~MovesOn
    <3> DEFINE rest == Between(c, LastId(tip))
    <3>1. PageEnd(c) = CHOOSE d \in rest \cup {c} : \A id \in rest : id <= d
      BY <2>3 DEF PageEnd, ShortEnd
    <3>2. rest \subseteq events /\ \A id \in rest : c < id /\ id <= LastId(tip)
      BY DEF Between
    <3>3. rest = {id \in events : c < id}
      BY <1>9 DEF Between
    <3> HIDE DEF rest
    <3>4. \E d \in rest \cup {c} : \A id \in rest : id <= d
      <4>1. CASE rest = {}
        BY <4>1
      <4>2. CASE rest # {}
        <5> DEFINE b == LastId(tip)
        <5>1. rest \in SUBSET Int /\ b \in Int /\ \A id \in rest : id <= b
          BY <1>9, <1>1, <3>2
        <5> HIDE DEF b
        <5>2. \E d \in rest : \A id \in rest : id <= d
          BY <4>2, <5>1, GreatestNumber
        <5> QED
          BY <5>2
      <4> QED
        BY <4>1, <4>2
    <3>5. PageEnd(c) \in rest \cup {c} /\ \A id \in rest : id <= PageEnd(c)
      BY <3>1, <3>4
    <3>6. PageEnd(c) \in 0..LastId(tip)
      BY <1>9, <1>1, <3>2, <3>5
    <3>7. rest \subseteq Between(c, PageEnd(c))
      BY <3>2, <3>5 DEF Between
    <3>8. \A id \in events : id \notin rest => id <= c
      BY <1>9, <3>3
    <3>9. rest = {} => PageEnd(c) = c
      BY <3>5
    <3> QED
      BY <1>1, <3>6, <3>7, <3>8, <3>9
  <2> QED
    BY <2>1, <2>2, <2>3
<1>4. Between(c, PageEnd(c)) \in SUBSET Ids
  <2>1. LastId(MaxLedger) \in Nat
    BY Bounds, LedgerFacts
  <2> DEFINE a == LastId(tip)
             b == LastId(MaxLedger)
  <2>2. /\ a \in Nat /\ b \in Nat /\ a <= b
        /\ \A id \in events : id \in Int /\ 0 < id /\ id <= a
    BY <1>1, <1>9, <2>1
  <2> HIDE DEF a, b
  <2>3. \A id \in events : id \in 1..b
    BY <2>2
  <2> QED
    BY <2>3 DEF Between, Ids, b
<1>5. PageEnd(c) \in Cursors
  <2>1. LastId(MaxLedger) \in Nat
    BY Bounds, LedgerFacts
  <2> QED
    BY <1>1, <1>3, <2>1 DEF Cursors
<1>6. PageAfter(c) \in Pages
  BY <1>2, <1>4, <1>5 DEF PageAfter, Pages
<1> QED
  BY <1>3, <1>6 DEF PageAfter

\* The last event of a page, and the ledger it is in.
LEMMA LastLedgerFacts ==
    ASSUME NEW page \in Pages, page.ids # {}
    PROVE  \E last \in page.ids : /\ \A id \in page.ids : id <= last
                                  /\ LastLedger(page) = LedgerOf(last)
                                  /\ LastLedger(page) \in 1..MaxLedger
                                  /\ LastId(LastLedger(page) - 1) < last
                                  /\ last <= LastId(LastLedger(page))
<1>1. page.ids \subseteq 1..LastId(MaxLedger) /\ LastId(MaxLedger) \in Nat
  BY Bounds, LedgerFacts DEF Pages, Ids
<1>2. \E last \in page.ids : \A id \in page.ids : id <= last
  <2> DEFINE S == page.ids
             b == LastId(MaxLedger)
  <2>1. S \in SUBSET Int /\ S # {} /\ b \in Int /\ \A id \in S : id <= b
    BY <1>1
  <2> HIDE DEF S, b
  <2>2. \E last \in S : \A id \in S : id <= last
    BY <2>1, GreatestNumber
  <2> QED
    BY <2>2 DEF S
<1> DEFINE last == CHOOSE id \in page.ids : \A other \in page.ids : other <= id
<1>3. last \in page.ids /\ \A id \in page.ids : id <= last
  BY <1>2
<1>4. LastLedger(page) = LedgerOf(last)
  BY DEF LastLedger
<1> HIDE DEF last
<1>5. last \in Nat \ {0} /\ last <= LastId(MaxLedger)
  BY <1>1, <1>3
<1>6. LedgerOf(last) \in Nat \ {0} /\ LedgerOf(last) <= MaxLedger
  BY <1>5, Bounds, LedgerFacts
<1>7. LastId(LedgerOf(last) - 1) < last /\ last <= LastId(LedgerOf(last))
  <2> DEFINE l == LedgerOf(last)
  <2>1. l \in Nat \ {0} /\ l - 1 \in Nat /\ l <= l /\ ~(l <= l - 1)
    BY <1>6
  <2>2. \A k \in Nat : l <= k <=> last <= LastId(k)
    BY <1>5, LedgerFacts
  <2>3. LastId(l - 1) \in Nat
    BY <2>1, LedgerFacts
  <2> HIDE DEF l
  <2>4. last <= LastId(l) /\ ~(last <= LastId(l - 1))
    BY <2>1, <2>2
  <2>5. LastId(l - 1) < last
    BY <1>5, <2>3, <2>4
  <2> QED
    BY <2>4, <2>5 DEF l
<1> QED
  BY <1>3, <1>4, <1>6, <1>7

-----------------------------------------------------------------------------
(* The inductive invariant.                                                *)

\* What the bootnode has fetched and not yet stored is what it will store: a
\* page after the cursor of the round, and every cursor it keeps is that of a
\* closed ledger.
BootnodeInv ==
    /\ \A key \in DOMAIN pages : pages[key].end <= LastId(tip)
    /\ bnCursor # None => bnCursor <= LastId(tip)
    /\ CursorOf(bnAt) <= LastId(tip)
    /\ bnStep \in {"unsync", "insert", "advance", "caughtUp"} =>
          bnPage \in Pages /\ bnPage.end <= LastId(tip)
    /\ bnStep \in {"unsync", "insert"} =>
          bnPage.ids # {} /\ bnPage.ids = Between(CursorOf(bnAt), bnPage.end)

\* The two progress marks: clearing the cursor takes the app back to the last
\* indexed ledger, so all before that ledger has to be stored, and what comes
\* after a cursor is in no earlier ledger.
MarksInv ==
    meta # None =>
        /\ meta.lastIndexed <= tip
        /\ meta.fullyIndexed <= tip
        /\ \A id \in events : id <= LastId(meta.lastIndexed - 1) => id \in saved
        /\ meta.cursor # None =>
              /\ meta.cursor <= LastId(tip)
              /\ \A id \in events :
                    meta.cursor < id => LastId(meta.lastIndexed - 1) < id

\* The page being stored follows on what is stored, and an empty one was made
\* when no event was left.
AnswerInv ==
    /\ step \in {"missed", "bootnodeMissed"} => answer \in Handoffs
    /\ step \in {"save", "progress"} =>
          /\ answer \in Pages
          /\ answer.end <= LastId(tip)
          /\ answer.ids = Between(Passed, answer.end)
          /\ answer.ids = {} =>
                /\ answer.latest <= tip
                /\ Passed <= answer.end
                /\ \A id \in events : id <= LastId(answer.latest) => id <= Passed
                /\ meta # None => /\ meta.lastIndexed <= answer.latest
                                  /\ meta.fullyIndexed <= answer.latest
    /\ step = "progress" => answer.ids \subseteq saved

SyncInv ==
    /\ TypeOK
    /\ CacheFaithful
    /\ BootnodeInv
    /\ NothingMissed
    /\ MarksInv
    /\ AnswerInv

LEMMA InitInv == Init => SyncInv
<1> SUFFICES ASSUME Init PROVE SyncInv
  OBVIOUS
<1> USE DEF Init, LedgersInit, BootnodeInit
<1>1. LedgersTypeOK
  <2>1. PICK n \in 0..PerLedger : events = FirstIds(1, n)
    OBVIOUS
  <2>2. LastId(1 - 1) = 0 /\ LastId(1) = PerLedger
    BY Bounds DEF LastId
  <2>3. events = 1..n
    BY <2>1, <2>2, Bounds DEF FirstIds
  <2> QED
    BY <2>2, <2>3, Bounds DEF LedgersTypeOK
<1>2. BootnodeTypeOK
  <2>1. 0 \in 0..MaxLedger
    BY Bounds
  <2>2. DOMAIN pages = {}
    OBVIOUS
  <2> QED
    BY <2>1, <2>2 DEF BootnodeTypeOK, Keys
<1>3. TypeOK
  BY <1>1, <1>2 DEF TypeOK
<1>4. Passed = 0
  BY LedgerFacts DEF Passed, Cursor, ResumeLedger
<1>5. \A id \in events : id \in Int /\ 0 < id
  BY <1>1, LedgerFacts, Bounds DEF LedgersTypeOK
<1>6. NoEventMissed
  BY <1>4, <1>5 DEF NoEventMissed
<1>7. NothingMissed
  BY <1>6 DEF NothingMissed, FullyIndexedIsTrue
<1>8. CursorOf(bnAt) <= LastId(tip)
  BY LedgerFacts DEF CursorOf
<1> QED
  BY <1>3, <1>7, <1>8
     DEF SyncInv, CacheFaithful, BootnodeInv, MarksInv, AnswerInv

-----------------------------------------------------------------------------
(* A ledger closes: later events have later ids.                           *)

LEMMA CloseFacts ==
    ASSUME LedgersTypeOK, CloseLedger
    PROVE  /\ LedgersTypeOK'
           /\ tip' = tip + 1
           /\ events \subseteq events'
           /\ \A id \in events' : id \in events \/ LastId(tip) < id
           /\ \A l \in 1..tip : LastId(l) <= LastId(tip)
           /\ LastId(tip) \in Nat /\ LastId(tip) <= LastId(tip')
           /\ \A c, d \in Nat : d <= LastId(tip) => Between(c, d)' = Between(c, d)
<1>1. PICK n \in 0..PerLedger : events' = events \cup FirstIds(tip + 1, n)
  BY DEF CloseLedger
<1>2. tip \in Nat \ {0} /\ tip < MaxLedger /\ tip' = tip + 1
  BY DEF CloseLedger, LedgersTypeOK
<1>3. /\ LastId(tip) \in Nat /\ LastId(tip') = LastId(tip) + PerLedger
      /\ \A l \in 1..tip : LastId(l) <= LastId(tip)
  BY <1>2, LedgerFacts
<1>4. \A id \in FirstIds(tip + 1, n) :
        id \in Nat /\ LastId(tip) < id /\ id <= LastId(tip) + n
  <2>1. (tip + 1) - 1 = tip
    BY <1>2
  <2>2. FirstIds(tip + 1, n) = LastId(tip) + 1 .. LastId(tip) + n
    BY <2>1 DEF FirstIds
  <2> QED
    BY <1>3, <2>2, Bounds
<1>5. \A id \in events : id \in Nat \ {0} /\ id <= LastId(tip)
  BY <1>3 DEF LedgersTypeOK
<1>6. \A id \in events' : id \in Nat \ {0} /\ id <= LastId(tip')
  BY <1>1, <1>3, <1>4, <1>5, Bounds
<1>7. LedgersTypeOK'
  BY <1>2, <1>3, <1>6, Bounds DEF LedgersTypeOK
<1>8. \A id \in events' : id \in events \/ LastId(tip) < id
  BY <1>1, <1>4
<1>9. \A c, d \in Nat : d <= LastId(tip) => Between(c, d)' = Between(c, d)
  BY <1>1, <1>3, <1>6, <1>8 DEF Between
<1> QED
  BY <1>1, <1>2, <1>3, <1>7, <1>8, <1>9, Bounds

\* All events before what is passed are of closed ledgers.
LEMMA PassedType ==
    ASSUME TypeOK, MarksInv
    PROVE  Passed \in 0..LastId(tip)
<1>1. tip \in Nat \ {0} /\ LastId(tip) \in Nat
  BY LedgerFacts DEF TypeOK, LedgersTypeOK
<1>2. CASE meta = None
  BY <1>1, <1>2, LedgerFacts DEF Passed, Cursor, ResumeLedger
<1>3. CASE meta # None
  <2>1. /\ meta.lastIndexed \in Nat \ {0} /\ meta.lastIndexed <= tip
        /\ meta.cursor \in Cursors \cup {None}
        /\ meta.cursor # None => meta.cursor <= LastId(tip)
    BY <1>3 DEF TypeOK, Meta, MarksInv
  <2>2. LastId(meta.lastIndexed - 1) \in 0..LastId(tip)
    <3> DEFINE k == meta.lastIndexed - 1
    <3>1. k \in Nat /\ k <= tip
      BY <1>1, <2>1
    <3> HIDE DEF k
    <3>2. LastId(k) \in Nat /\ LastId(k) <= LastId(tip)
      BY <1>1, <3>1, LedgerFacts
    <3> QED
      BY <1>1, <3>2 DEF k
  <2>3. CASE meta.cursor = None
    BY <1>3, <2>2, <2>3 DEF Passed, Cursor, ResumeLedger
  <2>4. CASE meta.cursor # None
    <3>1. meta.cursor \in 0..LastId(tip)
      <4>1. LastId(MaxLedger) \in Nat
        BY Bounds, LedgerFacts
      <4>2. meta.cursor \in Cursors
        BY <2>1, <2>4
      <4> QED
        BY <1>1, <2>1, <2>4, <4>1, <4>2 DEF Cursors
    <3> QED
      BY <1>3, <2>4, <3>1 DEF Passed, Cursor
  <2> QED
    BY <2>3, <2>4
<1> QED
  BY <1>2, <1>3

\* A ledger that closes brings only events after every mark and cursor.
LEMMA CloseInv ==
    ASSUME SyncInv, CloseLedger, UNCHANGED <<bnVars, clientVars>>
    PROVE  SyncInv'
<1>1. LedgersTypeOK
  BY DEF SyncInv, TypeOK
<1>2. /\ LedgersTypeOK' /\ tip' = tip + 1 /\ tip \in Nat \ {0}
      /\ events \subseteq events'
      /\ \A id \in events' : id \in events \/ LastId(tip) < id
      /\ LastId(tip) \in Nat /\ LastId(tip) <= LastId(tip')
      /\ \A c, d \in Nat : d <= LastId(tip) => Between(c, d)' = Between(c, d)
  BY <1>1, CloseFacts DEF LedgersTypeOK
<1>3. UNCHANGED <<bnTip, bnCursor, inSync, pages, bnStep, bnAt, bnPage,
                  saved, meta, step, source, answer>>
  BY DEF bnVars, stored, round, clientVars
<1>4. Passed' = Passed
  BY <1>3 DEF Passed, Cursor, ResumeLedger
<1>5. Passed \in 0..LastId(tip)
  BY PassedType DEF SyncInv
<1>6. \A id \in events' : id \in Nat \ {0} /\ LedgerOf(id) \in Nat \ {0}
  <2>1. LastId(tip') \in Nat
    BY <1>2, LedgerFacts
  <2>2. \A id \in events' : id \in Nat \ {0}
    BY <1>2, <2>1 DEF LedgersTypeOK
  <2> QED
    BY <2>2, LedgerFacts
<1>7. Cursors \subseteq Nat
  BY DEF Cursors
<1>8. TypeOK'
  BY <1>2, <1>3 DEF SyncInv, TypeOK, BootnodeTypeOK
<1>9. CacheFaithful'
  <2> SUFFICES ASSUME NEW key \in DOMAIN pages
               PROVE  /\ pages[key].ids # {}
                      /\ pages[key].ids = Between(CursorOf(key), pages[key].end)'
    BY <1>3 DEF CacheFaithful, CursorOf
  <2>1. CursorOf(key) \in Nat
    BY <1>7 DEF SyncInv, TypeOK, BootnodeTypeOK, Keys, CursorOf
  <2>2. pages[key].end \in Nat /\ pages[key].end <= LastId(tip)
    BY <1>7 DEF SyncInv, TypeOK, BootnodeTypeOK, Pages, BootnodeInv
  <2>3. /\ pages[key].ids # {}
        /\ pages[key].ids = Between(CursorOf(key), pages[key].end)
    BY DEF SyncInv, CacheFaithful
  <2>4. Between(CursorOf(key), pages[key].end)'
            = {id \in events' : CursorOf(key) < id /\ id <= pages[key].end}
    BY <1>3 DEF Between, CursorOf
  <2> DEFINE c == CursorOf(key)  d == pages[key].end
  <2>5. Between(c, d)' = Between(c, d)
    <3>1. {id \in events' : c < id /\ id <= d} = {id \in events : c < id /\ id <= d}
      BY <1>2, <1>6, <2>1, <2>2
    <3> QED
      BY <2>4, <3>1 DEF Between
  <2> QED
    BY <2>3, <2>5
<1>10. BootnodeInv'
  <2>1. UNCHANGED CursorOf(bnAt)
    BY <1>3 DEF CursorOf
  <2>2. BootnodeInv
    BY DEF SyncInv
  <2>3. LastId(tip') \in Nat
    BY <1>2, LedgerFacts
  <2>4. \A d \in Nat : d <= LastId(tip) => d <= LastId(tip')
    BY <1>2, <2>3
  <2>5. CursorOf(bnAt) \in Nat
    BY <1>7 DEF SyncInv, TypeOK, BootnodeTypeOK, Keys, CursorOf
  <2>6. bnCursor # None => bnCursor \in Nat
    BY <1>7 DEF SyncInv, TypeOK, BootnodeTypeOK
  <2>7. \A key \in DOMAIN pages : pages[key].end \in Nat
    BY <1>7 DEF SyncInv, TypeOK, BootnodeTypeOK, Pages
  <2>8. bnPage \in Pages => bnPage.end \in Nat
    BY <1>7 DEF Pages
  <2>9. ASSUME bnStep \in {"unsync", "insert"}
        PROVE  bnPage.ids = Between(CursorOf(bnAt), bnPage.end)'
    <3> DEFINE c == CursorOf(bnAt)  d == bnPage.end
    <3>1. bnPage.ids = Between(c, d) /\ d \in Nat /\ d <= LastId(tip)
      BY <2>2, <2>8, <2>9 DEF BootnodeInv
    <3>2. {id \in events' : c < id /\ id <= d} = {id \in events : c < id /\ id <= d}
      BY <1>2, <1>6, <2>5, <3>1
    <3> QED
      BY <1>3, <2>1, <3>1, <3>2 DEF Between
  <2> QED
    BY <1>3, <2>1, <2>2, <2>4, <2>5, <2>6, <2>7, <2>8, <2>9 DEF BootnodeInv
\* What is of a closed ledger was there before.
<1>11. \A l \in 0..tip, id \in events' : id <= LastId(l) => id \in events
  <2>1. \A l \in 0..tip : LastId(l) \in Nat /\ LastId(l) <= LastId(tip)
    <3> SUFFICES ASSUME NEW l \in 0..tip
                 PROVE  LastId(l) \in Nat /\ LastId(l) <= LastId(tip)
      OBVIOUS
    <3>1. l \in Nat /\ tip \in Nat /\ l <= tip
      BY <1>2
    <3> QED
      BY <3>1, LaterLedger
  <2> QED
    BY <1>2, <1>6, <2>1
<1>12. NothingMissed'
  <2>1. NoEventMissed'
    <3>1. \A id \in events' : id <= Passed => id \in events
      BY <1>2, <1>5, <1>6
    <3> QED
      BY <1>3, <1>4, <3>1 DEF SyncInv, NothingMissed, NoEventMissed
  <2>2. FullyIndexedIsTrue'
    <3> SUFFICES ASSUME meta # None, NEW id \in events',
                        LedgerOf(id) <= meta.fullyIndexed
                 PROVE  id \in saved
      BY <1>3 DEF FullyIndexedIsTrue
    <3>1. meta.fullyIndexed \in 0..tip
      BY <1>2 DEF SyncInv, TypeOK, Meta, MarksInv
    <3>2. id <= LastId(meta.fullyIndexed)
      <4>1. meta.fullyIndexed \in Nat
        BY <1>2, <3>1
      <4> QED
        BY <1>6, <4>1, LedgerFacts
    <3>3. id \in events
      BY <1>11, <3>1, <3>2
    <3> QED
      BY <3>3 DEF SyncInv, NothingMissed, FullyIndexedIsTrue
  <2> QED
    BY <2>1, <2>2 DEF NothingMissed
<1>13. MarksInv'
  <2> SUFFICES ASSUME meta # None
               PROVE  MarksInv'
    BY <1>3 DEF MarksInv
  <2>1. /\ meta.lastIndexed - 1 \in 0..tip
        /\ meta.lastIndexed <= tip' /\ meta.fullyIndexed <= tip'
    BY <1>2 DEF SyncInv, TypeOK, Meta, MarksInv
  <2>2. \A id \in events' : id <= LastId(meta.lastIndexed - 1) => id \in saved
    BY <1>11, <2>1 DEF SyncInv, MarksInv
  <2>3. ASSUME meta.cursor # None
        PROVE  /\ meta.cursor <= LastId(tip')
               /\ \A id \in events' :
                     meta.cursor < id => LastId(meta.lastIndexed - 1) < id
    <3>1. meta.cursor \in Nat /\ meta.cursor <= LastId(tip)
      BY <1>7, <2>3 DEF SyncInv, TypeOK, Meta, MarksInv
    <3>2. LastId(tip') \in Nat /\ LastId(meta.lastIndexed - 1) \in Nat
          /\ LastId(meta.lastIndexed - 1) <= LastId(tip)
      <4> DEFINE k == meta.lastIndexed - 1
      <4>1. k \in Nat /\ tip \in Nat /\ tip' \in Nat /\ k <= tip
        BY <1>2, <2>1
      <4> HIDE DEF k
      <4>2. LastId(k) \in Nat /\ LastId(k) <= LastId(tip) /\ LastId(tip') \in Nat
        BY <4>1, LaterLedger
      <4> QED
        BY <4>2 DEF k
    <3>3. \A id \in events :
             meta.cursor < id => LastId(meta.lastIndexed - 1) < id
      BY <2>3 DEF SyncInv, MarksInv
    <3> QED
      BY <1>2, <1>6, <3>1, <3>2, <3>3
  <2> QED
    BY <1>3, <2>1, <2>2, <2>3 DEF MarksInv
<1>14. AnswerInv'
  <2>1. CASE step \in {"save", "progress"}
    <3>1. /\ answer \in Pages /\ answer.end \in Nat /\ answer.latest \in Nat
          /\ answer.end <= LastId(tip)
          /\ answer.ids = Between(Passed, answer.end)
      <4>1. /\ answer \in Pages /\ answer.end <= LastId(tip)
            /\ answer.ids = Between(Passed, answer.end)
        BY <2>1 DEF SyncInv, AnswerInv
      <4>2. answer.end \in Nat /\ answer.latest \in Nat
        BY <4>1, PageType
      <4> QED
        BY <4>1, <4>2
    <3>2. answer.end <= LastId(tip')
      <4>1. tip' \in Nat
        BY <1>2
      <4>2. LastId(tip') \in Nat
        BY <4>1, LedgerFacts
      <4> QED
        BY <1>2, <3>1, <4>2
    <3>3. Between(Passed, answer.end)' = Between(Passed, answer.end)
      <4>1. {id \in events' : Passed < id /\ id <= answer.end}
                = {id \in events : Passed < id /\ id <= answer.end}
        BY <1>2, <1>5, <1>6, <3>1
      <4> QED
        BY <1>3, <1>4, <4>1 DEF Between
    <3>4. ASSUME answer.ids = {}
          PROVE  /\ answer.latest <= tip'
                 /\ Passed <= answer.end
                 /\ \A id \in events' : id <= LastId(answer.latest) => id <= Passed
                 /\ meta # None => /\ meta.lastIndexed <= answer.latest
                                   /\ meta.fullyIndexed <= answer.latest
      <4>1. /\ answer.latest \in 0..tip
            /\ Passed <= answer.end
            /\ \A id \in events : id <= LastId(answer.latest) => id <= Passed
            /\ meta # None => /\ meta.lastIndexed <= answer.latest
                              /\ meta.fullyIndexed <= answer.latest
        BY <1>2, <2>1, <3>1, <3>4 DEF SyncInv, AnswerInv
      <4> QED
        BY <1>2, <1>11, <4>1
    <3> QED
      BY <1>3, <1>4, <2>1, <3>1, <3>2, <3>3, <3>4 DEF SyncInv, AnswerInv
  <2>2. CASE step \notin {"save", "progress"}
    BY <1>3, <2>2 DEF SyncInv, AnswerInv
  <2> QED
    BY <2>1, <2>2
<1> QED
  BY <1>8, <1>9, <1>10, <1>12, <1>13, <1>14 DEF SyncInv

-----------------------------------------------------------------------------
(* The bootnode.                                                           *)

\* Its steps leave the listener alone, so three parts remain to be shown.
LEMMA BootnodeStep ==
    ASSUME SyncInv, UNCHANGED <<tip, events, clientVars>>,
           BootnodeTypeOK', CacheFaithful', BootnodeInv'
    PROVE  SyncInv'
<1>1. UNCHANGED <<tip, events, saved, meta, step, source, answer>>
  BY DEF clientVars
<1>2. UNCHANGED <<Passed, LastId(tip)>>
  BY <1>1 DEF Passed, Cursor, ResumeLedger, LastId
<1>3. NothingMissed'
  BY <1>1, <1>2 DEF SyncInv, NothingMissed, NoEventMissed, FullyIndexedIsTrue
<1>4. MarksInv'
  BY <1>1, <1>2 DEF SyncInv, MarksInv
<1>5. UNCHANGED Between(Passed, answer.end)
  BY <1>1, <1>2 DEF Between
<1>6. AnswerInv'
  BY <1>1, <1>2, <1>5 DEF SyncInv, AnswerInv
<1>7. TypeOK'
  BY <1>1 DEF SyncInv, TypeOK, LedgersTypeOK
<1> QED
  BY <1>3, <1>4, <1>6, <1>7 DEF SyncInv

\* The end of a round forgets what it has fetched.
LEMMA EndRoundInv ==
    ASSUME SyncInv, UNCHANGED <<tip, events, pages, clientVars>>, BnEndRound,
           bnTip' \in 0..MaxLedger, inSync' \in BOOLEAN,
           bnCursor' \in Cursors \cup {None},
           bnCursor' # None => bnCursor' <= LastId(tip)
    PROVE  SyncInv'
<1>1. BootnodeTypeOK'
  BY BootnodeAssumption DEF SyncInv, TypeOK, BootnodeTypeOK, BnEndRound, Keys
<1>2. CacheFaithful'
  BY DEF SyncInv, CacheFaithful, Between, CursorOf
<1>3. LastId(tip) \in Nat /\ LastId(tip)' = LastId(tip)
  BY LedgerFacts DEF SyncInv, TypeOK, LedgersTypeOK
<1>4. BootnodeInv'
  BY <1>3 DEF SyncInv, BootnodeInv, BnEndRound, CursorOf
<1> QED
  BY <1>1, <1>2, <1>4, BootnodeStep

LEMMA BnStartRoundInv ==
    ASSUME SyncInv, BnStartRound, UNCHANGED <<tip, events, clientVars>>
    PROVE  SyncInv'
<1> USE DEF BnStartRound, BnGoTo
<1>1. BootnodeTypeOK'
  BY DEF SyncInv, TypeOK, LedgersTypeOK, BootnodeTypeOK, Keys, RoundStart
<1>2. CacheFaithful'
  BY DEF SyncInv, CacheFaithful, Between, CursorOf
<1>3. LastId(tip) \in Nat /\ LastId(tip)' = LastId(tip)
  BY LedgerFacts DEF SyncInv, TypeOK, LedgersTypeOK
<1>4. CursorOf(bnAt)' <= LastId(tip)
  BY <1>3 DEF SyncInv, BootnodeInv, CursorOf, RoundStart
<1>5. BootnodeInv'
  BY <1>3, <1>4 DEF SyncInv, BootnodeInv
<1> QED
  BY <1>1, <1>2, <1>5, BootnodeStep

LEMMA BnFetchInv ==
    ASSUME SyncInv, BnFetch, UNCHANGED <<tip, events, clientVars>>
    PROVE  SyncInv'
<1> USE DEF BnFetch, BnGoTo, stored
<1> DEFINE c == CursorOf(bnAt)
<1>1. LedgersTypeOK
  BY DEF SyncInv, TypeOK
<1>2. LastId(tip) \in Nat /\ LastId(tip)' = LastId(tip)
  BY LedgerFacts DEF SyncInv, TypeOK, LedgersTypeOK
<1>3. c \in Nat
  BY DEF SyncInv, TypeOK, BootnodeTypeOK, Keys, Cursors, CursorOf
<1>4. c \in 0..LastId(tip)
  BY <1>2, <1>3 DEF SyncInv, BootnodeInv
<1>5. /\ bnPage' \in Pages
      /\ bnPage'.ids = Between(c, bnPage'.end)
      /\ bnPage'.end <= LastId(tip)
  BY <1>1, <1>4, PageFacts
<1>6. BootnodeTypeOK'
  BY <1>5 DEF SyncInv, TypeOK, BootnodeTypeOK
<1>7. CacheFaithful'
  BY DEF SyncInv, CacheFaithful, Between, CursorOf
<1>8. CursorOf(bnAt)' = CursorOf(bnAt)
      /\ Between(CursorOf(bnAt), bnPage.end)' = Between(c, bnPage'.end)
  BY DEF CursorOf, Between
<1>9. BootnodeInv'
  BY <1>2, <1>5, <1>8 DEF SyncInv, BootnodeInv
<1> QED
  BY <1>6, <1>7, <1>9, BootnodeStep

LEMMA BnUnsyncInv ==
    ASSUME SyncInv, BnUnsync, UNCHANGED <<tip, events, clientVars>>
    PROVE  SyncInv'
<1> USE DEF BnUnsync, BnGoTo
<1>1. BootnodeTypeOK'
  BY DEF SyncInv, TypeOK, BootnodeTypeOK
<1>2. CacheFaithful'
  BY DEF SyncInv, CacheFaithful, Between, CursorOf
<1>3. UNCHANGED <<LastId(tip), CursorOf(bnAt), Between(CursorOf(bnAt), bnPage.end)>>
  BY DEF LastId, CursorOf, Between
<1>4. BootnodeInv'
  BY <1>3 DEF SyncInv, BootnodeInv
<1> QED
  BY <1>1, <1>2, <1>4, BootnodeStep

\* The page stored under the cursor of the round follows on that cursor.
LEMMA BnInsertInv ==
    ASSUME SyncInv, BnInsert, UNCHANGED <<tip, events, clientVars>>
    PROVE  SyncInv'
<1> USE DEF BnInsert, BnGoTo
<1>1. /\ DOMAIN pages' \subseteq DOMAIN pages \cup {bnAt}
      /\ \A key \in DOMAIN pages' :
            \/ key \in DOMAIN pages /\ pages'[key] = pages[key]
            \/ key = bnAt /\ pages'[key] = bnPage
  BY DEF WithPage
<1>2. /\ bnPage \in Pages /\ bnPage.end <= LastId(tip) /\ bnPage.ids # {}
      /\ bnPage.ids = Between(CursorOf(bnAt), bnPage.end)
  BY DEF SyncInv, BootnodeInv
<1>3. UNCHANGED <<LastId(tip), CursorOf(bnAt)>>
  BY DEF LastId, CursorOf
<1>4. BootnodeTypeOK'
  BY <1>1, <1>2 DEF SyncInv, TypeOK, BootnodeTypeOK
<1>5. CacheFaithful'
  <2> SUFFICES ASSUME NEW key \in DOMAIN pages'
               PROVE  /\ pages'[key].ids # {}
                      /\ pages'[key].ids = Between(CursorOf(key), pages'[key].end)
    BY DEF CacheFaithful, Between, CursorOf
  <2> QED
    BY <1>1, <1>2 DEF SyncInv, CacheFaithful
<1>6. BootnodeInv'
  BY <1>1, <1>2, <1>3 DEF SyncInv, BootnodeInv
<1> QED
  BY <1>4, <1>5, <1>6, BootnodeStep

LEMMA BnAdvanceInv ==
    ASSUME SyncInv, BnAdvance, UNCHANGED <<tip, events, clientVars>>
    PROVE  SyncInv'
<1> USE DEF BnAdvance, BnGoTo
<1>1. bnPage \in Pages /\ bnPage.end <= LastId(tip)
  BY DEF SyncInv, BootnodeInv
<1>2. bnPage.end \in Cursors
  BY <1>1, PageType
<1>3. CASE BnEndRound
  BY <1>1, <1>2, <1>3, EndRoundInv DEF SyncInv, TypeOK, BootnodeTypeOK
<1>4. CASE bnStep' = "fetch" /\ bnAt' = bnPage.end /\ bnPage' = None
  <2>1. BootnodeTypeOK'
    BY <1>2, <1>4 DEF SyncInv, TypeOK, BootnodeTypeOK, Keys
  <2>2. CacheFaithful'
    BY DEF SyncInv, CacheFaithful, Between, CursorOf
  <2>3. CursorOf(bnAt)' = bnPage.end
    BY <1>2, <1>4, BootnodeAssumption DEF CursorOf
  <2>4. BootnodeInv'
    BY <1>1, <1>4, <2>3 DEF SyncInv, BootnodeInv, LastId
  <2> QED
    BY <2>1, <2>2, <2>4, BootnodeStep
<1> QED
  BY <1>3, <1>4

LEMMA BnCaughtUpInv ==
    ASSUME SyncInv, BnCaughtUp, UNCHANGED <<tip, events, clientVars>>
    PROVE  SyncInv'
<1> USE DEF BnCaughtUp, BnGoTo
<1>1. bnPage \in Pages /\ bnPage.end <= LastId(tip)
  BY DEF SyncInv, BootnodeInv
<1>2. bnPage.end \in Cursors
  BY <1>1, PageType
<1>3. BootnodeTypeOK'
  BY <1>2 DEF SyncInv, TypeOK, BootnodeTypeOK
<1>4. CacheFaithful'
  BY DEF SyncInv, CacheFaithful, Between, CursorOf
<1>5. BootnodeInv'
  BY <1>1 DEF SyncInv, BootnodeInv, LastId, CursorOf
<1> QED
  BY <1>3, <1>4, <1>5, BootnodeStep

LEMMA BootnodeNextInv ==
    ASSUME SyncInv, BnRound \/ BnFetchFails \/ BnRestart,
           UNCHANGED <<tip, events, clientVars>>
    PROVE  SyncInv'
<1>1. ASSUME BnSync \/ BnFetchFails \/ BnRestart
      PROVE  SyncInv'
  <2>1. /\ UNCHANGED <<bnTip, bnCursor, pages>> /\ BnEndRound
        /\ inSync' \in {inSync, TRUE}
    BY <1>1 DEF BnSync, BnFetchFails, BnRestart, stored
  <2> QED
    BY <2>1, EndRoundInv DEF SyncInv, TypeOK, BootnodeTypeOK, BootnodeInv
<1> QED
  BY <1>1, BnStartRoundInv, BnFetchInv, BnUnsyncInv, BnInsertInv, BnAdvanceInv,
     BnCaughtUpInv DEF BnRound

-----------------------------------------------------------------------------
(* The listener.                                                           *)

\* Its steps leave the ledgers and the bootnode alone.
LEMMA ListenerStep ==
    ASSUME SyncInv, UNCHANGED <<tip, events, bnVars>>,
           saved' \subseteq events, meta' \in Meta \cup {None},
           step' \in {"probe", "bootnodeProbe", "resume", "fetch", "save", "progress",
                     "missed", "bootnodeMissed", "stopped"},
           source' \in {"wallet", "bootnode"},
           answer' \in Pages \cup Handoffs \cup Stops \cup {None},
           NothingMissed', MarksInv', AnswerInv'
    PROVE  SyncInv'
<1> USE DEF bnVars, stored, round
<1>1. TypeOK'
  BY DEF SyncInv, TypeOK, LedgersTypeOK, BootnodeTypeOK
<1>2. CacheFaithful'
  BY DEF SyncInv, CacheFaithful, Between, CursorOf
<1>3. UNCHANGED <<LastId(tip), CursorOf(bnAt), Between(CursorOf(bnAt), bnPage.end)>>
  BY DEF LastId, CursorOf, Between
<1>4. BootnodeInv'
  BY <1>3 DEF SyncInv, BootnodeInv
<1> QED
  BY <1>1, <1>2, <1>4 DEF SyncInv

\* A step that stores nothing only has to mind the answer.
LEMMA SameMarks ==
    ASSUME SyncInv, UNCHANGED <<tip, events, bnVars, saved, meta>>,
           step' \in {"probe", "bootnodeProbe", "resume", "fetch", "save", "progress",
                     "missed", "bootnodeMissed", "stopped"},
           source' \in {"wallet", "bootnode"},
           answer' \in Pages \cup Handoffs \cup Stops \cup {None},
           AnswerInv'
    PROVE  SyncInv'
<1>1. UNCHANGED <<Passed, LastId(tip)>>
  BY DEF Passed, Cursor, ResumeLedger, LastId
<1>2. NothingMissed'
  BY <1>1 DEF SyncInv, NothingMissed, NoEventMissed, FullyIndexedIsTrue
<1>3. MarksInv'
  BY <1>1 DEF SyncInv, MarksInv
<1>4. saved' \subseteq events /\ meta' \in Meta \cup {None}
  BY DEF SyncInv, TypeOK
<1> QED
  BY <1>2, <1>3, <1>4, ListenerStep

\* Clearing the cursor goes back to the last indexed ledger, and everything
\* before it is stored.
LEMMA ClearedCursor ==
    ASSUME SyncInv, UNCHANGED <<tip, events, bnVars, saved>>,
           meta' = WithoutCursor,
           step' \in {"bootnodeProbe", "resume"},
           source' \in {"wallet", "bootnode"},
           answer' \in Handoffs \cup {None}
    PROVE  SyncInv'
<1>1. AnswerInv'
  BY DEF AnswerInv
<1>2. CASE meta = None
  <2>1. UNCHANGED meta
    BY <1>2 DEF WithoutCursor
  <2> QED
    BY <1>1, <2>1, SameMarks
<1>3. CASE meta # None
  <2>1. meta \in Meta
    BY <1>3 DEF SyncInv, TypeOK
  <2>2. /\ meta' \in Meta
        /\ meta'.cursor = None
        /\ meta'.lastIndexed = meta.lastIndexed
        /\ meta'.fullyIndexed = meta.fullyIndexed
    BY <1>3, <2>1 DEF WithoutCursor, Meta
  <2>3. meta' # None
    BY <2>2, SyncAssumption
  <2>4. Passed' = LastId(meta.lastIndexed - 1)
    BY <2>2, <2>3 DEF Passed, Cursor, ResumeLedger, LastId
  <2>5. NoEventMissed'
    BY <1>3, <2>4 DEF SyncInv, MarksInv, NoEventMissed
  <2>6. FullyIndexedIsTrue'
    BY <1>3, <2>2 DEF SyncInv, NothingMissed, FullyIndexedIsTrue
  <2>7. MarksInv'
    BY <1>3, <2>2, <2>3 DEF SyncInv, MarksInv
  <2>8. saved' \subseteq events
    BY DEF SyncInv, TypeOK
  <2> QED
    BY <1>1, <2>2, <2>5, <2>6, <2>7, <2>8, ListenerStep DEF NothingMissed
<1> QED
  BY <1>2, <1>3

LEMMA CutoffType == SyncInv => [from |-> Cutoff] \in Handoffs
<1> SUFFICES ASSUME SyncInv PROVE Cutoff \in 0..MaxLedger
  BY DEF Handoffs
<1> QED
  BY Bounds, BootnodeAssumption DEF SyncInv, TypeOK, BootnodeTypeOK, Cutoff

\* A cached page for what the app asks for follows on what it has stored.
LEMMA CachedPage ==
    ASSUME SyncInv, Cached(Request)
    PROVE  LET page == pages[KeyOf(Request)]
           IN  /\ page \in Pages /\ page.ids # {}
               /\ page.end <= LastId(tip)
               /\ page.ids = Between(Passed, page.end)
<1> DEFINE key == KeyOf(Request)
<1>1. /\ key \in DOMAIN pages /\ key \in Keys
      /\ pages[key] \in Pages /\ pages[key].ids # {}
      /\ pages[key].end <= LastId(tip)
      /\ pages[key].ids = Between(CursorOf(key), pages[key].end)
  BY DEF Cached, SyncInv, TypeOK, BootnodeTypeOK, CacheFaithful, BootnodeInv
<1>2. key # None
  BY <1>1, BootnodeAssumption DEF Keys
<1>3. CursorOf(key) = Passed
  <2>1. CASE Cursor # None
    <3>1. meta # None /\ Cursor \in Cursors
      BY <2>1 DEF Cursor, SyncInv, TypeOK, Meta
    <3>2. key = Cursor
      BY <2>1 DEF KeyOf, Request
    <3> QED
      BY <2>1, <3>1, <3>2, BootnodeAssumption DEF CursorOf, Passed
  <2>2. CASE Cursor = None
    <3>1. ResumeLedger = 1 /\ key = Start
      BY <1>2, <2>2 DEF KeyOf, Request
    <3>2. Passed = 0
      BY <2>2, <3>1, LedgerFacts DEF Passed
    <3> QED
      BY <3>1, <3>2 DEF CursorOf
  <2> QED
    BY <2>1, <2>2
<1> QED
  BY <1>1, <1>3

LEMMA ProbesInv ==
    ASSUME SyncInv, UNCHANGED <<tip, events, bnVars>>,
           ProbeWallet \/ ResumeOnWallet \/ ProbeFails \/ ProbeBootnode
               \/ BootnodeProbeMissed \/ Reload
    PROVE  SyncInv'
<1>1. CASE meta' = WithoutCursor /\ step' \in {"bootnodeProbe", "resume"}
  <2>1. source' \in {"wallet", "bootnode"} /\ answer' \in Handoffs \cup {None}
        /\ UNCHANGED saved
    <3>1. source \in {"wallet", "bootnode"}
      BY DEF SyncInv, TypeOK
    <3>2. [from |-> Cutoff] \in Handoffs
      BY CutoffType
    <3>3. step = "bootnodeMissed" => [from |-> answer.from] \in Handoffs
      BY DEF SyncInv, AnswerInv, Handoffs
    <3> QED
      BY <1>1, <3>1, <3>2, <3>3
         DEF ProbeWallet, ResumeOnWallet, ProbeFails, ProbeBootnode,
             BootnodeProbeMissed, Reload, TakeHandoff, Goes, Stop
  <2> QED
    BY <1>1, <2>1, ClearedCursor
<1>2. CASE ~(meta' = WithoutCursor /\ step' \in {"bootnodeProbe", "resume"})
  <2>1. /\ UNCHANGED <<saved, meta>>
        /\ \/ step' \in {"probe", "fetch", "bootnodeProbe"} /\ answer' = None
           \/ step' = "bootnodeMissed" /\ answer' = [from |-> Cutoff]
           \/ step' = "stopped"
              /\ answer' \in {[why |-> "cache miss"], [why |-> "sync gap"],
                             [why |-> "outage"]}
        /\ source' \in {source, "wallet", "bootnode"}
    BY <1>2 DEF ProbeWallet, ResumeOnWallet, ProbeFails, ProbeBootnode,
                BootnodeProbeMissed, Reload, TakeHandoff, Goes, Stop
  <2>2. [from |-> Cutoff] \in Handoffs
    BY CutoffType
  <2>3. source' \in {"wallet", "bootnode"}
    BY <2>1 DEF SyncInv, TypeOK
  <2>4. answer' \in Handoffs \cup Stops \cup {None}
    <3>1. {[why |-> "cache miss"], [why |-> "sync gap"], [why |-> "outage"]}
              \subseteq Stops
      BY DEF Stops
    <3> QED
      BY <2>1, <2>2, <3>1
  <2>5. AnswerInv'
    BY <2>1, <2>2 DEF AnswerInv
  <2> QED
    BY <2>1, <2>3, <2>4, <2>5, SameMarks
<1> QED
  BY <1>1, <1>2

LEMMA FetchFromBootnodeInv ==
    ASSUME SyncInv, UNCHANGED <<tip, events, bnVars>>,
           FetchFromBootnode \/ FetchMissed
    PROVE  SyncInv'
<1>1. UNCHANGED <<saved, source>> /\ source' \in {"wallet", "bootnode"}
  BY DEF FetchFromBootnode, FetchMissed, SyncInv, TypeOK
<1>2. [from |-> Cutoff] \in Handoffs
  BY CutoffType
<1>3. step = "missed" => [from |-> answer.from] \in Handoffs
  BY DEF SyncInv, AnswerInv, Handoffs
<1>4. CASE meta' = WithoutCursor /\ step' = "resume"
           /\ answer' \in {[from |-> Cutoff], [from |-> answer.from]}
           /\ (answer' = [from |-> Cutoff] \/ step = "missed")
  BY <1>1, <1>2, <1>3, <1>4, ClearedCursor
<1>5. CASE /\ Cached(Request) /\ step' = "save" /\ UNCHANGED meta
           /\ answer' = pages[KeyOf(Request)]
  <2> DEFINE page == pages[KeyOf(Request)]
  <2>1. /\ page \in Pages /\ page.ids # {} /\ page.end <= LastId(tip)
        /\ page.ids = Between(Passed, page.end)
    BY <1>5, CachedPage
  <2> HIDE DEF page
  <2>2. answer' = page
    BY <1>5 DEF page
  <2>3. UNCHANGED <<Passed, LastId(tip)>>
    BY <1>5 DEF Passed, Cursor, ResumeLedger, LastId
  <2>4. Between(Passed, answer.end)' = Between(Passed, page.end)
    BY <2>2, <2>3 DEF Between
  <2>5. AnswerInv'
    BY <1>5, <2>1, <2>2, <2>3, <2>4 DEF AnswerInv
  <2> QED
    BY <1>1, <1>5, <2>1, <2>2, <2>5, SameMarks
<1>6. CASE /\ UNCHANGED meta
           /\ \/ step' = "missed" /\ answer' = [from |-> Cutoff]
              \/ step' = "fetch" /\ answer' = None
  <2>1. AnswerInv'
    BY <1>2, <1>6 DEF AnswerInv
  <2> QED
    BY <1>1, <1>2, <1>6, <2>1, SameMarks
<1> QED
  BY <1>4, <1>5, <1>6 DEF FetchFromBootnode, FetchMissed, TakeHandoff, Goes

\* The RPC's page follows on what is stored; when it is empty, nothing was left
\* of the ledgers closed so far.
LEMMA FetchFromWalletInv ==
    ASSUME SyncInv, UNCHANGED <<tip, events, bnVars>>, FetchFromWallet
    PROVE  SyncInv'
<1> DEFINE page == PageAfter(Passed)
<1>1. LedgersTypeOK /\ Passed \in 0..LastId(tip)
  BY PassedType DEF SyncInv, TypeOK
<1>2. /\ page \in Pages /\ page.end <= LastId(tip) /\ page.latest = tip
      /\ page.ids = Between(Passed, page.end)
      /\ page.ids = {} => Passed <= page.end /\ \A id \in events : id <= Passed
  BY <1>1, PageFacts
<1>3. /\ answer' = page /\ step' = "save" /\ UNCHANGED <<saved, meta, source>>
  BY DEF FetchFromWallet, Goes
<1> HIDE DEF page
<1>4. tip \in Nat
  BY <1>1, Bounds DEF LedgersTypeOK
<1>5. UNCHANGED <<Passed, LastId(tip)>>
  BY <1>2, <1>3 DEF Passed, Cursor, ResumeLedger, LastId
<1>6. Between(Passed, answer.end)' = Between(Passed, page.end)
  BY <1>3, <1>5 DEF Between
<1>7. meta # None => meta.lastIndexed <= tip /\ meta.fullyIndexed <= tip
  BY DEF SyncInv, MarksInv
<1>8. AnswerInv'
  BY <1>2, <1>3, <1>4, <1>5, <1>6, <1>7 DEF AnswerInv
<1>9. source' \in {"wallet", "bootnode"}
  BY <1>3 DEF SyncInv, TypeOK
<1> QED
  BY <1>2, <1>3, <1>8, <1>9, SameMarks

LEMMA SaveEventsInv ==
    ASSUME SyncInv, UNCHANGED <<tip, events, bnVars>>, SaveEvents
    PROVE  SyncInv'
<1>1. /\ step = "save" /\ step' = "progress" /\ answer' = answer
      /\ saved' = saved \cup answer.ids /\ UNCHANGED <<meta, source>>
  BY DEF SaveEvents, Goes
<1>2. answer \in Pages /\ answer.ids \subseteq events
  BY <1>1 DEF SyncInv, AnswerInv, Between
<1>3. UNCHANGED <<Passed, LastId(tip), Between(Passed, answer.end)>>
  BY <1>1 DEF Passed, Cursor, ResumeLedger, LastId, Between
<1>4. NothingMissed'
  BY <1>1, <1>3 DEF SyncInv, NothingMissed, NoEventMissed, FullyIndexedIsTrue
<1>5. MarksInv'
  BY <1>1, <1>3 DEF SyncInv, MarksInv
<1>6. AnswerInv'
  BY <1>1, <1>3 DEF SyncInv, AnswerInv
<1>7. saved' \subseteq events /\ meta' \in Meta \cup {None}
      /\ source' \in {"wallet", "bootnode"}
  BY <1>1, <1>2 DEF SyncInv, TypeOK
<1> QED
  BY <1>1, <1>2, <1>4, <1>5, <1>6, <1>7, ListenerStep

\* What saving the progress of a page makes the marks: for an empty page the
\* server's ledger, otherwise that of the page's last event.
LEMMA ProgressFacts ==
    ASSUME SyncInv, UNCHANGED <<tip, events, bnVars>>, SaveProgress
    PROVE  /\ meta' \in Meta /\ meta' # None
           /\ meta'.cursor = answer.end /\ meta'.cursor # None
           /\ Passed' = answer.end
           /\ meta'.lastIndexed <= tip /\ meta'.fullyIndexed <= tip
           /\ \A id \in events : id <= answer.end => id \in saved
           /\ \A id \in events :
                 id <= LastId(meta'.lastIndexed - 1) => id \in saved
           /\ \A id \in events : answer.end < id => LastId(meta'.lastIndexed - 1) < id
           /\ \A id \in events :
                 LedgerOf(id) <= meta'.fullyIndexed => id \in saved
           /\ meta # None => /\ meta.lastIndexed <= meta'.lastIndexed
                             /\ meta.fullyIndexed <= meta'.fullyIndexed
<1> DEFINE page == answer
<1>1. /\ page \in Pages /\ page.end <= LastId(tip) /\ page.ids \subseteq saved
      /\ page.ids = Between(Passed, page.end)
      /\ page.ids = {} =>
            /\ page.latest <= tip /\ Passed <= page.end
            /\ \A id \in events : id <= LastId(page.latest) => id <= Passed
            /\ meta # None => /\ meta.lastIndexed <= page.latest
                              /\ meta.fullyIndexed <= page.latest
  BY DEF SaveProgress, SyncInv, AnswerInv
<1>2. meta' = [cursor |-> page.end, lastIndexed |-> ProgressLedger(page),
               fullyIndexed |-> FullyIndexed(page)]
  BY DEF SaveProgress
<1>3. Passed \in 0..LastId(tip) /\ tip \in Nat \ {0} /\ LastId(tip) \in Nat
      /\ tip <= MaxLedger
  <2>1. tip \in Nat \ {0} /\ tip <= MaxLedger
    BY Bounds DEF SyncInv, TypeOK, LedgersTypeOK
  <2> QED
    BY <2>1, PassedType, LedgerFacts DEF SyncInv
<1>4. /\ page.end \in Nat /\ page.end \in Cursors
      /\ page.latest \in Nat \ {0} /\ page.latest <= MaxLedger
  BY <1>1, PageType
<1>5. \A id \in events : id \in Nat \ {0} /\ id <= LastId(tip)
  BY <1>3 DEF SyncInv, TypeOK, LedgersTypeOK
<1>6. \A id \in events : id <= page.end => id \in saved
  <2> SUFFICES ASSUME NEW id \in events, id <= page.end
               PROVE  id \in saved
    OBVIOUS
  <2>1. CASE id <= Passed
    BY <2>1 DEF SyncInv, NothingMissed, NoEventMissed
  <2>2. CASE Passed < id
    BY <1>1, <2>2 DEF Between
  <2> QED
    BY <1>3, <1>5, <2>1, <2>2
<1>7. meta # None =>
        /\ meta.lastIndexed \in Nat \ {0} /\ meta.fullyIndexed \in Nat
        /\ meta.fullyIndexed <= tip /\ meta.fullyIndexed <= MaxLedger
  <2>1. meta # None => meta \in Meta /\ meta.fullyIndexed <= tip
    BY DEF SyncInv, TypeOK, MarksInv
  <2> QED
    BY <1>3, <2>1, Bounds DEF Meta
<1> HIDE DEF page
<1>8. CASE page.ids = {}
  <2>1. /\ ProgressLedger(page) = page.latest
        /\ FullyIndexed(page) = page.latest
    BY <1>8 DEF ProgressLedger, FullyIndexed
  <2>2. page.latest <= tip /\ page.latest - 1 \in Nat
    BY <1>1, <1>4, <1>8
  <2>3. LastId(page.latest) \in Nat /\ LastId(page.latest - 1) \in Nat
        /\ LastId(page.latest - 1) <= LastId(page.latest)
    <3> DEFINE k == page.latest - 1
    <3>1. k \in Nat /\ page.latest \in Nat /\ k <= page.latest
      BY <1>4, <2>2
    <3> HIDE DEF k
    <3>2. LastId(page.latest) \in Nat /\ LastId(k) \in Nat
          /\ LastId(k) <= LastId(page.latest)
      BY <3>1, LaterLedger
    <3> QED
      BY <3>2 DEF k
  <2>4. \A id \in events : id <= LastId(page.latest) => id <= Passed /\ id \in saved
    BY <1>1, <1>8 DEF SyncInv, NothingMissed, NoEventMissed
  <2>5. \A id \in events : id <= LastId(page.latest - 1) => id \in saved
    BY <1>5, <2>3, <2>4
  <2>6. \A id \in events : page.end < id => LastId(page.latest - 1) < id
    BY <1>1, <1>3, <1>4, <1>5, <1>8, <2>3, <2>4
  <2>7. \A id \in events : LedgerOf(id) <= page.latest => id \in saved
    BY <1>4, <1>5, <2>4, LedgerFacts
  <2>8. meta' \in Meta
    BY <1>2, <1>4, <2>1 DEF Meta
  <2>9. meta' # None /\ page.end # None
    BY <1>4, <2>8, SyncAssumption, BootnodeAssumption
  <2>10. Passed' = page.end
    BY <1>2, <2>9 DEF Passed, Cursor
  <2> QED
    BY <1>1, <1>2, <1>6, <1>8, <2>1, <2>2, <2>5, <2>6, <2>7, <2>8, <2>9, <2>10
       DEF page
<1>9. CASE page.ids # {}
  <2> DEFINE l == LastLedger(page)
             f == IF meta = None THEN 0 ELSE meta.fullyIndexed
  <2>1. PICK last \in page.ids : /\ \A id \in page.ids : id <= last
                                /\ l = LedgerOf(last) /\ l \in 1..MaxLedger
                                /\ LastId(l - 1) < last
                                /\ last <= LastId(l)
    BY <1>1, <1>9, LastLedgerFacts
  <2>2. ProgressLedger(page) = l /\ FullyIndexed(page) = f
    BY <1>9 DEF ProgressLedger, FullyIndexed
  <2> HIDE DEF l
  <2>3. last \in events /\ last \in Nat \ {0} /\ last <= LastId(tip)
        /\ Passed < last /\ last <= page.end
    BY <1>1, <1>5 DEF Between
  <2>4. l \in Nat \ {0} /\ l <= MaxLedger /\ l - 1 \in Nat /\ l <= tip
    <3>1. l \in Nat \ {0} /\ l <= MaxLedger /\ l - 1 \in Nat
      BY <2>1, Bounds
    <3>2. l <= tip
      BY <1>3, <2>1, <2>3, LedgerFacts
    <3> QED
      BY <3>1, <3>2
  <2>5. LastId(l - 1) \in Nat
    BY <2>4, LedgerFacts
  <2>6. \A id \in events : id <= LastId(l - 1) => id <= page.end
    BY <1>4, <1>5, <2>1, <2>3, <2>5
  <2>7. \A id \in events : page.end < id => LastId(l - 1) < id
    BY <1>4, <1>5, <2>1, <2>3, <2>5
  <2>8. \A id \in events : LedgerOf(id) <= f => id \in saved
    <3>1. \A id \in events : LedgerOf(id) \in Nat \ {0}
      BY <1>5, LedgerFacts
    <3> QED
      BY <3>1 DEF SyncInv, NothingMissed, FullyIndexedIsTrue
  <2>9. f \in 0..MaxLedger /\ f <= tip
    BY <1>3, <1>7, Bounds
  <2>10. meta' \in Meta
    BY <1>2, <1>4, <2>1, <2>2, <2>9 DEF Meta
  <2>11. meta' # None /\ page.end # None
    BY <1>4, <2>10, SyncAssumption, BootnodeAssumption
  <2>12. Passed' = page.end
    BY <1>2, <2>11 DEF Passed, Cursor
  <2>13. ASSUME meta # None
         PROVE  meta.lastIndexed <= l /\ meta.fullyIndexed <= f
    <3> DEFINE k == meta.lastIndexed - 1
    <3>1. LastId(k) < last
      <4>1. CASE Cursor = None
        BY <2>3, <2>13, <4>1 DEF Passed, ResumeLedger
      <4>2. CASE Cursor # None
        <5>1. meta.cursor < last /\ meta.cursor # None
          BY <2>3, <2>13, <4>2 DEF Passed, Cursor
        <5> QED
          BY <2>3, <2>13, <5>1 DEF SyncInv, MarksInv
      <4> QED
        BY <4>1, <4>2
    <3>2. k \in Nat /\ LastId(k) \in Nat
      <4>1. k \in Nat
        BY <1>7, <2>13
      <4> QED
        BY <4>1, LedgerFacts
    <3>3. ~(last <= LastId(k))
      BY <2>3, <3>1, <3>2
    <3>4. ~(l <= k)
      BY <2>1, <2>3, <3>2, <3>3, LedgerFacts
    <3>5. meta.lastIndexed <= l
      BY <1>7, <2>4, <2>13, <3>4
    <3> QED
      BY <1>7, <2>13, <3>5
  <2> HIDE DEF f
  <2> QED
    BY <1>2, <1>6, <2>2, <2>4, <2>6, <2>7, <2>8, <2>9, <2>10, <2>11, <2>12, <2>13
       DEF page
<1> QED
  BY <1>8, <1>9

LEMMA SaveProgressInv ==
    ASSUME SyncInv, UNCHANGED <<tip, events, bnVars>>, SaveProgress
    PROVE  SyncInv'
<1>1. /\ step' = "fetch" /\ answer' = None /\ UNCHANGED <<saved, source>>
  BY DEF SaveProgress, Goes
<1>2. answer.end <= LastId(tip)
  BY DEF SaveProgress, SyncInv, AnswerInv
<1>3. UNCHANGED LastId(tip) /\ LastId(meta.lastIndexed - 1)' = LastId(meta'.lastIndexed - 1)
  BY DEF LastId
<1>4. NothingMissed'
  BY <1>1, ProgressFacts DEF NothingMissed, NoEventMissed, FullyIndexedIsTrue, LedgerOf
<1>5. MarksInv'
  BY <1>1, <1>2, <1>3, ProgressFacts DEF MarksInv
<1>6. AnswerInv'
  BY <1>1 DEF AnswerInv
<1>7. saved' \subseteq events /\ source' \in {"wallet", "bootnode"}
  BY <1>1 DEF SyncInv, TypeOK
<1> QED
  BY <1>1, <1>4, <1>5, <1>6, <1>7, ProgressFacts, ListenerStep

-----------------------------------------------------------------------------
(* The theorems.                                                           *)

LEMMA NextInv == SyncInv /\ [Next]_vars => SyncInv'
<1> SUFFICES ASSUME SyncInv, [Next]_vars
             PROVE  SyncInv'
  OBVIOUS
<1>1. CASE CloseLedger /\ UNCHANGED <<bnVars, clientVars>>
  BY <1>1, CloseInv
<1>2. CASE (BnRound \/ BnFetchFails \/ BnRestart) /\ UNCHANGED <<tip, events, clientVars>>
  BY <1>2, BootnodeNextInv
<1>3. CASE (Listener \/ ProbeFails \/ Reload) /\ UNCHANGED <<tip, events, bnVars>>
  BY <1>3, ProbesInv, FetchFromBootnodeInv, FetchFromWalletInv, SaveEventsInv,
     SaveProgressInv DEF Listener
<1>4. CASE UNCHANGED vars
  <2>1. UNCHANGED <<saved, meta, step, source, answer>> /\ UNCHANGED <<tip, events, bnVars>>
    BY <1>4 DEF vars, clientVars
  <2>2. UNCHANGED <<Passed, LastId(tip), Between(Passed, answer.end)>>
    BY <2>1 DEF Passed, Cursor, ResumeLedger, LastId, Between
  <2>3. AnswerInv'
    BY <2>1, <2>2 DEF SyncInv, AnswerInv
  <2> QED
    BY <2>1, <2>3, SameMarks DEF SyncInv, TypeOK
<1> QED
  BY <1>1, <1>2, <1>3, <1>4 DEF Next

\* The inductive invariant holds throughout.
LEMMA Synced == Spec => []SyncInv
<1>1. Init => SyncInv
  BY InitInv
<1>2. SyncInv /\ [Next]_vars => SyncInv'
  BY NextInv
<1> QED
  BY <1>1, <1>2, PTL DEF Spec

\* Type correctness of the ledgers, the bootnode and the listener.
THEOREM TypeCorrect == Spec => []TypeOK
BY Synced, PTL DEF SyncInv

\* Every page the bootnode stores is exactly the events between the cursor it is
\* stored under and its own, wherever the bootnode is killed (insert_get_events_page).
THEOREM BootnodeFaithful == Spec => []CacheFaithful
BY Synced, PTL DEF SyncInv

\* The app neither passes over an event nor reports a ledger it lacks events of,
\* whichever server it follows and wherever it is closed (fetch_contract_events).
THEOREM NothingIsMissed == Spec => []NothingMissed
BY Synced, PTL DEF SyncInv

\* No answer of any server and no cleared cursor takes the progress marks back
\* (save_sync_progress).
THEOREM ProgressIsKept == Spec => NoStepBack
<1> DEFINE A == meta # None =>
                  /\ meta'.lastIndexed >= meta.lastIndexed
                  /\ meta'.fullyIndexed >= meta.fullyIndexed
<1>1. SyncInv /\ [Next]_vars => [A]_vars
  <2> SUFFICES ASSUME SyncInv, [Next]_vars, meta # None
               PROVE  /\ meta'.lastIndexed >= meta.lastIndexed
                      /\ meta'.fullyIndexed >= meta.fullyIndexed
    OBVIOUS
  <2>1. /\ meta \in Meta
        /\ meta.lastIndexed \in Int /\ meta.fullyIndexed \in Int
    <3>1. meta \in Meta
      BY DEF SyncInv, TypeOK
    <3> QED
      BY <3>1 DEF Meta
  <2>2. CASE meta' \in {meta, WithoutCursor}
    BY <2>1, <2>2 DEF WithoutCursor, Meta
  <2>3. CASE SaveProgress /\ UNCHANGED <<tip, events, bnVars>>
    <3>1. /\ meta' \in Meta
          /\ meta.lastIndexed <= meta'.lastIndexed
          /\ meta.fullyIndexed <= meta'.fullyIndexed
      BY <2>3, ProgressFacts
    <3>2. meta'.lastIndexed \in Int /\ meta'.fullyIndexed \in Int
      BY <3>1 DEF Meta
    <3> QED
      BY <2>1, <3>1, <3>2
  <2> QED
    BY <2>2, <2>3
       DEF Next, vars, clientVars, Listener, ProbeFails, Reload, ProbeWallet,
           ResumeOnWallet, ProbeBootnode, BootnodeProbeMissed, FetchFromBootnode,
           FetchMissed, FetchFromWallet, SaveEvents, TakeHandoff, Goes, Stop
<1> QED
  BY <1>1, Synced, PTL DEF Spec, NoStepBack
=============================================================================
