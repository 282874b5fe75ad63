---------------------------- MODULE WalletProofs ----------------------------
(***************************************************************************)
(* Theorems about the app's local database and its client (modules         *)
(* LocalState and Wallet), for any number of accounts, events, ledgers and *)
(* crashes and any size of a batch; and about the client's transactions    *)
(* (module Submission), for any number of tabs, requests, ledgers and      *)
(* transactions of the account sent elsewhere, any fees and any size of a  *)
(* word.                                                                   *)
(***************************************************************************)
EXTENDS MCWallet, AmountsProofs, SequenceTheorems

-----------------------------------------------------------------------------
(* The inductive invariant.                                                *)

EventRecords ==
    [type : {"nullifier"}, ledger : Nat, note : Nat]
        \cup [type : {"commitment"}, ledger : Nat, owner : Accounts \cup {Nobody}, first : Nat]
        \cup [type : {"leaf"}, ledger : Nat, owner : Accounts]

\* Ledgers only grow along the log, and a nullifier's transaction has published
\* a commitment after it.
LogInv ==
    /\ log \in Seq(EventRecords) /\ tip \in Nat
    /\ raw \in 0..Len(log) /\ keys \subseteq Accounts
    /\ busy \in BOOLEAN /\ kicked \in BOOLEAN
    /\ \A e \in DOMAIN log : log[e].ledger <= tip
    /\ \A e, f \in DOMAIN log : e <= f => log[e].ledger <= log[f].ledger
    /\ \A e \in Events("nullifier") : \E f \in Events("commitment") :
           e < f /\ log[f].ledger = log[e].ledger

Databases ==
    [nullifiers : Seq(Nat), commitments : Seq(Nat), members : SUBSET Nat,
     notes : SUBSET Nat, spent : SUBSET Nat, scanned : [Accounts -> Nat],
     reconciled : Nat]

Stored(type) == Events(type) \cap 1..raw

\* The rows are the first events of their kind.
Leading(rows, type) == \A e \in rows, f \in Events(type) : f < e => f \in rows

\* A commitment that comes before a row has a row, if of another event.
Covered(rows) ==
    \A e \in rows, f \in Events("commitment") :
        f < e => \E g \in rows : log[g].first = log[f].first

\* Where a commitment is in its table, the nullifiers published before it are in
\* theirs: batches are taken in order, and nullifiers are saved first.
TablesInv(d) ==
    /\ ToSet(d.nullifiers) \subseteq Stored("nullifier")
    /\ ToSet(d.commitments) \subseteq Stored("commitment")
    /\ d.members \subseteq Stored("leaf")
    /\ IsInjective(d.nullifiers) /\ IsInjective(d.commitments)
    /\ Leading(ToSet(d.nullifiers), "nullifier")
    /\ Covered(ToSet(d.commitments))
    /\ Leading(d.members, "leaf")
    /\ \A f \in ToSet(d.commitments), e \in Events("nullifier") :
           e < f => e \in ToSet(d.nullifiers)

NotesInv(d) ==
    /\ d.notes \subseteq ToSet(d.commitments)
    /\ d.spent \subseteq d.notes
    /\ \A a \in Accounts : d.scanned[a] <= Len(d.commitments)
    /\ d.reconciled <= Len(d.nullifiers)
    /\ \A a \in Accounts, i \in DOMAIN d.commitments :
           i <= d.scanned[a] /\ log[d.commitments[i]].owner = a
               => d.commitments[i] \in d.notes
    /\ \A n \in d.notes \ d.spent, i \in 1..d.reconciled : log[d.nullifiers[i]].note # n
    /\ \A n \in d.spent : \E i \in DOMAIN d.nullifiers : log[d.nullifiers[i]].note = n

DbInv(d) == d \in Databases /\ TablesInv(d) /\ NotesInv(d)

\* The processor only rests when there is nothing left to do.
RestInv ==
    ~busy /\ ~kicked =>
        /\ 1..raw \subseteq Processed(db)
        /\ \A a \in keys : db.scanned[a] = Len(db.commitments)
        /\ db.reconciled = Len(db.nullifiers)

\* The commitments that a client knows of, once it has read the chain.
Known(c) == {f \in Events("commitment") : log[f].ledger <= c.ledger}

\* What a client knows of the pool's tree is of one ledger.
ClientInv ==
    /\ client.at # "idle" => client.note \in Nat /\ client.account \in Accounts
    /\ client.at = "fetched" =>
          client.ledger \in 0..tip /\ client.leaves = Cardinality(Known(client))

WalletInv == LogInv /\ DbInv(db) /\ RestInv /\ ClientInv

-----------------------------------------------------------------------------
(* The rows of a batch.                                                    *)

\* Descending lists a finite set without repetition: an element's place is told
\* by how many are above it, and these numbers are the first ones.
LEMMA DescendingLists ==
    ASSUME NEW S \in SUBSET Nat, IsFiniteSet(S)
    PROVE  /\ Descending(S) \in Seq(Nat)
           /\ Len(Descending(S)) = Cardinality(S)
           /\ ToSet(Descending(S)) = S
           /\ IsInjective(Descending(S))
<1> DEFINE n == Cardinality(S)
           Above(e) == {f \in S : f > e}
           rank == [e \in S |-> Cardinality(Above(e))]
<1>1. n \in Nat
  BY FS_CardinalityType
<1>2. ASSUME NEW e \in S
      PROVE  IsFiniteSet(Above(e)) /\ rank[e] \in 0..(n - 1)
  <2>1. IsFiniteSet(S \ {e}) /\ Cardinality(S \ {e}) = n - 1
    BY FS_RemoveElement
  <2>2. Above(e) \in SUBSET (S \ {e})
    OBVIOUS
  <2>3. IsFiniteSet(Above(e)) /\ Cardinality(Above(e)) <= Cardinality(S \ {e})
    BY <2>1, <2>2, FS_Subset
  <2>4. Cardinality(Above(e)) \in Nat
    BY <2>3, FS_CardinalityType
  <2> HIDE DEF Above, n
  <2> QED
    BY <1>1, <2>1, <2>3, <2>4
<1>3. ASSUME NEW e \in S, NEW f \in S, e < f
      PROVE  rank[e] # rank[f]
  <2>1. IsFiniteSet(Above(e))
    BY <1>2
  <2>2. Above(f) \in SUBSET Above(e)
    <3>1. e \in Nat /\ f \in Nat /\ \A x \in S : x \in Nat
      OBVIOUS
    <3>2. \A x \in S : x > f => x > e
      BY <1>3, <3>1
    <3> QED
      BY <3>2
  <2>3. f \in Above(e) /\ f \notin Above(f)
    BY <1>3
  <2>4. Cardinality(Above(e)) # Cardinality(Above(f))
    BY <2>1, <2>2, <2>3, FS_Subset
  <2> QED
    BY <2>4
<1>4. \A e, f \in S : rank[e] = rank[f] => e = f
  <2> SUFFICES ASSUME NEW e \in S, NEW f \in S, rank[e] = rank[f], e # f
               PROVE  FALSE
    OBVIOUS
  <2>1. e < f \/ f < e
    OBVIOUS
  <2> HIDE DEF rank
  <2> QED
    BY <1>3, <2>1
<1>5. rank \in Injection(S, 0..(n - 1))
  <2>1. rank \in [S -> 0..(n - 1)]
    BY <1>2
  <2> HIDE DEF rank, n
  <2> QED
    BY <1>4, <2>1 DEF Injection, IsInjective
<1>6. IsFiniteSet(0..(n - 1)) /\ Cardinality(0..(n - 1)) = n
  <2> HIDE DEF n
  <2> QED
    BY <1>1, FS_Interval
<1>7. \A k \in 0..(n - 1) : \E e \in S : rank[e] = k
  <2> HIDE DEF rank
  <2>1. rank \in Surjection(S, 0..(n - 1))
    BY <1>5, <1>6, FS_Injection
  <2> QED
    BY <2>1 DEF Surjection
<1> DEFINE D == Descending(S)
<1>8. D = [i \in 1..n |-> CHOOSE e \in S : Cardinality({f \in S : f > e}) = i - 1]
  BY DEF Descending
<1>9. ASSUME NEW i \in 1..n
      PROVE  D[i] \in S /\ rank[D[i]] = i - 1
  <2>1. i - 1 \in 0..(n - 1)
    BY <1>1
  <2>2. \E e \in S : Cardinality({f \in S : f > e}) = i - 1
    BY <1>7, <2>1
  <2>3. D[i] = CHOOSE e \in S : Cardinality({f \in S : f > e}) = i - 1
    BY <1>8, Zenon
  <2>4. D[i] \in S /\ Cardinality({f \in S : f > D[i]}) = i - 1
    <3> HIDE DEF n, D
    <3> QED
      BY <2>2, <2>3, Zenon
  <2> QED
    BY <2>4
<1> HIDE DEF rank, D, n
<1>10. DOMAIN D = 1..n
  BY <1>8
<1>11. D \in Seq(Nat) /\ Len(D) = n
  <2>1. D \in [1..n -> Nat]
    BY <1>8, <1>9
  <2> QED
    BY <1>1, <2>1
<1>12. ToSet(D) = S
  <2>1. \A e \in S : \E i \in 1..n : D[i] = e
    <3> TAKE e \in S
    <3>1. rank[e] \in 0..(n - 1)
      BY <1>2
    <3>2. rank[e] + 1 \in 1..n /\ (rank[e] + 1) - 1 = rank[e]
      BY <1>1, <3>1
    <3>3. D[rank[e] + 1] \in S /\ rank[D[rank[e] + 1]] = rank[e]
      BY <1>9, <3>2
    <3> QED
      BY <1>4, <3>2, <3>3
  <2> QED
    BY <1>9, <1>10, <2>1 DEF ToSet
<1>13. IsInjective(D)
  <2>1. \A i, j \in 1..n : D[i] = D[j] => i = j
    <3> SUFFICES ASSUME NEW i \in 1..n, NEW j \in 1..n, D[i] = D[j]
                 PROVE  i = j
      OBVIOUS
    <3>1. i - 1 = j - 1
      BY <1>9
    <3> QED
      BY <1>1, <3>1
  <2> QED
    BY <1>10, <2>1 DEF IsInjective
<1> QED
  BY <1>11, <1>12, <1>13 DEF D, n

\* Rows added to a table that has none of them.
LEMMA RowsAdded ==
    ASSUME NEW s \in Seq(Nat), NEW t \in Seq(Nat), IsInjective(s), IsInjective(t),
           ToSet(s) \cap ToSet(t) = {}, NEW r, r = s \o t
    PROVE  /\ r \in Seq(Nat) /\ IsInjective(r)
           /\ ToSet(r) = ToSet(s) \cup ToSet(t)
           /\ Len(s) <= Len(r)
           /\ \A i \in DOMAIN s : i \in DOMAIN r /\ r[i] = s[i]
<1>1. /\ r \in Seq(Nat) /\ Len(r) = Len(s) + Len(t)
      /\ Len(s) \in Nat /\ Len(t) \in Nat
      /\ DOMAIN s = 1..Len(s) /\ DOMAIN t = 1..Len(t)
      /\ DOMAIN r = 1..(Len(s) + Len(t))
  OBVIOUS
<1>2. \A i \in 1..Len(s) : r[i] = s[i]
  OBVIOUS
<1>3. \A i \in 1..Len(t) : r[Len(s) + i] = t[i]
  OBVIOUS
<1>4. \A i \in 1..(Len(s) + Len(t)) :
         \/ i \in 1..Len(s) /\ r[i] = s[i]
         \/ i - Len(s) \in 1..Len(t) /\ r[i] = t[i - Len(s)]
  <2> TAKE i \in 1..(Len(s) + Len(t))
  <2>1. CASE i <= Len(s)
    BY <1>1, <1>2, <2>1
  <2>2. CASE i > Len(s)
    <3>1. i - Len(s) \in 1..Len(t) /\ Len(s) + (i - Len(s)) = i
      BY <1>1, <2>2
    <3> QED
      BY <1>3, <3>1
  <2> QED
    BY <1>1, <2>1, <2>2
<1>5. ToSet(r) = ToSet(s) \cup ToSet(t)
  <2>1. ASSUME NEW i \in DOMAIN r
        PROVE  r[i] \in ToSet(s) \cup ToSet(t)
    BY <1>1, <1>4 DEF ToSet
  <2>2. ASSUME NEW i \in DOMAIN s
        PROVE  s[i] \in ToSet(r)
    BY <1>1, <1>2 DEF ToSet
  <2>3. ASSUME NEW i \in DOMAIN t
        PROVE  t[i] \in ToSet(r)
    <3>1. Len(s) + i \in DOMAIN r /\ r[Len(s) + i] = t[i]
      BY <1>1, <1>3
    <3> QED
      BY <3>1 DEF ToSet
  <2>4. ToSet(r) \subseteq ToSet(s) \cup ToSet(t)
    BY <2>1 DEF ToSet
  <2>5. ToSet(s) \subseteq ToSet(r) /\ ToSet(t) \subseteq ToSet(r)
    BY <2>2, <2>3 DEF ToSet
  <2> QED
    BY <2>4, <2>5, Zenon
<1>6. \A i \in 1..Len(s), j \in 1..Len(t) : s[i] # t[j]
  BY <1>1 DEF ToSet
<1>7. IsInjective(r)
  <2> SUFFICES ASSUME NEW i \in 1..(Len(s) + Len(t)), NEW j \in 1..(Len(s) + Len(t)),
                      r[i] = r[j]
               PROVE  i = j
    BY <1>1 DEF IsInjective
  <2>1. CASE i \in 1..Len(s) /\ r[i] = s[i] /\ j \in 1..Len(s) /\ r[j] = s[j]
    BY <1>1, <2>1 DEF IsInjective
  <2>2. CASE /\ i - Len(s) \in 1..Len(t) /\ r[i] = t[i - Len(s)]
             /\ j - Len(s) \in 1..Len(t) /\ r[j] = t[j - Len(s)]
    <3>1. i - Len(s) = j - Len(s)
      BY <1>1, <2>2 DEF IsInjective
    <3> QED
      BY <1>1, <3>1
  <2> QED
    BY <1>4, <1>6, <2>1, <2>2
<1> QED
  BY <1>1, <1>2, <1>5, <1>7

-----------------------------------------------------------------------------
(* The tables of a database, while the log and the keys stand.             *)

LEMMA EventPlaces ==
    ASSUME LogInv
    PROVE  /\ DOMAIN log = 1..Len(log) /\ Len(log) \in Nat
           /\ raw \in Nat /\ 1..raw \in SUBSET DOMAIN log
           /\ IsFiniteSet(DOMAIN log) /\ IsFiniteSet(1..raw)
           /\ \A e \in DOMAIN log : log[e].type \in {"nullifier", "commitment", "leaf"}
           /\ \A type : /\ Events(type) \in SUBSET Nat
                        /\ Events(type) \in SUBSET DOMAIN log
                        /\ IsFiniteSet(Events(type))
<1>1. DOMAIN log = 1..Len(log) /\ Len(log) \in Nat /\ raw \in 0..Len(log)
  BY DEF LogInv
<1>2. raw \in Nat /\ 1..raw \in SUBSET DOMAIN log
  BY <1>1
<1>3. IsFiniteSet(DOMAIN log) /\ IsFiniteSet(1..raw)
  BY <1>1, <1>2, FS_Interval
<1>4. \A e \in DOMAIN log : log[e] \in EventRecords
  BY DEF LogInv
<1>5. \A e \in DOMAIN log : log[e].type \in {"nullifier", "commitment", "leaf"}
  BY <1>4 DEF EventRecords
<1>6. \A type : Events(type) \in SUBSET DOMAIN log
  BY DEF Events
<1>7. \A type : Events(type) \in SUBSET Nat
  BY <1>1, <1>6
<1>8. \A type : IsFiniteSet(Events(type))
  BY <1>3, <1>6, FS_Subset
<1> QED
  BY <1>1, <1>2, <1>3, <1>5, <1>6, <1>7, <1>8

\* The events of a kind in a batch are the next ones after a table's rows.
Ready(B, rows, type) ==
    /\ B \subseteq 1..raw
    /\ B \cap Events(type) \cap rows = {}
    /\ \A e \in B \cap Events(type), f \in Events(type) : f < e => f \in rows \cup B

LEMMA LeadingGrows ==
    ASSUME NEW B, NEW rows, NEW type, Leading(rows, type), Ready(B, rows, type)
    PROVE  Leading(rows \cup (B \cap Events(type)), type)
BY DEF Leading, Ready

Table(rows, type) ==
    rows \in Seq(Nat) /\ IsInjective(rows) /\ ToSet(rows) \subseteq Stored(type)

\* What becomes of a table when new events of its kind get rows.
Extended(grown, rows, S, type) ==
    /\ Table(grown, type)
    /\ ToSet(grown) = ToSet(rows) \cup S
    /\ Len(rows) <= Len(grown)
    /\ \A i \in DOMAIN rows : i \in DOMAIN grown /\ grown[i] = rows[i]

LEMMA TableGrows ==
    ASSUME LogInv, NEW rows, NEW type, Table(rows, type),
           NEW S, S \subseteq Stored(type), ToSet(rows) \cap S = {},
           NEW grown, grown = rows \o Descending(S)
    PROVE  Extended(grown, rows, S, type)
<1>1. S \in SUBSET Nat /\ IsFiniteSet(S)
  BY EventPlaces, FS_Subset DEF Stored
<1> USE DEF Table
<1>2. /\ Descending(S) \in Seq(Nat) /\ ToSet(Descending(S)) = S
      /\ IsInjective(Descending(S))
  BY <1>1, DescendingLists
<1>3. /\ grown \in Seq(Nat) /\ IsInjective(grown)
      /\ ToSet(grown) = ToSet(rows) \cup S
      /\ Len(rows) <= Len(grown)
      /\ \A i \in DOMAIN rows : i \in DOMAIN grown /\ grown[i] = rows[i]
  <2> DEFINE t == Descending(S)
  <2>1. /\ t \in Seq(Nat) /\ IsInjective(t) /\ ToSet(t) = S
        /\ ToSet(rows) \cap ToSet(t) = {} /\ grown = rows \o t
    BY <1>2
  <2> HIDE DEF t
  <2> QED
    BY <2>1, RowsAdded, Zenon
<1> QED
  BY <1>3 DEF Extended

\* ON CONFLICT(commitment) DO NOTHING: a batch's commitment that gets no row has
\* one already, or a later one of the batch has it.
LEMMA InsertedCovers ==
    ASSUME LogInv, NEW d, NEW B, ToSet(d.commitments) \subseteq Stored("commitment"),
           Covered(ToSet(d.commitments)), Ready(B, ToSet(d.commitments), "commitment")
    PROVE  /\ Inserted(d, B) \subseteq B \cap Events("commitment")
           /\ Covered(ToSet(d.commitments) \cup Inserted(d, B))
<1> DEFINE rows  == ToSet(d.commitments)
           found == B \cap Events("commitment")
           S     == Inserted(d, B)
<1>1. S = {e \in found : \A f \in rows \cup {g \in found : g > e} :
                            log[f].first # log[e].first}
  BY DEF Inserted
<1>2. found \in SUBSET (1..raw) /\ raw \in Nat
  BY EventPlaces DEF Ready
<1> HIDE DEF S, found, rows
<1>3. ASSUME NEW f \in found
      PROVE  \E g \in rows \cup S : log[g].first = log[f].first
  <2> SUFFICES ASSUME \A g \in rows : log[g].first # log[f].first
               PROVE  \E g \in S : log[g].first = log[f].first
    BY Zenon
  <2> DEFINE Same   == {g \in found : log[g].first = log[f].first}
             places == {raw - g : g \in Same}
  <2>1. places \in SUBSET Nat /\ places # {}
    BY <1>2
  <2>2. PICK p \in places : \A q \in places : p <= q
    BY <2>1, LeastNumber
  <2>3. PICK g \in Same : p = raw - g
    OBVIOUS
  <2>4. \A h \in Same : h <= g
    <3> TAKE h \in Same
    <3>1. raw - h \in places
      OBVIOUS
    <3>2. g \in 1..raw /\ h \in 1..raw
      BY <1>2
    <3> HIDE DEF Same, places
    <3> QED
      BY <1>2, <2>2, <2>3, <3>1, <3>2
  <2>5. \A h \in found : h > g => log[h].first # log[g].first
    <3> SUFFICES ASSUME NEW h \in found, h > g, log[h].first = log[g].first
                 PROVE  FALSE
      OBVIOUS
    <3>1. h \in Same /\ h \in 1..raw /\ g \in 1..raw
      BY <1>2
    <3> QED
      BY <2>4, <3>1
  <2>6. g \in S
    BY <1>1, <2>5
  <2> QED
    BY <2>6
<1>4. S \subseteq found
  BY <1>1
<1>5. Covered(rows \cup S)
  <2> SUFFICES ASSUME NEW e \in rows \cup S, NEW f \in Events("commitment"), f < e
               PROVE  \E g \in rows \cup S : log[g].first = log[f].first
    BY DEF Covered
  <2>1. CASE e \in rows
    BY <2>1 DEF Covered, rows
  <2>2. CASE e \in S
    <3>1. f \in rows \/ f \in found
      BY <1>4, <2>2 DEF Ready, rows, found
    <3> QED
      BY <1>3, <3>1
  <2> QED
    BY <2>1, <2>2
<1> QED
  BY <1>4, <1>5 DEF S, found, rows

LEMMA NullifiersSaved ==
    ASSUME LogInv, NEW d, DbInv(d), NEW B, Ready(B, ToSet(d.nullifiers), "nullifier"),
           NEW g, g = SaveNullifiers(d, B)
    PROVE  /\ DbInv(g)
           /\ ToSet(g.nullifiers) = ToSet(d.nullifiers) \cup (B \cap Events("nullifier"))
           /\ g.commitments = d.commitments /\ g.members = d.members
           /\ g.scanned = d.scanned /\ g.reconciled = d.reconciled
<1> DEFINE grown == d.nullifiers \o Descending(B \cap Events("nullifier"))
<1>1. d \in Databases /\ TablesInv(d) /\ NotesInv(d)
  BY DEF DbInv
<1>2. g = [d EXCEPT !.nullifiers = grown]
  BY DEF SaveNullifiers
<1>3. d.nullifiers \in Seq(Nat)
  BY <1>1 DEF Databases
<1>4. Extended(grown, d.nullifiers, B \cap Events("nullifier"), "nullifier")
  <2>1. Table(d.nullifiers, "nullifier")
    BY <1>1, <1>3 DEF TablesInv, Table
  <2>2. /\ B \cap Events("nullifier") \subseteq Stored("nullifier")
        /\ ToSet(d.nullifiers) \cap (B \cap Events("nullifier")) = {}
    BY DEF Ready, Stored
  <2> QED
    BY <2>1, <2>2, TableGrows
<1>5. /\ grown \in Seq(Nat) /\ IsInjective(grown)
      /\ ToSet(grown) = ToSet(d.nullifiers) \cup (B \cap Events("nullifier"))
      /\ ToSet(grown) \subseteq Stored("nullifier")
      /\ Len(d.nullifiers) <= Len(grown)
      /\ \A i \in DOMAIN d.nullifiers : i \in DOMAIN grown /\ grown[i] = d.nullifiers[i]
  BY <1>4, Zenon DEF Extended, Table
<1>6. Leading(ToSet(grown), "nullifier")
  BY <1>1, <1>5, LeadingGrows DEF TablesInv
<1> HIDE DEF grown
<1>7. /\ g \in Databases /\ g.nullifiers = grown
      /\ g.commitments = d.commitments /\ g.members = d.members /\ g.notes = d.notes
      /\ g.spent = d.spent /\ g.scanned = d.scanned /\ g.reconciled = d.reconciled
  BY <1>1, <1>2, <1>5 DEF Databases
<1>8. TablesInv(g)
  BY <1>1, <1>5, <1>6, <1>7 DEF TablesInv
<1>9. NotesInv(g)
  <2>1. /\ d.reconciled \in Nat /\ d.reconciled <= Len(d.nullifiers)
        /\ Len(d.nullifiers) \in Nat /\ Len(grown) \in Nat
        /\ DOMAIN d.nullifiers = 1..Len(d.nullifiers)
    BY <1>1, <1>3, <1>5 DEF Databases, NotesInv
  <2>2. g.reconciled <= Len(g.nullifiers)
    BY <1>5, <1>7, <2>1
  <2>3. \A i \in 1..d.reconciled : grown[i] = d.nullifiers[i]
    <3>1. \A i \in 1..d.reconciled : i \in DOMAIN d.nullifiers
      BY <2>1
    <3> QED
      BY <1>5, <3>1, Zenon
  <2>4. \A n \in g.notes \ g.spent, i \in 1..g.reconciled : log[g.nullifiers[i]].note # n
    BY <1>1, <1>7, <2>3 DEF NotesInv
  <2>5. \A n \in g.spent : \E i \in DOMAIN g.nullifiers : log[g.nullifiers[i]].note = n
    BY <1>1, <1>5, <1>7 DEF NotesInv
  <2> QED
    BY <1>1, <1>7, <2>2, <2>4, <2>5 DEF NotesInv
<1> QED
  BY <1>5, <1>7, <1>8, <1>9 DEF DbInv

LEMMA CommitmentsSaved ==
    ASSUME LogInv, NEW d, DbInv(d), NEW B,
           Ready(B, ToSet(d.commitments), "commitment"),
           \A f \in B, e \in Events("nullifier") : e < f => e \in ToSet(d.nullifiers),
           NEW g, g = SaveCommitments(d, B)
    PROVE  /\ DbInv(g)
           /\ g.nullifiers = d.nullifiers /\ g.members = d.members
           /\ g.scanned = d.scanned /\ g.reconciled = d.reconciled
<1> DEFINE S     == Inserted(d, B)
           grown == d.commitments \o Descending(S)
<1>1. d \in Databases /\ TablesInv(d) /\ NotesInv(d)
  BY DEF DbInv
<1>2. g = [d EXCEPT !.commitments = grown]
  BY DEF SaveCommitments
<1>3. d.commitments \in Seq(Nat)
  BY <1>1 DEF Databases
<1>4. S \subseteq B \cap Events("commitment") /\ Covered(ToSet(d.commitments) \cup S)
  BY <1>1, InsertedCovers DEF TablesInv
<1> HIDE DEF S
<1>5. /\ grown \in Seq(Nat) /\ IsInjective(grown)
      /\ ToSet(grown) = ToSet(d.commitments) \cup S
      /\ ToSet(grown) \subseteq Stored("commitment")
      /\ Len(d.commitments) <= Len(grown)
      /\ \A i \in DOMAIN d.commitments : i \in DOMAIN grown /\ grown[i] = d.commitments[i]
  <2>1. Table(d.commitments, "commitment")
    BY <1>1, <1>3 DEF TablesInv, Table
  <2>2. S \subseteq Stored("commitment") /\ ToSet(d.commitments) \cap S = {}
    BY <1>4 DEF Ready, Stored
  <2>3. Extended(grown, d.commitments, S, "commitment")
    BY <2>1, <2>2, TableGrows
  <2> QED
    BY <2>3, Zenon DEF Extended, Table
<1> HIDE DEF grown
<1>6. /\ g \in Databases /\ g.commitments = grown
      /\ g.nullifiers = d.nullifiers /\ g.members = d.members /\ g.notes = d.notes
      /\ g.spent = d.spent /\ g.scanned = d.scanned /\ g.reconciled = d.reconciled
  BY <1>1, <1>2, <1>5 DEF Databases
<1>7. TablesInv(g)
  <2>1. \A f \in ToSet(g.commitments), e \in Events("nullifier") :
           e < f => e \in ToSet(g.nullifiers)
    BY <1>1, <1>4, <1>5, <1>6 DEF TablesInv
  <2>2. Covered(ToSet(g.commitments))
    BY <1>4, <1>5, <1>6, Zenon
  <2> QED
    BY <1>1, <1>5, <1>6, <2>1, <2>2 DEF TablesInv
<1>8. NotesInv(g)
  <2>1. /\ d.scanned \in [Accounts -> Nat]
        /\ \A a \in Accounts : d.scanned[a] <= Len(d.commitments)
        /\ Len(d.commitments) \in Nat /\ Len(grown) \in Nat
        /\ DOMAIN d.commitments = 1..Len(d.commitments) /\ DOMAIN grown = 1..Len(grown)
    BY <1>1, <1>3, <1>5 DEF Databases, NotesInv
  <2>2. \A a \in Accounts : g.scanned[a] <= Len(g.commitments)
    BY <1>5, <1>6, <2>1
  <2>3. \A a \in Accounts, i \in DOMAIN grown :
           i <= d.scanned[a] => i \in DOMAIN d.commitments /\ grown[i] = d.commitments[i]
    BY <1>5, <2>1
  <2>4. \A a \in Accounts, i \in DOMAIN g.commitments :
           i <= g.scanned[a] /\ log[g.commitments[i]].owner = a => g.commitments[i] \in g.notes
    BY <1>1, <1>6, <2>3 DEF NotesInv
  <2>5. g.notes \subseteq ToSet(g.commitments)
    BY <1>1, <1>5, <1>6 DEF NotesInv
  <2> QED
    BY <1>1, <1>6, <2>2, <2>4, <2>5 DEF NotesInv
<1> QED
  BY <1>5, <1>6, <1>7, <1>8 DEF DbInv

LEMMA LeavesSaved ==
    ASSUME LogInv, NEW d, DbInv(d), NEW B, Ready(B, d.members, "leaf"),
           NEW g, g = SaveLeaves(d, B)
    PROVE  /\ DbInv(g)
           /\ g.members = d.members \cup (B \cap Events("leaf"))
           /\ g.nullifiers = d.nullifiers /\ g.commitments = d.commitments
           /\ g.scanned = d.scanned /\ g.reconciled = d.reconciled
<1> DEFINE grown == d.members \cup (B \cap Events("leaf"))
<1>1. d \in Databases /\ TablesInv(d) /\ NotesInv(d)
  BY DEF DbInv
<1>2. g = [d EXCEPT !.members = grown]
  BY DEF SaveLeaves
<1>3. /\ grown \in SUBSET Nat /\ grown \subseteq Stored("leaf")
      /\ Leading(grown, "leaf")
  <2>1. Leading(grown, "leaf")
    BY <1>1, LeadingGrows DEF TablesInv
  <2>2. grown \subseteq Stored("leaf")
    BY <1>1 DEF TablesInv, Stored, Ready
  <2>3. Stored("leaf") \subseteq Nat
    BY EventPlaces DEF Stored
  <2> QED
    BY <2>1, <2>2, <2>3
<1> HIDE DEF grown
<1>4. /\ g \in Databases /\ g.members = grown
      /\ g.nullifiers = d.nullifiers /\ g.commitments = d.commitments
      /\ g.notes = d.notes /\ g.spent = d.spent
      /\ g.scanned = d.scanned /\ g.reconciled = d.reconciled
  BY <1>1, <1>2, <1>3 DEF Databases
<1>5. TablesInv(g)
  BY <1>1, <1>3, <1>4 DEF TablesInv
<1>6. NotesInv(g)
  BY <1>1, <1>4 DEF NotesInv
<1> QED
  BY <1>4, <1>5, <1>6 DEF DbInv, grown

\* get_unprocessed_events: a batch has none of the events that are in a table and
\* all that come before one of its own; it is empty only when nothing is left.
LEMMA BatchIsOldest ==
    ASSUME LogInv, NEW d, NEW B, B = Unprocessed(d)
    PROVE  /\ B \subseteq (1..raw) \ Processed(d)
           /\ \A e \in B, f \in (1..raw) \ Processed(d) : f < e => f \in B
           /\ B = {} => 1..raw \subseteq Processed(d)
<1> DEFINE todo == (1..raw) \ Processed(d)
           Before(e) == {f \in todo : f < e}
<1>1. /\ B = {e \in todo : Cardinality(Before(e)) < FetchLimit}
      /\ todo \in SUBSET Nat /\ IsFiniteSet(todo)
  BY EventPlaces, FS_Subset DEF Unprocessed
<1>2. \A e \in todo : /\ IsFiniteSet(Before(e)) /\ Cardinality(Before(e)) \in Nat
  BY <1>1, FS_Subset, FS_CardinalityType
<1>3. ASSUME NEW e \in B, NEW f \in todo, f < e
      PROVE  f \in B
  <2>1. e \in todo /\ e \in Nat /\ f \in Nat
    BY <1>1
  <2>2. Before(f) \in SUBSET Before(e)
    <3>1. \A x \in todo : x \in Nat /\ (x < f => x < e)
      BY <1>1, <1>3, <2>1
    <3> QED
      BY <3>1
  <2>3. Cardinality(Before(f)) <= Cardinality(Before(e))
    BY <1>2, <2>1, <2>2, FS_Subset
  <2>4. Cardinality(Before(e)) < FetchLimit
    BY <1>1
  <2> HIDE DEF Before, todo
  <2>5. Cardinality(Before(f)) < FetchLimit
    BY <1>2, <2>1, <2>3, <2>4, LocalAssumption
  <2> QED
    BY <1>1, <2>5
<1>4. ASSUME B = {}
      PROVE  todo = {}
  <2> SUFFICES ASSUME todo # {}
               PROVE  FALSE
    OBVIOUS
  <2>1. PICK e \in todo : \A f \in todo : e <= f
    BY <1>1, LeastNumber
  <2>2. Before(e) = {}
    BY <1>1, <2>1
  <2>3. Cardinality(Before(e)) = 0
    BY <2>2, FS_EmptySet
  <2>4. 0 < FetchLimit
    BY LocalAssumption
  <2> HIDE DEF Before, todo
  <2> QED
    BY <1>1, <1>4, <2>3, <2>4
<1> QED
  BY <1>1, <1>3, <1>4

\* What a table's kind makes of the batch.
LEMMA BatchIsReady ==
    ASSUME LogInv, TablesInv(db), NEW B, B = Unprocessed(db)
    PROVE  /\ Ready(B, ToSet(db.nullifiers), "nullifier")
           /\ Ready(B, ToSet(db.commitments), "commitment")
           /\ Ready(B, db.members, "leaf")
           /\ \A f \in B, e \in Events("nullifier") :
                  e < f => e \in ToSet(db.nullifiers) \cup (B \cap Events("nullifier"))
<1>1. /\ B \subseteq (1..raw) \ Processed(db)
      /\ \A e \in B, f \in (1..raw) \ Processed(db) : f < e => f \in B
  BY BatchIsOldest
<1>2. \A e \in 1..raw, f \in DOMAIN log : f < e => f \in 1..raw
  BY EventPlaces
<1>3. \A e \in B, f \in DOMAIN log : f < e => f \in Processed(db) \/ f \in B
  BY <1>1, <1>2
<1>4. /\ \A f \in Events("nullifier") \cap Processed(db) : f \in ToSet(db.nullifiers)
      /\ \A f \in Events("commitment") \cap Processed(db) : f \in ToSet(db.commitments)
      /\ \A f \in Events("leaf") \cap Processed(db) : f \in db.members
  BY DEF TablesInv, Stored, Events, Processed
<1>5. /\ ToSet(db.nullifiers) \subseteq Processed(db)
      /\ ToSet(db.commitments) \subseteq Processed(db)
      /\ db.members \subseteq Processed(db)
  BY DEF Processed
<1>6. \A type : Events(type) \in SUBSET DOMAIN log
  BY EventPlaces
<1> QED
  BY <1>1, <1>3, <1>4, <1>5, <1>6 DEF Ready

\* process_events, wherever it is cut short.
LEMMA EventsProcessed ==
    ASSUME LogInv, DbInv(db)
    PROVE  /\ \A k \in 0..3 : DbInv(ProcessEvents(k))
           /\ ProcessEvents(3).scanned = db.scanned
           /\ ProcessEvents(3).reconciled = db.reconciled
<1> DEFINE B  == Unprocessed(db)
           d1 == SaveNullifiers(db, B)
           d2 == SaveCommitments(d1, B)
           d3 == SaveLeaves(d2, B)
<1>1. /\ ProcessEvents(0) = db /\ ProcessEvents(1) = d1
      /\ ProcessEvents(2) = d2 /\ ProcessEvents(3) = d3
  BY DEF ProcessEvents
<1> HIDE DEF B, d1, d2, d3
<1>2. TablesInv(db)
  BY DEF DbInv
<1>3. /\ Ready(B, ToSet(db.nullifiers), "nullifier")
      /\ Ready(B, ToSet(db.commitments), "commitment")
      /\ Ready(B, db.members, "leaf")
      /\ \A f \in B, e \in Events("nullifier") :
             e < f => e \in ToSet(db.nullifiers) \cup (B \cap Events("nullifier"))
  BY <1>2, BatchIsReady DEF B
<1>4. /\ DbInv(d1)
      /\ ToSet(d1.nullifiers) = ToSet(db.nullifiers) \cup (B \cap Events("nullifier"))
      /\ d1.commitments = db.commitments /\ d1.members = db.members
      /\ d1.scanned = db.scanned /\ d1.reconciled = db.reconciled
  BY <1>3, NullifiersSaved DEF d1
<1>5. /\ DbInv(d2)
      /\ d2.nullifiers = d1.nullifiers /\ d2.members = d1.members
      /\ d2.scanned = d1.scanned /\ d2.reconciled = d1.reconciled
  <2>1. /\ Ready(B, ToSet(d1.commitments), "commitment")
        /\ \A f \in B, e \in Events("nullifier") : e < f => e \in ToSet(d1.nullifiers)
    BY <1>3, <1>4
  <2> QED
    BY <1>4, <2>1, CommitmentsSaved DEF d2
<1>6. /\ DbInv(d3)
      /\ d3.members = d2.members \cup (B \cap Events("leaf"))
      /\ d3.nullifiers = d2.nullifiers /\ d3.commitments = d2.commitments
      /\ d3.scanned = d2.scanned /\ d3.reconciled = d2.reconciled
  <2>1. Ready(B, d2.members, "leaf")
    BY <1>3, <1>4, <1>5
  <2> QED
    BY <1>5, <2>1, LeavesSaved DEF d3
<1>7. \A k \in 0..3 : k = 0 \/ k = 1 \/ k = 2 \/ k = 3
  OBVIOUS
<1>8. \A k \in 0..3 : DbInv(ProcessEvents(k))
  BY <1>1, <1>4, <1>5, <1>6, <1>7
<1> QED
  BY <1>1, <1>4, <1>5, <1>6, <1>8 DEF B

\* scan_commitments_for_user_notes
LEMMA Scanned ==
    ASSUME LogInv, NEW d, DbInv(d), NEW marks \in ScanMarks(d),
           NEW g, g = ScanCommitments(d, marks)
    PROVE  /\ DbInv(g)
           /\ g.nullifiers = d.nullifiers /\ g.commitments = d.commitments
           /\ g.members = d.members /\ g.scanned = marks /\ g.reconciled = d.reconciled
<1> DEFINE new == {d.commitments[i] : i \in
                     {j \in DOMAIN d.commitments : \E a \in keys :
                        /\ j \in (d.scanned[a] + 1)..marks[a]
                        /\ log[d.commitments[j]].owner = a}}
           gone == new \cap SpentIn(d, DOMAIN d.nullifiers)
<1>1. d \in Databases /\ TablesInv(d) /\ NotesInv(d)
  BY DEF DbInv
<1>2. g = [[[d EXCEPT !.scanned = marks] EXCEPT !.notes = d.notes \cup new]
             EXCEPT !.spent = d.spent \cup gone]
  BY <1>1 DEF ScanCommitments, Databases
<1>3. /\ d.commitments \in Seq(Nat) /\ DOMAIN d.commitments = 1..Len(d.commitments)
      /\ Len(d.commitments) \in Nat
      /\ d.nullifiers \in Seq(Nat) /\ DOMAIN d.nullifiers = 1..Len(d.nullifiers)
      /\ Len(d.nullifiers) \in Nat /\ d.reconciled \in Nat
      /\ d.reconciled <= Len(d.nullifiers)
      /\ d.scanned \in [Accounts -> Nat]
  BY <1>1 DEF Databases, NotesInv
<1>4. /\ marks \in [Accounts -> 0..Len(d.commitments)]
      /\ \A a \in Accounts : marks[a] \in d.scanned[a]..(d.scanned[a] + Behind(d, a))
  BY DEF ScanMarks
<1>5. new \subseteq ToSet(d.commitments) /\ gone \subseteq new /\ new \subseteq Nat
  BY <1>3 DEF ToSet
<1>6. \A a \in Accounts, i \in DOMAIN d.commitments :
         i <= marks[a] /\ log[d.commitments[i]].owner = a
             => d.commitments[i] \in d.notes \cup new
  <2> SUFFICES ASSUME NEW a \in Accounts, NEW i \in DOMAIN d.commitments,
                      i <= marks[a], log[d.commitments[i]].owner = a
               PROVE  d.commitments[i] \in d.notes \cup new
    OBVIOUS
  <2>1. CASE i <= d.scanned[a]
    BY <1>1, <2>1 DEF NotesInv
  <2>2. CASE ~(i <= d.scanned[a])
    <3>1. /\ i \in Nat /\ d.scanned[a] \in Nat /\ marks[a] \in Nat
          /\ marks[a] <= d.scanned[a] + Behind(d, a)
      BY <1>3, <1>4
    <3>2. a \in keys
      BY <2>2, <3>1 DEF Behind
    <3>3. i \in (d.scanned[a] + 1)..marks[a]
      BY <2>2, <3>1
    <3> QED
      BY <3>2, <3>3
  <2> QED
    BY <2>1, <2>2
<1>7. \A n \in gone : \E i \in DOMAIN d.nullifiers : log[d.nullifiers[i]].note = n
  BY DEF SpentIn
<1>8. \A n \in new \ gone, i \in DOMAIN d.nullifiers : log[d.nullifiers[i]].note # n
  BY DEF SpentIn
<1> HIDE DEF new, gone
<1>9. /\ g \in Databases /\ g.nullifiers = d.nullifiers /\ g.commitments = d.commitments
      /\ g.members = d.members /\ g.notes = d.notes \cup new /\ g.spent = d.spent \cup gone
      /\ g.scanned = marks /\ g.reconciled = d.reconciled
  <2>1. /\ marks \in [Accounts -> Nat] /\ d.notes \cup new \in SUBSET Nat
        /\ d.spent \cup gone \in SUBSET Nat
    <3>1. d.spent \in SUBSET Nat /\ d.notes \in SUBSET Nat
      BY <1>1 DEF Databases
    <3>2. marks \in [Accounts -> Nat]
      BY <1>3, <1>4
    <3>3. new \subseteq Nat /\ gone \subseteq Nat
      BY <1>5
    <3> QED
      BY <3>1, <3>2, <3>3
  <2> QED
    BY <1>1, <1>2, <2>1 DEF Databases
<1>10. TablesInv(g)
  BY <1>1, <1>9 DEF TablesInv
<1>11. NotesInv(g)
  <2>1. g.notes \subseteq ToSet(g.commitments) /\ g.spent \subseteq g.notes
    BY <1>1, <1>5, <1>9 DEF NotesInv
  <2>2. \A a \in Accounts : g.scanned[a] <= Len(g.commitments)
    BY <1>3, <1>4, <1>9
  <2>3. \A i \in 1..d.reconciled : i \in DOMAIN d.nullifiers
    BY <1>3
  <2>4. \A n \in g.notes \ g.spent, i \in 1..g.reconciled : log[g.nullifiers[i]].note # n
    BY <1>1, <1>8, <1>9, <2>3 DEF NotesInv
  <2>5. \A n \in g.spent : \E i \in DOMAIN g.nullifiers : log[g.nullifiers[i]].note = n
    BY <1>1, <1>7, <1>9 DEF NotesInv
  <2> QED
    BY <1>3, <1>6, <1>9, <2>1, <2>2, <2>4, <2>5 DEF NotesInv
<1> QED
  BY <1>9, <1>10, <1>11 DEF DbInv

LEMMA LesserOfTwo ==
    ASSUME NEW a \in Nat, NEW b \in Nat
    PROVE  Min({a, b}) = IF a <= b THEN a ELSE b
BY DEF Min

\* reconcile_nullifiers
LEMMA Reconciled ==
    ASSUME LogInv, NEW d, DbInv(d), NEW g, g = ReconcileNullifiers(d)
    PROVE  /\ DbInv(g)
           /\ g.nullifiers = d.nullifiers /\ g.commitments = d.commitments
           /\ g.members = d.members /\ g.scanned = d.scanned
           /\ g.reconciled = d.reconciled => g.reconciled = Len(g.nullifiers)
<1> DEFINE last == Min({Len(d.nullifiers), d.reconciled + FetchLimit})
           gone == d.notes \cap SpentIn(d, (d.reconciled + 1)..last)
<1>1. d \in Databases /\ TablesInv(d) /\ NotesInv(d)
  BY DEF DbInv
<1>2. g = [[d EXCEPT !.reconciled = last] EXCEPT !.spent = d.spent \cup gone]
  BY <1>1 DEF ReconcileNullifiers, Databases
<1>3. /\ d.nullifiers \in Seq(Nat) /\ DOMAIN d.nullifiers = 1..Len(d.nullifiers)
      /\ Len(d.nullifiers) \in Nat /\ d.reconciled \in Nat
      /\ d.reconciled <= Len(d.nullifiers)
  BY <1>1 DEF Databases, NotesInv
<1>4. /\ last \in d.reconciled..Len(d.nullifiers)
      /\ last = d.reconciled => last = Len(d.nullifiers)
  <2>1. d.reconciled + FetchLimit \in Nat /\ d.reconciled + FetchLimit > d.reconciled
    BY <1>3, LocalAssumption
  <2>2. last = IF Len(d.nullifiers) <= d.reconciled + FetchLimit
               THEN Len(d.nullifiers) ELSE d.reconciled + FetchLimit
    BY <1>3, <2>1, LesserOfTwo
  <2> HIDE DEF last
  <2> QED
    BY <1>3, <2>1, <2>2
<1> HIDE DEF last
<1>5. /\ gone \subseteq d.notes
      /\ \A n \in gone : \E i \in DOMAIN d.nullifiers : log[d.nullifiers[i]].note = n
      /\ \A n \in d.notes \ gone, i \in (d.reconciled + 1)..last : log[d.nullifiers[i]].note # n
  <2>1. (d.reconciled + 1)..last \subseteq DOMAIN d.nullifiers
    BY <1>3, <1>4
  <2> DEFINE range == (d.reconciled + 1)..last
             found == {log[d.nullifiers[i]].note : i \in range}
  <2>2. gone = d.notes \cap found
    BY DEF SpentIn
  <2> HIDE DEF range, gone
  <2>3. range \subseteq DOMAIN d.nullifiers
    BY <2>1 DEF range
  <2>4. /\ gone \subseteq d.notes
        /\ \A n \in gone : \E i \in DOMAIN d.nullifiers : log[d.nullifiers[i]].note = n
        /\ \A n \in d.notes \ gone, i \in range : log[d.nullifiers[i]].note # n
    BY <2>2, <2>3, Zenon
  <2> QED
    BY <2>4 DEF range
<1> HIDE DEF gone
<1>6. /\ g \in Databases /\ g.nullifiers = d.nullifiers /\ g.commitments = d.commitments
      /\ g.members = d.members /\ g.notes = d.notes /\ g.spent = d.spent \cup gone
      /\ g.scanned = d.scanned /\ g.reconciled = last
  <2>1. last \in Nat /\ d.spent \cup gone \in SUBSET Nat
    <3>1. d.spent \in SUBSET Nat /\ d.notes \in SUBSET Nat
      BY <1>1 DEF Databases
    <3>2. last \in Nat
      BY <1>3, <1>4
    <3> QED
      BY <1>5, <3>1, <3>2
  <2> QED
    BY <1>1, <1>2, <2>1 DEF Databases
<1>7. TablesInv(g)
  BY <1>1, <1>6 DEF TablesInv
<1>8. NotesInv(g)
  <2>1. g.spent \subseteq g.notes
    BY <1>1, <1>5, <1>6 DEF NotesInv
  <2>2. g.reconciled <= Len(g.nullifiers)
    BY <1>3, <1>4, <1>6
  <2>3. \A i \in 1..last : i \in 1..d.reconciled \/ i \in (d.reconciled + 1)..last
    BY <1>3, <1>4
  <2>4. \A n \in g.notes \ g.spent, i \in 1..g.reconciled : log[g.nullifiers[i]].note # n
    BY <1>1, <1>5, <1>6, <2>3 DEF NotesInv
  <2>5. \A n \in g.spent : \E i \in DOMAIN g.nullifiers : log[g.nullifiers[i]].note = n
    BY <1>1, <1>5, <1>6 DEF NotesInv
  <2> QED
    BY <1>1, <1>6, <2>1, <2>2, <2>4, <2>5 DEF NotesInv
<1> QED
  BY <1>4, <1>6, <1>7, <1>8 DEF DbInv

LEMMA ZeroSum ==
    ASSUME NEW S, IsFiniteSet(S), NEW f, \A x \in S : f[x] \in Nat, SumOf(S, f) = 0
    PROVE  \A x \in S : f[x] = 0
<1> TAKE x \in S
<1>1. SumOf(S, f) = SumOf(S \ {x}, f) + f[x] /\ SumOf(S \ {x}, f) \in Nat
  BY SumSplit
<1> QED
  BY <1>1

\* process_until_empty: a round that has no event to process and changes nothing
\* has found nothing.
LEMMA RoundRests ==
    ASSUME LogInv, DbInv(db), Unprocessed(db) = {},
           NEW marks \in ScanMarks(ProcessEvents(3)),
           ReconcileNullifiers(ScanCommitments(ProcessEvents(3), marks)) = db
    PROVE  /\ 1..raw \subseteq Processed(db)
           /\ \A a \in keys : db.scanned[a] = Len(db.commitments)
           /\ db.reconciled = Len(db.nullifiers)
<1> DEFINE d3 == ProcessEvents(3)
           d4 == ScanCommitments(d3, marks)
<1>1. DbInv(d3) /\ d3.scanned = db.scanned /\ d3.reconciled = db.reconciled
  <2>1. 3 \in 0..3
    OBVIOUS
  <2> QED
    BY <2>1, EventsProcessed, Zenon
<1>2. marks \in ScanMarks(d3) /\ ReconcileNullifiers(d4) = db
  OBVIOUS
<1>3. 1..raw \subseteq Processed(db)
  BY BatchIsOldest
<1> HIDE DEF d3
<1>4. /\ DbInv(d4)
      /\ d4.nullifiers = d3.nullifiers /\ d4.commitments = d3.commitments
      /\ d4.members = d3.members /\ d4.scanned = marks /\ d4.reconciled = d3.reconciled
  BY <1>1, <1>2, Scanned
<1> HIDE DEF d4
<1>5. /\ db.nullifiers = d4.nullifiers /\ db.commitments = d4.commitments
      /\ db.members = d4.members /\ db.scanned = d4.scanned
      /\ db.reconciled = d4.reconciled => db.reconciled = Len(db.nullifiers)
  BY <1>2, <1>4, Reconciled
<1>6. db.reconciled = Len(db.nullifiers)
  BY <1>1, <1>4, <1>5
<1>7. \A a \in keys : db.scanned[a] = Len(db.commitments)
  <2> DEFINE gain   == [a \in Accounts |-> marks[a] - d3.scanned[a]]
             behind == [a \in Accounts |-> Behind(d3, a)]
  <2>1. /\ d3.scanned \in [Accounts -> Nat] /\ Len(d3.commitments) \in Nat
        /\ \A a \in Accounts : d3.scanned[a] <= Len(d3.commitments)
    BY <1>1 DEF DbInv, Databases, NotesInv
  <2>2. marks = d3.scanned
    BY <1>1, <1>4, <1>5
  <2>3. \A a \in Accounts : gain[a] = 0
    BY <2>1, <2>2
  <2>4. behind \in [Accounts -> Nat]
    BY <2>1 DEF Behind
  <2>5. SumOf(Accounts, gain) = Min({FetchLimit, SumOf(Accounts, behind)})
    BY <1>2 DEF ScanMarks
  <2> HIDE DEF gain, behind
  <2>6. SumOf(Accounts, gain) = 0
    BY <2>3, SumZero
  <2>7. SumOf(Accounts, behind) \in Nat
    BY <2>4, LocalAssumption, SumNat
  <2>8. SumOf(Accounts, behind) = 0
    BY <2>5, <2>6, <2>7, LocalAssumption, LesserOfTwo
  <2>9. \A a \in Accounts : behind[a] = 0
    BY <2>4, <2>8, LocalAssumption, ZeroSum
  <2>10. \A a \in keys : d3.scanned[a] = Len(d3.commitments)
    BY <2>1, <2>9 DEF behind, Behind, LogInv
  <2> QED
    BY <1>1, <1>4, <1>5, <2>10
<1> QED
  BY <1>3, <1>6, <1>7

-----------------------------------------------------------------------------
(* The steps.                                                              *)

\* A database that stands while the log grows and more of it is stored.
LEMMA DbStands ==
    ASSUME LogInv, DbInv(db), db' = db, log' \in Seq(EventRecords),
           DOMAIN log \subseteq DOMAIN log', \A e \in DOMAIN log : log'[e] = log[e],
           raw' \in Nat, raw <= raw'
    PROVE  DbInv(db)'
<1>1. 1..raw \in SUBSET DOMAIN log /\ raw \in Nat /\ 1..raw \subseteq 1..raw'
  BY EventPlaces
<1>2. /\ DOMAIN log = 1..Len(log) /\ Len(log) \in Nat
      /\ DOMAIN log' = 1..Len(log') /\ Len(log') \in Nat
  BY EventPlaces
<1>3. \A type : Events(type) \subseteq Events(type)'
  BY DEF Events
<1>4. \A type : \A e \in 1..raw, f \in Events(type)' : f < e => f \in Events(type)
  BY <1>1, <1>2 DEF Events
<1>5. db \in Databases /\ TablesInv(db) /\ NotesInv(db)
  BY DEF DbInv
<1>6. /\ ToSet(db.nullifiers) \subseteq 1..raw /\ ToSet(db.commitments) \subseteq 1..raw
      /\ db.members \subseteq 1..raw
  BY <1>5 DEF TablesInv, Stored
<1>7. TablesInv(db)'
  <2>1. Leading(ToSet(db.nullifiers), "nullifier")' /\ Leading(db.members, "leaf")'
    BY <1>4, <1>5, <1>6 DEF TablesInv, Leading
  <2>4. Covered(ToSet(db.commitments))'
    <3>1. \A e \in ToSet(db.commitments) : log'[e] = log[e] /\ e \in 1..raw
      BY <1>1, <1>6
    <3>2. \A e \in ToSet(db.commitments), f \in Events("commitment")' :
             f < e => f \in Events("commitment") /\ log'[f] = log[f]
      BY <1>4, <3>1 DEF Events
    <3>3. Covered(ToSet(db.commitments))
      BY <1>5 DEF TablesInv
    <3> QED
      BY <3>1, <3>2, <3>3 DEF Covered
  <2>2. \A f \in ToSet(db.commitments), e \in Events("nullifier")' :
           e < f => e \in ToSet(db.nullifiers)
    BY <1>4, <1>5, <1>6 DEF TablesInv
  <2>3. /\ Stored("nullifier") \subseteq Stored("nullifier")'
        /\ Stored("commitment") \subseteq Stored("commitment")'
        /\ Stored("leaf") \subseteq Stored("leaf")'
    BY <1>1, <1>3 DEF Stored
  <2> QED
    BY <1>5, <2>1, <2>2, <2>3, <2>4 DEF TablesInv
<1>8. NotesInv(db)'
  <2>1. /\ db.nullifiers \in Seq(Nat) /\ db.commitments \in Seq(Nat)
        /\ db.reconciled \in Nat /\ db.reconciled <= Len(db.nullifiers)
    BY <1>5 DEF Databases, NotesInv
  <2>2. \A i \in DOMAIN db.nullifiers : log'[db.nullifiers[i]] = log[db.nullifiers[i]]
    BY <1>1, <1>6, <2>1 DEF ToSet
  <2>3. \A i \in DOMAIN db.commitments : log'[db.commitments[i]] = log[db.commitments[i]]
    BY <1>1, <1>6, <2>1 DEF ToSet
  <2>4. \A i \in 1..db.reconciled : i \in DOMAIN db.nullifiers
    BY <2>1
  <2>5. \A a \in Accounts, i \in DOMAIN db.commitments :
           i <= db.scanned[a] /\ log'[db.commitments[i]].owner = a
               => db.commitments[i] \in db.notes
    BY <1>5, <2>3 DEF NotesInv
  <2>6. \A n \in db.notes \ db.spent, i \in 1..db.reconciled : log'[db.nullifiers[i]].note # n
    BY <1>5, <2>2, <2>4 DEF NotesInv
  <2>7. \A n \in db.spent : \E i \in DOMAIN db.nullifiers : log'[db.nullifiers[i]].note = n
    BY <1>5, <2>2 DEF NotesInv
  <2> QED
    BY <1>5, <2>5, <2>6, <2>7 DEF NotesInv
<1> QED
  BY <1>5, <1>7, <1>8 DEF DbInv

\* A database that has been worked on while the log stands.
LEMMA DbReplaced ==
    ASSUME NEW d, DbInv(d), db' = d, log' = log, raw' = raw
    PROVE  DbInv(db)'
BY DEF DbInv, TablesInv, NotesInv, Leading, Covered, Stored, Events

\* A ledger closes with the events of one transaction, or none.
LEMMA LogGrows ==
    ASSUME LogInv, NEW events \in Seq(EventRecords), Emit(events),
           \A i \in DOMAIN events : events[i].ledger = tip + 1,
           \A i \in DOMAIN events : events[i].type = "nullifier" =>
               \E j \in DOMAIN events : i < j /\ events[j].type = "commitment"
    PROVE  /\ LogInv' /\ tip' = tip + 1
           /\ DOMAIN log \subseteq DOMAIN log'
           /\ \A e \in DOMAIN log : log'[e] = log[e]
           /\ \A e \in DOMAIN log' \ DOMAIN log : log'[e].ledger = tip + 1
<1>1. /\ log \in Seq(EventRecords) /\ tip \in Nat /\ DOMAIN log = 1..Len(log)
      /\ Len(log) \in Nat /\ raw \in 0..Len(log)
      /\ DOMAIN events = 1..Len(events) /\ Len(events) \in Nat
  BY DEF LogInv
<1>2. /\ log' = log \o events /\ tip' = tip + 1
      /\ raw' = raw /\ keys' = keys /\ busy' = busy /\ kicked' = kicked
  BY DEF Emit, processor
<1>3. /\ log' \in Seq(EventRecords) /\ Len(log') = Len(log) + Len(events)
      /\ DOMAIN log' = 1..(Len(log) + Len(events))
      /\ \A e \in 1..Len(log) : log'[e] = log[e]
      /\ \A i \in 1..Len(events) : log'[Len(log) + i] = events[i]
  BY <1>1, <1>2
<1> HIDE DEF Emit
<1>4. DOMAIN log \subseteq DOMAIN log' /\ \A e \in DOMAIN log : log'[e] = log[e]
  BY <1>1, <1>3
<1>5. \A e \in DOMAIN log' \ DOMAIN log :
         e - Len(log) \in DOMAIN events /\ log'[e] = events[e - Len(log)]
  <2> TAKE e \in DOMAIN log' \ DOMAIN log
  <2>1. e - Len(log) \in 1..Len(events) /\ Len(log) + (e - Len(log)) = e
    BY <1>1, <1>3
  <2> QED
    BY <1>1, <1>3, <2>1
<1>6. \A e \in DOMAIN log' \ DOMAIN log : log'[e].ledger = tip + 1
  BY <1>5
<1>7. \A e \in DOMAIN log : log[e].ledger \in Nat /\ log[e].ledger <= tip
  <2>1. \A e \in DOMAIN log : log[e] \in EventRecords
    BY <1>1
  <2> QED
    BY <2>1 DEF EventRecords, LogInv
<1>8. \A e \in DOMAIN log' : log'[e].ledger <= tip + 1
  BY <1>1, <1>4, <1>6, <1>7
<1>9. \A e, f \in DOMAIN log' : e <= f => log'[e].ledger <= log'[f].ledger
  <2> SUFFICES ASSUME NEW e \in DOMAIN log', NEW f \in DOMAIN log', e <= f
               PROVE  log'[e].ledger <= log'[f].ledger
    OBVIOUS
  <2>1. CASE f \in DOMAIN log
    <3>1. e \in DOMAIN log
      BY <1>1, <1>3, <2>1
    <3> QED
      BY <1>4, <2>1, <3>1 DEF LogInv
  <2>2. CASE f \notin DOMAIN log
    BY <1>1, <1>6, <1>8, <2>2
  <2> QED
    BY <2>1, <2>2
<1>10. \A e \in Events("nullifier")' : \E f \in Events("commitment")' :
           e < f /\ log'[f].ledger = log'[e].ledger
  <2> SUFFICES ASSUME NEW e \in DOMAIN log', log'[e].type = "nullifier"
               PROVE  \E f \in DOMAIN log' : /\ log'[f].type = "commitment"
                                             /\ e < f /\ log'[f].ledger = log'[e].ledger
    BY DEF Events
  <2>1. CASE e \in DOMAIN log
    <3>1. PICK f \in Events("commitment") : e < f /\ log[f].ledger = log[e].ledger
      BY <1>4, <2>1 DEF LogInv, Events
    <3> QED
      BY <1>4, <2>1, <3>1 DEF Events
  <2>2. CASE e \notin DOMAIN log
    <3>1. e - Len(log) \in DOMAIN events /\ events[e - Len(log)].type = "nullifier"
      BY <1>5, <2>2
    <3>2. PICK j \in DOMAIN events : e - Len(log) < j /\ events[j].type = "commitment"
      BY <3>1
    <3>3. /\ Len(log) + j \in DOMAIN log' /\ Len(log) + j \notin DOMAIN log
          /\ log'[Len(log) + j] = events[j] /\ e < Len(log) + j
      BY <1>1, <1>3, <3>2
    <3> QED
      BY <1>6, <2>2, <3>2, <3>3
  <2> QED
    BY <2>1, <2>2
<1>11. LogInv'
  <2>1. raw' \in 0..Len(log') /\ tip' \in Nat
    BY <1>1, <1>2, <1>3
  <2>2. keys' \subseteq Accounts /\ busy' \in BOOLEAN /\ kicked' \in BOOLEAN
    BY <1>2 DEF LogInv
  <2> QED
    BY <1>2, <1>3, <1>8, <1>9, <1>10, <2>1, <2>2 DEF LogInv
<1> QED
  BY <1>2, <1>4, <1>6, <1>11

\* What a ledger publishes: a transaction of the pool, of the membership
\* contract, or nothing.
OneTransaction(events) ==
    \/ \E n, f, g \in Nat, a, b \in Accounts \cup {Nobody} :
          events = <<Nullifier(n), Nullifier(0), Commitment(a, f), Commitment(b, g)>>
    \/ \E a \in Accounts : events = <<[type |-> "leaf", ledger |-> tip + 1, owner |-> a]>>
    \/ events = << >>

LEMMA Published ==
    ASSUME LogInv, NEW events, OneTransaction(events)
    PROVE  /\ events \in Seq(EventRecords)
           /\ \A i \in DOMAIN events : events[i].ledger = tip + 1
           /\ \A i \in DOMAIN events : events[i].type = "nullifier" =>
                  \E j \in DOMAIN events : i < j /\ events[j].type = "commitment"
<1>1. tip + 1 \in Nat
  BY DEF LogInv
<1>2. CASE \E n, f, g \in Nat, a, b \in Accounts \cup {Nobody} :
              events = <<Nullifier(n), Nullifier(0), Commitment(a, f), Commitment(b, g)>>
  <2> PICK n, f, g \in Nat, a, b \in Accounts \cup {Nobody} :
           events = <<Nullifier(n), Nullifier(0), Commitment(a, f), Commitment(b, g)>>
    BY <1>2
  <2> DEFINE t == tip + 1
             e1 == [type |-> "nullifier", ledger |-> t, note |-> n]
             e2 == [type |-> "nullifier", ledger |-> t, note |-> 0]
             e3 == [type |-> "commitment", ledger |-> t, owner |-> a, first |-> f]
             e4 == [type |-> "commitment", ledger |-> t, owner |-> b, first |-> g]
  <2>1. events = <<e1, e2, e3, e4>>
    BY DEF Nullifier, Commitment
  <2>2. /\ e1 \in EventRecords /\ e2 \in EventRecords
        /\ e3 \in EventRecords /\ e4 \in EventRecords
    <3> HIDE DEF t
    <3>1. t \in Nat
      BY <1>1 DEF t
    <3>2. e1 \in EventRecords /\ e2 \in EventRecords
      BY <3>1 DEF EventRecords
    <3>3. e3 \in EventRecords /\ e4 \in EventRecords
      BY <3>1 DEF EventRecords
    <3> QED
      BY <3>2, <3>3
  <2>3. /\ e1.ledger = t /\ e2.ledger = t /\ e3.ledger = t /\ e4.ledger = t
        /\ e3.type = "commitment" /\ e4.type = "commitment"
    OBVIOUS
  <2> HIDE DEF e1, e2, e3, e4
  <2>4. /\ DOMAIN events = 1..4 /\ events[1] = e1 /\ events[2] = e2
        /\ events[3] = e3 /\ events[4] = e4
    BY <2>1
  <2>5. \A i \in DOMAIN events : i = 1 \/ i = 2 \/ i = 3 \/ i = 4
    BY <2>4
  <2>6. events \in Seq(EventRecords)
    BY <2>1, <2>2
  <2>7. \A i \in DOMAIN events : events[i].ledger = t
    BY <2>3, <2>4, <2>5
  <2>8. \A i \in DOMAIN events : events[i].type = "nullifier" => i < 3
    BY <2>3, <2>4, <2>5
  <2>9. 3 \in DOMAIN events /\ events[3].type = "commitment"
    BY <2>3, <2>4
  <2> QED
    BY <2>6, <2>7, <2>8, <2>9
<1>3. CASE \E a \in Accounts :
              events = <<[type |-> "leaf", ledger |-> tip + 1, owner |-> a]>>
  <2> PICK m \in Accounts : events = <<[type |-> "leaf", ledger |-> tip + 1, owner |-> m]>>
    BY <1>3
  <2> DEFINE e1 == [type |-> "leaf", ledger |-> tip + 1, owner |-> m]
  <2>1. e1 \in EventRecords /\ e1.ledger = tip + 1 /\ e1.type = "leaf"
    BY <1>1 DEF EventRecords
  <2>2. events = <<e1>>
    OBVIOUS
  <2> HIDE DEF e1
  <2>3. events \in Seq(EventRecords)
    BY <2>1, <2>2
  <2>4. \A i \in DOMAIN events : events[i] = e1
    BY <2>2
  <2> QED
    BY <2>1, <2>3, <2>4
<1>4. CASE events = << >>
  <2>1. << >> \in Seq(EventRecords) /\ DOMAIN << >> = {}
    OBVIOUS
  <2> QED
    BY <1>4, <2>1
<1> QED
  BY <1>2, <1>3, <1>4 DEF OneTransaction

\* Whatever the chain does, the app's tables and what it knows stand.
LEMMA LedgerCloseInv ==
    ASSUME WalletInv, NEW events, OneTransaction(events), Emit(events)
    PROVE  /\ LogInv' /\ DbInv(db)' /\ RestInv'
           /\ client' = client => ClientInv'
<1> USE DEF WalletInv
<1>1. /\ LogInv' /\ tip' = tip + 1
      /\ DOMAIN log \subseteq DOMAIN log'
      /\ \A e \in DOMAIN log : log'[e] = log[e]
      /\ \A e \in DOMAIN log' \ DOMAIN log : log'[e].ledger = tip + 1
  BY Published, LogGrows
<1>2. raw' = raw /\ db' = db /\ keys' = keys /\ busy' = busy /\ kicked' = kicked
  BY DEF Emit, processor
<1>3. DbInv(db)'
  <2>1. log' \in Seq(EventRecords) /\ raw' \in Nat /\ raw <= raw'
    BY <1>1, <1>2, EventPlaces DEF LogInv
  <2> QED
    BY <1>1, <1>2, <2>1, DbStands
<1>4. RestInv'
  BY <1>2 DEF RestInv, Processed
<1>5. ASSUME client' = client
      PROVE  ClientInv'
  <2>1. ASSUME client.at = "fetched"
        PROVE  Known(client)' = Known(client) /\ client.ledger \in 0..tip'
    <3>1. client.ledger \in 0..tip /\ tip \in Nat
      BY <2>1 DEF ClientInv, LogInv
    <3>2. Known(client) \subseteq Known(client)'
      BY <1>1, <1>5 DEF Known, Events
    <3>3. \A f \in Known(client)' : f \in Known(client)
      BY <1>1, <1>5, <3>1 DEF Known, Events
    <3>4. Known(client)' = Known(client)
      BY <3>2, <3>3
    <3>5. client.ledger \in 0..tip'
      BY <1>1, <3>1
    <3> QED
      BY <3>4, <3>5
  <2> QED
    BY <1>5, <2>1 DEF ClientInv
<1> QED
  BY <1>1, <1>3, <1>4, <1>5

LEMMA ChainNextInv ==
    ASSUME WalletInv,
           \/ ChainNext
           \/ \E n \in Nat, a \in Accounts \cup {Nobody} : PoolTransacts(n, a)
    PROVE  /\ LogInv' /\ DbInv(db)' /\ RestInv'
           /\ client' = client => ClientInv'
<1>1. ASSUME NEW n \in {0} \cup UNION {UnspentOf(a) : a \in Accounts}
      PROVE  n \in Nat
  BY EventPlaces DEF WalletInv, UnspentOf, NotesOf
<1>2. \E events : OneTransaction(events) /\ Emit(events)
  <2>1. ASSUME NEW n \in Nat, NEW a \in Accounts \cup {Nobody}, PoolTransacts(n, a)
        PROVE  \E events : OneTransaction(events) /\ Emit(events)
    <3>1. Len(log) + 3 \in Nat /\ Len(log) + 4 \in Nat
      BY EventPlaces DEF WalletInv
    <3> QED
      BY <2>1, <3>1 DEF PoolTransacts, Fresh, OneTransaction
  <2>4. ASSUME NEW n \in Nat, NEW e \in Events("commitment"), PoolRepeats(n, e)
        PROVE  \E events : OneTransaction(events) /\ Emit(events)
    <3>1. Len(log) + 4 \in Nat
      BY EventPlaces DEF WalletInv
    <3>2. log[e].owner \in Accounts \cup {Nobody} /\ log[e].first \in Nat
      <4>1. log[e] \in EventRecords /\ log[e].type = "commitment"
        BY DEF WalletInv, LogInv, Events
      <4> QED
        BY <4>1 DEF EventRecords
    <3> QED
      BY <2>4, <3>1, <3>2 DEF PoolRepeats, Fresh, OneTransaction
  <2>2. ASSUME NEW a \in Accounts, MemberAdded(a)
        PROVE  \E events : OneTransaction(events) /\ Emit(events)
    BY <2>2 DEF MemberAdded, OneTransaction
  <2>3. ASSUME LedgerCloses
        PROVE  \E events : OneTransaction(events) /\ Emit(events)
    BY <2>3 DEF LedgerCloses, OneTransaction
  <2>5. \A a \in Accounts : NotesOf(a) \subseteq Events("commitment")
    BY DEF NotesOf
  <2> QED
    BY <1>1, <2>1, <2>2, <2>3, <2>4, <2>5 DEF ChainNext
<1> QED
  BY <1>2, LedgerCloseInv

\* The indexer and the user's keys kick the processor.
LEMMA StoringInv ==
    ASSUME WalletInv, client' = client,
           IndexerNext \/ \E a \in Accounts \ keys : DeriveSaveUserKeys(a)
    PROVE  WalletInv'
<1> USE DEF WalletInv
<1>1. /\ log' = log /\ tip' = tip /\ db' = db /\ busy' = busy
      /\ raw' \in 0..Len(log) /\ raw <= raw'
      /\ keys' \subseteq Accounts
      /\ kicked' = TRUE \/ (kicked' = kicked /\ raw' = raw /\ keys' = keys)
  <2>1. CASE \E n \in 1..Len(log) : SaveEvents(n)
    BY <2>1, EventPlaces DEF SaveEvents, chain, LogInv
  <2>2. CASE SaveFullyIndexed
    BY <2>2, EventPlaces DEF SaveFullyIndexed, chain, processor, LogInv
  <2>3. CASE \E a \in Accounts \ keys : DeriveSaveUserKeys(a)
    BY <2>3, EventPlaces DEF DeriveSaveUserKeys, chain, LogInv
  <2> QED
    BY <2>1, <2>2, <2>3 DEF IndexerNext
<1>2. LogInv'
  BY <1>1 DEF LogInv, Events
<1>3. DbInv(db)'
  <2>1. log' \in Seq(EventRecords) /\ raw' \in Nat
    BY <1>1, EventPlaces DEF LogInv
  <2> QED
    BY <1>1, <2>1, DbStands
<1>4. RestInv'
  BY <1>1 DEF RestInv, Processed
<1>5. ClientInv'
  BY <1>1 DEF ClientInv, Known, Events
<1> QED
  BY <1>2, <1>3, <1>4, <1>5

\* What a round, whole or cut short, leaves in the database.
LEMMA WorkInv ==
    ASSUME LogInv, DbInv(db), NEW d,
           \/ \E k \in 0..3 : d = ProcessEvents(k)
           \/ \E marks \in ScanMarks(ProcessEvents(3)) :
                  \/ d = ScanCommitments(ProcessEvents(3), marks)
                  \/ d = ReconcileNullifiers(ScanCommitments(ProcessEvents(3), marks))
    PROVE  DbInv(d)
<1>1. \A k \in 0..3 : DbInv(ProcessEvents(k))
  BY EventsProcessed
<1>2. ASSUME NEW marks \in ScanMarks(ProcessEvents(3))
      PROVE  /\ DbInv(ScanCommitments(ProcessEvents(3), marks))
             /\ DbInv(ReconcileNullifiers(ScanCommitments(ProcessEvents(3), marks)))
  <2>1. DbInv(ProcessEvents(3))
    BY <1>1
  <2>2. DbInv(ScanCommitments(ProcessEvents(3), marks))
    BY <2>1, Scanned
  <2> QED
    BY <2>2, Reconciled
<1> QED
  BY <1>1, <1>2

LEMMA ProcessorInv ==
    ASSUME WalletInv, WakeUp \/ Round \/ Crash
    PROVE  /\ LogInv' /\ DbInv(db)' /\ RestInv'
           /\ client' = client => ClientInv'
<1> USE DEF WalletInv
<1>1. /\ log' = log /\ tip' = tip /\ raw' = raw /\ keys' = keys
      /\ busy' \in BOOLEAN /\ kicked' \in BOOLEAN
  BY DEF WakeUp, Round, Crash, chain, LogInv
<1>2. LogInv'
  BY <1>1 DEF LogInv, Events
<1>3. DbInv(db')
  <2>1. CASE WakeUp
    BY <2>1 DEF WakeUp
  <2>2. CASE Round
    BY <2>2, WorkInv DEF Round
  <2>3. CASE Crash
    BY <2>3, WorkInv DEF Crash
  <2> QED
    BY <2>1, <2>2, <2>3
<1>4. DbInv(db)'
  BY <1>1, <1>3, DbReplaced
<1>5. RestInv'
  <2>1. CASE WakeUp
    BY <2>1 DEF WakeUp, RestInv
  <2>2. CASE Crash
    BY <2>2 DEF Crash, RestInv
  <2>3. CASE Round
    <3>1. SUFFICES ASSUME ~busy', ~kicked'
                   PROVE  /\ 1..raw' \subseteq Processed(db')
                          /\ \A a \in keys' : db'.scanned[a] = Len(db'.commitments)
                          /\ db'.reconciled = Len(db'.nullifiers)
      BY DEF RestInv, Processed
    <3>2. PICK marks \in ScanMarks(ProcessEvents(3)) :
             db' = ReconcileNullifiers(ScanCommitments(ProcessEvents(3), marks))
      BY <2>3 DEF Round
    <3>3. db' = db /\ Unprocessed(db) = {}
      BY <2>3, <3>1 DEF Round
    <3>4. /\ 1..raw \subseteq Processed(db)
          /\ \A a \in keys : db.scanned[a] = Len(db.commitments)
          /\ db.reconciled = Len(db.nullifiers)
      BY <3>2, <3>3, RoundRests
    <3> QED
      BY <1>1, <3>3, <3>4
  <2> QED
    BY <2>1, <2>2, <2>3
<1>6. client' = client => ClientInv'
  BY <1>1 DEF ClientInv, Known, Events
<1> QED
  BY <1>2, <1>4, <1>5, <1>6

\* What the client does leaves the database alone, but for what the pool
\* executes for it.
LEMMA LocalStands ==
    ASSUME WalletInv, UNCHANGED localVars
    PROVE  LogInv' /\ DbInv(db)' /\ RestInv'
<1>1. /\ log' = log /\ tip' = tip /\ raw' = raw /\ keys' = keys /\ db' = db
      /\ busy' = busy /\ kicked' = kicked
  BY DEF localVars
<1>2. LogInv'
  BY <1>1 DEF WalletInv, LogInv, Events
<1>3. DbInv(db)'
  BY <1>1, DbReplaced DEF WalletInv
<1>4. RestInv'
  BY <1>1 DEF WalletInv, RestInv, Processed
<1> QED
  BY <1>2, <1>3, <1>4

LEMMA ClientSteps ==
    ASSUME WalletInv,
           \/ \E a \in Accounts, n \in 1..Len(log) : StartSpend(a, n) \/ StartDisclosure(a, n)
           \/ FetchState \/ AskStorage \/ Disclose \/ End
    PROVE  WalletInv'
<1>1. UNCHANGED localVars
  BY DEF StartSpend, StartDisclosure, FetchState, AskStorage, Disclose, End
<1>2. LogInv' /\ DbInv(db)' /\ RestInv'
  BY <1>1, LocalStands
<1>3. log' = log /\ tip' = tip
  BY <1>1 DEF localVars
<1>4. /\ client.at # "idle" => client.note \in Nat /\ client.account \in Accounts
      /\ Idle.at = "idle" /\ tip \in Nat
  BY DEF WalletInv, ClientInv, Idle, LogInv
<1>5. ClientInv'
  <2>1. ASSUME NEW a \in Accounts, NEW n \in Nat, NEW kind, client' = Started(kind, a, n)
        PROVE  ClientInv'
    BY <2>1 DEF Started, ClientInv
  <2>2. ASSUME client' = Idle
        PROVE  ClientInv'
    BY <2>2 DEF Idle, ClientInv
  <2>3. CASE \E a \in Accounts, n \in 1..Len(log) : StartSpend(a, n) \/ StartDisclosure(a, n)
    <3>1. \A n \in 1..Len(log) : n \in Nat
      BY EventPlaces DEF WalletInv
    <3> QED
      BY <2>1, <2>3, <3>1 DEF StartSpend, StartDisclosure
  <2>4. CASE FetchState
    <3>1. \A f \in Events("commitment") : log[f].ledger <= tip
      BY DEF WalletInv, LogInv, Events
    <3> DEFINE c == [at |-> "fetched", kind |-> client.kind,
                     account |-> client.account, note |-> client.note,
                     leaves  |-> Cardinality(Events("commitment")),
                     members |-> Cardinality(Events("leaf")),
                     ledger  |-> tip]
    <3>2. client.at = "started" /\ client' = c
      BY <2>4 DEF FetchState
    <3>3. /\ c.leaves = Cardinality(Events("commitment")) /\ c.ledger = tip
          /\ c.note = client.note /\ c.account = client.account
      OBVIOUS
    <3> HIDE DEF c
    <3>4. Known(c) = Events("commitment")
      BY <3>1, <3>3 DEF Known
    <3>5. Known(client)' = Known(c)
      BY <1>3, <3>2 DEF Known, Events
    <3> QED
      BY <1>3, <1>4, <3>2, <3>3, <3>4, <3>5 DEF ClientInv
  <2>5. CASE AskStorage
    <3>1. client.at = "fetched"
      BY <2>5 DEF AskStorage
    <3>2. CASE client' = Params(client)
      BY <1>4, <3>1, <3>2 DEF Params, ClientInv
    <3> QED
      BY <1>4, <2>1, <2>2, <2>5, <3>1, <3>2 DEF AskStorage
  <2>6. CASE Disclose \/ End
    BY <2>2, <2>6 DEF Disclose, End
  <2> QED
    BY <2>3, <2>4, <2>5, <2>6
<1> QED
  BY <1>2, <1>5 DEF WalletInv

-----------------------------------------------------------------------------
(* The theorems.                                                           *)

LEMMA WalletInit ==
    ASSUME Init
    PROVE  WalletInv
<1> USE DEF Init, LocalInit
<1>1. /\ DOMAIN << >> = {} /\ << >> \in Seq(EventRecords) /\ << >> \in Seq(Nat)
      /\ Len(<< >>) = 0 /\ 1..0 = {}
  OBVIOUS
<1>2. Events("nullifier") = {}
  BY <1>1 DEF Events
<1>3. LogInv
  <2>1. log = << >> /\ log \in Seq(EventRecords)
    BY <1>1, Zenon
  <2>2. DOMAIN log = {} /\ Len(log) = 0
    BY <1>1, <2>1
  <2>3. raw \in 0..Len(log)
    BY <2>2
  <2>4. /\ tip \in Nat /\ keys \subseteq Accounts
        /\ busy \in BOOLEAN /\ kicked \in BOOLEAN
    OBVIOUS
  <2> QED
    BY <1>2, <2>1, <2>2, <2>3, <2>4, Zenon DEF LogInv
<1>4. /\ db.nullifiers = << >> /\ db.commitments = << >> /\ db.members = {}
      /\ db.notes = {} /\ db.spent = {} /\ db.scanned \in [Accounts -> Nat]
      /\ \A a \in Accounts : db.scanned[a] = 0
      /\ db.reconciled = 0
  OBVIOUS
<1>5. db \in Databases
  <2>1. [a \in Accounts |-> 0] \in [Accounts -> Nat]
    OBVIOUS
  <2> QED
    BY <1>1, <2>1 DEF Databases
<1>6. ToSet(<< >>) = {} /\ IsInjective(<< >>)
  BY <1>1 DEF ToSet, IsInjective
<1>7. TablesInv(db)
  BY <1>4, <1>6 DEF TablesInv, Leading, Covered
<1>8. NotesInv(db)
  BY <1>1, <1>4 DEF NotesInv
<1>9. RestInv
  BY <1>1, <1>4 DEF RestInv
<1>10. ClientInv
  BY DEF ClientInv, Idle
<1> QED
  BY <1>3, <1>5, <1>7, <1>8, <1>9, <1>10 DEF WalletInv, DbInv

LEMMA WalletNext ==
    ASSUME WalletInv, [Next]_vars
    PROVE  WalletInv'
<1>1. CASE (ChainNext \/ IndexerNext \/ WakeUp \/ Round) /\ UNCHANGED client
  BY <1>1, ChainNextInv, StoringInv, ProcessorInv DEF WalletInv
<1>2. CASE (\E a \in Accounts \ keys : DeriveSaveUserKeys(a)) /\ UNCHANGED client
  BY <1>2, StoringInv
<1>3. CASE \/ \E a \in Accounts, n \in 1..Len(log) : StartSpend(a, n) \/ StartDisclosure(a, n)
           \/ FetchState \/ AskStorage \/ Disclose \/ End
  BY <1>3, ClientSteps
<1>4. ASSUME client' = Idle
      PROVE  ClientInv'
  BY <1>4 DEF ClientInv, Idle
<1>5. CASE Submit
  <2>1. client.at = "prove"
    BY <1>5 DEF Submit
  <2>2. client.note \in Nat /\ client.account \in Accounts
    BY <2>1 DEF WalletInv, ClientInv
  <2>3. \E n \in Nat, a \in Accounts \cup {Nobody} : PoolTransacts(n, a)
    BY <1>5, <2>2 DEF Submit
  <2>4. LogInv' /\ DbInv(db)' /\ RestInv'
    BY <2>3, ChainNextInv
  <2> QED
    BY <1>4, <1>5, <2>4 DEF Submit, WalletInv
<1>6. CASE CrashAll
  BY <1>4, <1>6, ProcessorInv DEF CrashAll, WalletInv
<1>7. CASE UNCHANGED vars
  <2>1. UNCHANGED localVars /\ client' = client /\ log' = log /\ tip' = tip
    BY <1>7 DEF vars, localVars
  <2>2. ClientInv'
    BY <2>1 DEF WalletInv, ClientInv, Known, Events
  <2> QED
    BY <2>1, <2>2, LocalStands DEF WalletInv
<1> QED
  BY <1>1, <1>2, <1>3, <1>5, <1>6, <1>7 DEF Next

\* Whichever part a behaviour is of, it is one of the app's client as module
\* Wallet has it: the other parts leave the client and its database alone.
THEOREM WalletRuns == AllSpec => Spec
<1>1. AllInit => Init
  BY DEF AllInit
<1>2. [AllNext]_<<part, vars, subVars, eventVars>> => [Next]_vars
  BY DEF AllNext
<1> QED
  BY <1>1, <1>2, PTL DEF AllSpec, Spec

\* No event, batch, crash or request takes tables, marks and client out of the
\* inductive invariant (process_events, reconcile_nullifiers, execute_plan).
THEOREM WalletInvariant == Spec => []WalletInv
<1>1. Init => WalletInv
  BY WalletInit
<1>2. WalletInv /\ [Next]_vars => WalletInv'
  BY WalletNext
<1> QED
  BY <1>1, <1>2, PTL DEF Spec

\* process_events, scan_commitments_for_user_notes and reconcile_nullifiers: no
\* table misses a nullifier, a member or a commitment older than its rows, although
\* a commitment that was published again has one row, and no row that the scan and
\* the reconciliation have passed is overlooked, however the events were cut into
\* batches and wherever the worker was killed.
THEOREM NothingIsOverlooked == Spec => []NothingOverlooked
<1>1. ASSUME WalletInv
      PROVE  NothingOverlooked
  <2>1. LogInv /\ TablesInv(db) /\ NotesInv(db) /\ db \in Databases
    BY <1>1 DEF WalletInv, DbInv
  <2>2. NoGaps
    <3>1. ASSUME NEW type, NEW rows, Leading(rows, type), rows \subseteq Stored(type),
                 NEW e \in rows, NEW f \in DOMAIN log, f < e, log[f].type = log[e].type
          PROVE  f \in rows
      BY <3>1 DEF Leading, Stored, Events
    <3>2. Covered(ToSet(db.commitments))
      BY <2>1 DEF TablesInv
    <3> QED
      BY <2>1, <3>1, <3>2 DEF NoGaps, TablesInv, Covered
  <2>3. NoNoteOverlooked
    BY <2>1 DEF NoNoteOverlooked, NotesInv
  <2>4. NoSpendOverlooked
    BY <2>1 DEF NoSpendOverlooked, NotesInv
  <2> QED
    BY <2>2, <2>3, <2>4 DEF NothingOverlooked
<1> QED
  BY <1>1, WalletInvariant, PTL

\* get_user_notes: once the processor has come to rest with all events stored, the
\* notes that are shown as unspent are those that can be spent; no kick is lost.
THEOREM WalletShowsTheTruth == AllSpec => []ShowsTheTruth
<1>1. ASSUME WalletInv
      PROVE  ShowsTheTruth
  <2>1. LogInv /\ TablesInv(db) /\ NotesInv(db) /\ db \in Databases
    BY <1>1 DEF WalletInv, DbInv
  <2> SUFFICES ASSUME ~busy, ~kicked, raw = Len(log), NEW a \in keys
               PROVE  {n \in db.notes \ db.spent : log[n].owner = a} = UnspentOf(a)
    BY DEF ShowsTheTruth
  <2>2. /\ DOMAIN log \subseteq Processed(db) /\ a \in Accounts
        /\ db.scanned[a] = Len(db.commitments) /\ db.reconciled = Len(db.nullifiers)
    BY <1>1, EventPlaces DEF WalletInv, RestInv, LogInv
  <2>3. /\ \A e \in Events("nullifier") : e \in ToSet(db.nullifiers)
        /\ \A e \in Events("commitment") : e \in ToSet(db.commitments)
    BY <2>1, <2>2 DEF Processed, TablesInv, Stored, Events
  <2>4. /\ DOMAIN db.nullifiers = 1..Len(db.nullifiers)
        /\ DOMAIN db.commitments = 1..Len(db.commitments)
    BY <2>1 DEF Databases
  <2>5. ASSUME NEW n \in db.notes \ db.spent
        PROVE  n \in Events("commitment") /\ n \notin SpentOnChain
    <3>1. n \in Events("commitment")
      BY <2>1 DEF NotesInv, TablesInv, Stored
    <3>2. \A e \in Events("nullifier") : log[e].note # n
      <4> TAKE e \in Events("nullifier")
      <4>1. PICK i \in DOMAIN db.nullifiers : db.nullifiers[i] = e
        BY <2>3 DEF ToSet
      <4> QED
        BY <2>1, <2>2, <2>4, <4>1 DEF NotesInv
    <3> QED
      BY <3>1, <3>2 DEF SpentOnChain
  <2>6. ASSUME NEW n \in Events("commitment"), log[n].owner = a, n \notin SpentOnChain
        PROVE  n \in db.notes \ db.spent
    <3>1. PICK i \in DOMAIN db.commitments : db.commitments[i] = n
      BY <2>3 DEF ToSet
    <3>2. i <= db.scanned[a]
      BY <2>2, <2>4, <3>1
    <3>3. n \in db.notes
      BY <2>1, <2>2, <2>6, <3>1, <3>2 DEF NotesInv
    <3>4. ASSUME n \in db.spent
          PROVE  FALSE
      <4>1. PICK j \in DOMAIN db.nullifiers : log[db.nullifiers[j]].note = n
        BY <2>1, <3>4 DEF NotesInv
      <4>2. db.nullifiers[j] \in Events("nullifier")
        BY <2>1 DEF TablesInv, Stored, ToSet
      <4> QED
        BY <2>6, <4>1, <4>2 DEF SpentOnChain
    <3> QED
      BY <3>3, <3>4
  <2> QED
    BY <2>5, <2>6 DEF UnspentOf, NotesOf
<1> QED
  BY <1>1, WalletRuns, WalletInvariant, PTL

\* A table has as many rows as it has events.
LEMMA RowsCounted ==
    ASSUME NEW rows \in Seq(Nat), IsInjective(rows)
    PROVE  IsFiniteSet(ToSet(rows)) /\ Cardinality(ToSet(rows)) = Len(rows)
<1>1. Len(rows) \in Nat /\ DOMAIN rows = 1..Len(rows) /\ rows \in [1..Len(rows) -> Nat]
  OBVIOUS
<1>2. IsFiniteSet(1..Len(rows)) /\ Cardinality(1..Len(rows)) = Len(rows)
  <2>1. Len(rows) \in Nat
    BY <1>1
  <2>2. 1 <= Len(rows) => Len(rows) - 1 + 1 = Len(rows)
    BY <1>1
  <2>3. IsFiniteSet(1..Len(rows))
    BY <1>1, FS_Interval
  <2>4. Cardinality(1..Len(rows)) = IF 1 > Len(rows) THEN 0 ELSE Len(rows) - 1 + 1
    BY <1>1, FS_Interval
  <2>5. CASE 1 > Len(rows)
    BY <2>1, <2>3, <2>4, <2>5
  <2>6. CASE 1 <= Len(rows)
    BY <2>1, <2>2, <2>3, <2>4, <2>6
  <2> QED
    BY <2>1, <2>5, <2>6
<1>3. rows \in Surjection(1..Len(rows), ToSet(rows))
  BY <1>1 DEF Surjection, ToSet
<1>4. rows \in Injection(1..Len(rows), ToSet(rows))
  BY <1>1, <1>3 DEF Injection, Surjection, IsInjective
<1> QED
  BY <1>2, <1>3, <1>4, FS_Surjection

\* build_validated_pool_tree: who has as many commitments as there were when the
\* chain was read has either just those or a later one, and so the nullifiers
\* published by then; a proof is made of a note that was unspent at that moment.
THEOREM WalletProvesUnspentNotes == AllSpec => ProvesUnspentNotes
<1> DEFINE Unspent ==
        (client.at = "fetched" /\ client'.at = "prove" /\ db.reconciled = Len(db.nullifiers))
            => \A e \in Events("nullifier") :
                   log[e].note = client.note => log[e].ledger > client.ledger
<1>1. ASSUME WalletInv, [Next]_vars
      PROVE  Unspent
  <2> SUFFICES ASSUME client.at = "fetched", client'.at = "prove",
                      db.reconciled = Len(db.nullifiers),
                      NEW e \in Events("nullifier"), log[e].note = client.note,
                      ~(log[e].ledger > client.ledger)
               PROVE  FALSE
    BY Zenon
  <2>1. LogInv /\ TablesInv(db) /\ NotesInv(db) /\ db \in Databases /\ ClientInv
    BY <1>1 DEF WalletInv, DbInv
  <2>2. AskStorage
    BY <1>1 DEF Next, vars, StartSpend, StartDisclosure, Calls, Idle, FetchState, Disclose,
                Submit, End, CrashAll
  <2>3. Answer(client) = "prove"
    BY <2>2 DEF AskStorage, Started, Idle
  <2>4. PoolSynced(client) /\ NoteHeld(client)
    <3>1. MembershipSync(client) # "prove"
      BY DEF MembershipSync
    <3> QED
      BY <2>3, <3>1 DEF Answer, DisclosureInputs, TransactParams
  <2>5. /\ client.ledger \in Nat
        /\ Len(db.commitments) = Cardinality(Known(client))
    BY <2>1, <2>4 DEF PoolSynced, ClientInv, LogInv
  <2>6. \A f \in DOMAIN log : f \in Nat /\ log[f].ledger \in Nat
    <3>1. \A f \in DOMAIN log : log[f] \in EventRecords /\ f \in Nat
      BY <2>1, EventPlaces DEF LogInv
    <3> QED
      BY <3>1 DEF EventRecords
  <2>7. e \in DOMAIN log /\ log[e].ledger <= client.ledger
    BY <2>5, <2>6 DEF Events
  <2>8. PICK f \in Events("commitment") : e < f /\ log[f].ledger = log[e].ledger
    BY <2>1 DEF LogInv
  <2>9. f \in Known(client)
    BY <2>7, <2>8 DEF Known
  <2>10. \E g \in ToSet(db.commitments) : e < g
    <3>1. ToSet(db.commitments) \in SUBSET Events("commitment")
      BY <2>1 DEF TablesInv, Stored
    <3>2. CASE ToSet(db.commitments) \subseteq Known(client)
      <4>1. IsFiniteSet(Known(client))
        BY <2>1, EventPlaces, FS_Subset DEF Known
      <4>2. Cardinality(ToSet(db.commitments)) = Len(db.commitments)
        BY <2>1, RowsCounted DEF TablesInv, Databases
      <4>3. ToSet(db.commitments) = Known(client)
        BY <2>5, <3>2, <4>1, <4>2, FS_Subset
      <4> QED
        BY <2>8, <2>9, <4>3
    <3>3. CASE ~(ToSet(db.commitments) \subseteq Known(client))
      <4>1. PICK g \in ToSet(db.commitments) : g \notin Known(client)
        BY <3>3
      <4>2. g \in DOMAIN log /\ ~(log[g].ledger <= client.ledger)
        BY <3>1, <4>1 DEF Known, Events
      <4>3. ~(g <= e)
        BY <2>1, <2>5, <2>6, <2>7, <4>2 DEF LogInv
      <4> QED
        BY <2>6, <2>7, <4>2, <4>3
    <3> QED
      BY <3>2, <3>3
  <2>11. e \in ToSet(db.nullifiers)
    BY <2>1, <2>10 DEF TablesInv
  <2>12. PICK i \in DOMAIN db.nullifiers : db.nullifiers[i] = e
    BY <2>11 DEF ToSet
  <2>13. i \in 1..db.reconciled
    BY <2>1, <2>12 DEF Databases
  <2>14. client.note \in db.notes \ db.spent
    BY <2>4 DEF NoteHeld, SpendableNotes
  <2> QED
    BY <2>1, <2>12, <2>13, <2>14 DEF NotesInv
<1>2. [][Unspent]_vars <=> ProvesUnspentNotes
  BY DEF ProvesUnspentNotes
<1> HIDE DEF Unspent
<1> QED
  BY <1>1, <1>2, WalletRuns, WalletInvariant, PTL DEF Spec

-----------------------------------------------------------------------------
(* The client's transactions: the inductive invariant.                     *)

\* What a tab keeps of a request from the reading of the account on.
Asked(f) ==
    /\ flow[f].want \in Sub!Wants
    /\ flow[f].knew \in 0..Sub!Sequence
    /\ flow[f].seq = flow[f].knew + 1

\* What tab f asked for, with the fee that its resources need.
PreparedBy(f, tx) ==
    /\ tx.id = f
    /\ tx.seq = flow[f].seq
    /\ tx.call = Sub!Invocation(flow[f].want)
    /\ tx.resources \in Nat
    /\ tx.fee = BaseFee + tx.resources

\* What the user signs for entry i.
SignedFor(tx, i, expires) == [nonce |-> i, expires |-> expires, call |-> tx.call]

Signed(tx) ==
    \A i \in DOMAIN tx.auth : tx.auth[i].by = "user" =>
        /\ tx.auth[i].expires \in Nat
        /\ tx.auth[i].signed = SignedFor(tx, i, tx.auth[i].expires)

\* The shapes that updates of a record's field rely on.
AuthEntry(entry) ==
    entry = [by |-> entry.by, signed |-> entry.signed, expires |-> entry.expires]

Envelope(tx) ==
    tx = [id |-> tx.id, seq |-> tx.seq, fee |-> tx.fee, resources |-> tx.resources,
          call |-> tx.call, auth |-> tx.auth]

\* Nothing is signed but by the wallet, whose signatures are for this transaction.
PreparedInv(f) ==
    /\ flow[f] = [at |-> "prepared", want |-> flow[f].want, seq |-> flow[f].seq,
                  knew |-> flow[f].knew, latest |-> flow[f].latest, tx |-> flow[f].tx,
                  signatures |-> flow[f].signatures]
    /\ PreparedBy(f, flow[f].tx) /\ Envelope(flow[f].tx)
    /\ flow[f].latest \in Nat
    /\ \A i \in DOMAIN flow[f].tx.auth :
          /\ AuthEntry(flow[f].tx.auth[i])
          /\ flow[f].tx.auth[i].signed = "void"
    /\ \A i \in DOMAIN flow[f].signatures :
          flow[f].signatures[i] =
              SignedFor(flow[f].tx, i, flow[f].latest + AuthExpirationLedgers)

Places == {"idle", "raw", "prepared", "signed", "confirm", "told"}

FlowInv(f) ==
    /\ flow[f].at \in Places
    /\ flow[f].at = "idle" => flow[f] = Sub!Idle
    /\ flow[f].at # "idle" => Asked(f)
    /\ flow[f].at = "prepared" => PreparedInv(f)
    /\ flow[f].at \in {"signed", "confirm"} =>
          PreparedBy(f, flow[f].tx) /\ Signed(flow[f].tx)
    /\ flow[f].at = "confirm" =>
          flow[f] = [at |-> "confirm", want |-> flow[f].want, seq |-> flow[f].seq,
                     knew |-> flow[f].knew, tx |-> flow[f].tx, polls |-> flow[f].polls]

\* The tab has sent its transaction, and may have heard of it.
Sent(f) ==
    \/ flow[f].at = "confirm"
    \/ flow[f].at = "told" /\ flow[f].answer \notin {"error", "refused"}

NetworkInv == \A tx \in network :
    /\ tx.id \in Flows
    /\ PreparedBy(tx.id, tx) /\ Signed(tx) /\ Sent(tx.id)

\* An authorization is refused for its age only.
TooLate(entry) == \E k \in DOMAIN entry.tx.auth :
    /\ entry.tx.auth[k].by = "user"
    /\ entry.ledger > entry.tx.auth[k].expires

\* An included transaction took the number that its tab read.
IncludedInv(i) ==
    LET tx == applied[i].tx
    IN  /\ PreparedBy(tx.id, tx) /\ Sent(tx.id)
        /\ flow[tx.id].knew = i - 1
        /\ applied[i].outcome \in {"ok", "refused", "badAuth"}
        /\ applied[i].outcome = "badAuth" => TooLate(applied[i])

\* What a tab tells its user is so.
Truthful(f) ==
    /\ Sub!TellsOf(f, "success") => Sub!AppliedFor(f, {"ok"})
    /\ Sub!TellsOf(f, "failed")  => Sub!AppliedFor(f, {"refused", "badAuth"})
    /\ Sub!TellsOf(f, "refused") =>
          flow[f].seq <= Sub!Sequence /\ applied[flow[f].seq].tx.id # f

SubmissionInv ==
    /\ ledger \in Nat
    /\ applied \in Seq({applied[i] : i \in DOMAIN applied})
    /\ DOMAIN flow = Flows
    /\ \A f \in Flows : FlowInv(f)
    /\ NetworkInv
    /\ \A i \in Sub!Ours : IncludedInv(i)
    /\ \A f \in Flows : Truthful(f)

-----------------------------------------------------------------------------
(* Arguments.                                                              *)

\* Quotient and remainder are the only ones.
LEMMA Division ==
    ASSUME NEW m \in Nat \ {0}, NEW q \in Int, NEW r \in 0..(m - 1)
    PROVE  (m * q + r) \div m = q /\ (m * q + r) % m = r
<1> DEFINE x == m * q + r
           p == x \div m
           s == x % m
<1>1. p \in Int /\ s \in 0..(m - 1) /\ x = m * p + s
  OBVIOUS
<1> HIDE DEF p, s
<1>2. CASE q > p
  <2>1. m * q >= m * (p + 1) /\ m * (p + 1) = m * p + m
    BY <1>1, <1>2
  <2> QED
    BY <1>1, <2>1
<1>3. CASE q < p
  <2>1. m * p >= m * (q + 1) /\ m * (q + 1) = m * q + m
    BY <1>1, <1>3
  <2> QED
    BY <1>1, <2>1
<1>4. CASE q = p
  BY <1>1, <1>4 DEF p, s
<1> QED
  BY <1>1, <1>2, <1>3, <1>4

\* i128_to_i256_scval: the four words, read with their sign, are the amount, for
\* every amount that an i128 holds.
LEMMA WordsMeanAmount ==
    ASSUME NEW n \in -Sub!Half..(Sub!Half - 1)
    PROVE  Sub!I256OfScval(Sub!I128ToI256Scval(n)) = n
<1> DEFINE Q == Word * Word
           h == Sub!Half
           r == n % Q
           words == Sub!I128ToI256Scval(n)
<1>1. Word \in Nat /\ Word >= 2 /\ Q \in Nat /\ Q >= 2 * Word /\ Q >= 4
  BY SubmissionAssumption
<1>2. h \in Nat /\ h >= 2 /\ 2 * h <= Q
  <2> HIDE DEF Q
  <2>1. h = Q \div 2
    BY DEF Sub!Half, Q
  <2> QED
    BY <1>1, <2>1
<1>3. r \in Nat /\ r = IF n < 0 THEN Q + n ELSE n
  <2>1. CASE n < 0
    <3>1. n = Q * (-1) + (Q + n) /\ Q + n \in 0..(Q - 1)
      <4> HIDE DEF Q
      <4> QED
        BY <1>1, <1>2, <2>1
    <3> HIDE DEF Q
    <3>2. (Q * (-1) + (Q + n)) % Q = Q + n
      BY <1>1, <3>1, Division
    <3> QED
      BY <1>2, <2>1, <3>1, <3>2
  <2>2. CASE n >= 0
    <3>1. n = Q * 0 + n /\ n \in 0..(Q - 1)
      <4> HIDE DEF Q
      <4> QED
        BY <1>1, <1>2, <2>2
    <3> HIDE DEF Q
    <3>2. (Q * 0 + n) % Q = n
      BY <1>1, <3>1, Division
    <3> QED
      BY <1>2, <2>2, <3>1, <3>2
  <2> QED
    BY <1>2, <2>1, <2>2
<1>4. n % Word = r % Word
  <2> DEFINE p == n \div Word
             s == n % Word
  <2>1. p \in Int /\ s \in 0..(Word - 1) /\ n = Word * p + s
    BY <1>1, <1>2
  <2>2. CASE n < 0
    <3> HIDE DEF p, s
    <3>1. r = Word * (Word + p) + s
      BY <1>1, <1>3, <2>1, <2>2
    <3>2. r % Word = s
      <4>1. Word \in Nat \ {0} /\ Word + p \in Int /\ s \in 0..(Word - 1)
        BY <1>1, <2>1
      <4>2. (Word * (Word + p) + s) % Word = s
        BY <4>1, Division
      <4> QED
        BY <3>1, <4>2
    <3> QED
      BY <3>2 DEF s
  <2>3. CASE n >= 0
    BY <1>3, <2>3
  <2> QED
    BY <1>2, <2>2, <2>3
<1> DEFINE a == r \div Word
           b == n % Word
<1>5. a \in Int /\ b \in Int /\ Word * a + b = r
  <2> HIDE DEF r
  <2> QED
    BY <1>1, <1>3, <1>4
<1> DEFINE high == IF n < 0 THEN Word - 1 ELSE 0
<1>6. words = << high, high, a, b >>
  BY DEF Sub!I128ToI256Scval
<1> DEFINE unsigned == ((high * Word + high) * Word + a) * Word + b
           size == Word * Word * Word * Word
<1>7. Sub!I256OfScval(words) = IF 2 * unsigned >= size THEN unsigned - size ELSE unsigned
  <2> HIDE DEF words, a, b, high
  <2> QED
    BY <1>6 DEF Sub!I256OfScval
<1> HIDE DEF words, a, b, h, r
<1>8. size = Q * Q
  BY <1>1
<1>9. CASE n < 0
  <2>1. unsigned = Q * Q - Q + r
    BY <1>1, <1>5, <1>9
  <2>2. n \in Int /\ -h <= n
    BY <1>2 DEF h
  <2>3. Q * Q >= 4 * Q
    <3> HIDE DEF Q
    <3> QED
      BY <1>1
  <2> HIDE DEF Q, unsigned, size
  <2>4. Q * Q \in Nat
    BY <1>1
  <2>5. unsigned = size + n
    BY <1>1, <1>2, <1>3, <1>8, <1>9, <2>1, <2>2, <2>4
  <2>6. 2 * unsigned >= size
    BY <1>1, <1>2, <1>8, <2>2, <2>3, <2>4, <2>5
  <2> QED
    BY <1>2, <1>7, <1>8, <2>2, <2>4, <2>5, <2>6 DEF words
<1>10. CASE n >= 0
  <2>1. unsigned = n
    BY <1>1, <1>3, <1>5, <1>10
  <2>2. Q * Q >= 4 * Q
    <3> HIDE DEF Q
    <3> QED
      BY <1>1
  <2>3. n \in Int /\ n < h
    BY <1>2 DEF h
  <2> HIDE DEF Q, unsigned, size
  <2>4. Q * Q \in Nat
    BY <1>1
  <2> QED
    BY <1>1, <1>2, <1>7, <1>8, <2>1, <2>2, <2>3, <2>4 DEF words
<1> QED
  BY <1>2, <1>9, <1>10 DEF h

LEMMA HalfPositive == Sub!Half \in Nat /\ Sub!Half >= 1
<1> DEFINE Q == Word * Word
<1>1. Q \in Nat /\ Q >= 4
  BY SubmissionAssumption
<1> HIDE DEF Q
<1>2. Sub!Half = Q \div 2
  BY DEF Sub!Half, Q
<1> QED
  BY <1>1, <1>2

\* What is asked of the contract is what the user wants, and its arguments agree
\* with the proof.
LEMMA InvocationMeans ==
    ASSUME NEW want \in Sub!Wants
    PROVE  /\ Sub!ArgumentsAgree(Sub!Invocation(want))
           /\ Sub!Done(Sub!Invocation(want)) = want
<1>1. CASE want \in [kind : {"transact"}, amount : {-Sub!Half, Sub!Half - 1}]
  <2>1. want = [kind |-> "transact", amount |-> want.amount]
    BY <1>1
  <2>2. Sub!I256OfScval(Sub!I128ToI256Scval(want.amount)) = want.amount
    <3>1. want.amount \in -Sub!Half..(Sub!Half - 1)
      BY <1>1, HalfPositive
    <3> QED
      BY <3>1, WordsMeanAmount
  <2> DEFINE words == Sub!I128ToI256Scval(want.amount)
  <2>3. Sub!Invocation(want) =
            [function |-> "transact",
             proof |-> [public_amount |-> want.amount,
                        ext_data_hash |-> [ext_amount |-> words]],
             ext   |-> [ext_amount |-> words]]
    BY <1>1 DEF Sub!Invocation, Sub!HashExtDataOffchain
  <2> HIDE DEF words
  <2> QED
    BY <2>1, <2>2, <2>3 DEF Sub!ArgumentsAgree, Sub!HashExtData, Sub!Done, words
<1>2. CASE want \in [kind : {"register"}, note : {"note key"}, encryption : {"encryption key"}]
  BY <1>2 DEF Sub!Invocation, Sub!RegisterArgs, Sub!RegisterAccountToScval, Sub!ArgumentsAgree,
              Sub!Done, Sub!Registered
<1> QED
  BY <1>1, <1>2 DEF Sub!Wants

-----------------------------------------------------------------------------
(* The steps of a tab.                                                     *)

\* A tab's step keeps what it was asked and what it has sent.
KeepsRequest(f) ==
    /\ ledger' = ledger /\ applied' = applied
    /\ DOMAIN flow' = Flows
    /\ \A g \in Flows \ {f} : flow'[g] = flow[g]
    /\ flow[f].at # "idle" =>
          /\ flow'[f].want = flow[f].want /\ flow'[f].seq = flow[f].seq
          /\ flow'[f].knew = flow[f].knew
    /\ Sent(f) => Sent(f)'

LEMMA TabStep ==
    ASSUME SubmissionInv, NEW f \in Flows, KeepsRequest(f), FlowInv(f)', Truthful(f)',
           \A tx \in network' : tx \in network \/
               (PreparedBy(f, tx) /\ Signed(tx) /\ Sent(f)' /\ flow[f].at # "idle")
    PROVE  SubmissionInv'
<1>1. ledger' = ledger /\ applied' = applied /\ Sub!Ours' = Sub!Ours
      /\ Sub!Sequence' = Sub!Sequence
  BY DEF KeepsRequest, Sub!Ours, Sub!Sequence
<1>2. \A g \in Flows \ {f} : flow'[g] = flow[g]
  BY DEF KeepsRequest
<1>3. ASSUME NEW g \in Flows \ {f}
      PROVE  FlowInv(g)' /\ Truthful(g)' /\ (Sent(g) => Sent(g)')
  <2>1. FlowInv(g) /\ Truthful(g) /\ flow'[g] = flow[g]
    BY <1>2 DEF SubmissionInv
  <2>2. FlowInv(g)'
    BY <1>1, <2>1 DEF FlowInv, Asked, PreparedInv, PreparedBy
  <2>3. Truthful(g)'
    BY <1>1, <2>1 DEF Truthful, Sub!TellsOf, Sub!AppliedFor
  <2>4. Sent(g) => Sent(g)'
    BY <2>1 DEF Sent
  <2> QED
    BY <2>2, <2>3, <2>4
<1>4. \A g \in Flows : FlowInv(g)' /\ Truthful(g)' /\ (Sent(g) => Sent(g)')
  BY <1>3 DEF KeepsRequest
<1>5. ASSUME NEW g \in Flows, NEW tx, PreparedBy(g, tx), flow[g].at # "idle"
      PROVE  PreparedBy(g, tx)' /\ flow'[g].knew = flow[g].knew
  BY <1>2, <1>5 DEF KeepsRequest, PreparedBy
<1>6. \A g \in Flows : Sent(g) => flow[g].at # "idle"
  BY DEF Sent
<1>7. NetworkInv'
  <2> SUFFICES ASSUME NEW tx \in network'
               PROVE  tx.id \in Flows /\ PreparedBy(tx.id, tx)' /\ Signed(tx) /\ Sent(tx.id)'
    BY DEF NetworkInv, Signed
  <2>1. CASE tx \in network
    BY <1>4, <1>5, <1>6, <2>1 DEF SubmissionInv, NetworkInv
  <2>2. CASE PreparedBy(f, tx) /\ Signed(tx) /\ Sent(f)' /\ flow[f].at # "idle"
    <3>1. tx.id = f
      BY <2>2 DEF PreparedBy
    <3> QED
      BY <1>5, <2>2, <3>1
  <2> QED
    BY <2>1, <2>2
<1>8. ASSUME NEW i \in Sub!Ours
      PROVE  IncludedInv(i)'
  <2>1. IncludedInv(i) /\ applied[i].tx.id \in Flows
    BY DEF SubmissionInv, Sub!Ours
  <2>2. PreparedBy(applied[i].tx.id, applied[i].tx) /\ Sent(applied[i].tx.id)
    BY <2>1 DEF IncludedInv
  <2> QED
    BY <1>1, <1>4, <1>5, <1>6, <2>1, <2>2 DEF IncludedInv, TooLate
<1> QED
  BY <1>1, <1>4, <1>7, <1>8 DEF SubmissionInv, KeepsRequest

\* What a tab tells of a transaction that it has not sent is no answer.
LEMMA Told ==
    ASSUME SubmissionInv, NEW f \in Flows, NEW answer, Sub!Tell(f, answer),
           flow[f].at # "idle", UNCHANGED <<ledger, applied>>,
           Sent(f) => answer \notin {"error", "refused"},
           answer \in {"error", "unknown"} \/ Truthful(f)'
    PROVE  KeepsRequest(f) /\ FlowInv(f)' /\ Truthful(f)' /\ flow'[f].at = "told"
           /\ flow'[f].answer = answer
<1>1. /\ DOMAIN flow = Flows /\ FlowInv(f)
  BY DEF SubmissionInv
<1>2. flow' = [flow EXCEPT ![f] = [at |-> "told", answer |-> answer, want |-> flow[f].want,
                                    seq |-> flow[f].seq, knew |-> flow[f].knew]]
  BY DEF Sub!Tell
<1>3. /\ DOMAIN flow' = Flows /\ \A g \in Flows \ {f} : flow'[g] = flow[g]
      /\ flow'[f] = [at |-> "told", answer |-> answer, want |-> flow[f].want,
                     seq |-> flow[f].seq, knew |-> flow[f].knew]
  BY <1>1, <1>2
<1>4. /\ flow'[f].at = "told" /\ flow'[f].answer = answer /\ flow'[f].want = flow[f].want
      /\ flow'[f].seq = flow[f].seq /\ flow'[f].knew = flow[f].knew
  BY <1>3
<1>5. KeepsRequest(f)
  BY <1>3, <1>4 DEF KeepsRequest, Sent
<1>6. FlowInv(f)'
  <2>1. Asked(f)'
    BY <1>1, <1>4 DEF FlowInv, Asked, Sub!Sequence
  <2> QED
    BY <1>4, <2>1 DEF FlowInv, Places
<1>7. Truthful(f)'
  BY <1>4 DEF Truthful, Sub!TellsOf
<1> QED
  BY <1>4, <1>5, <1>6, <1>7

\* account_sequence, simulate_transaction and the wallet's prompts.
LEMMA PreparingSteps ==
    ASSUME SubmissionInv, NEW f \in Flows,
           Sub!ReadAccount(f) \/ Sub!Simulate(f) \/ Sub!SignAuth(f) \/ Sub!SignTransaction(f)
               \/ Sub!Reject(f)
    PROVE  SubmissionInv'
<1>1. /\ DOMAIN flow = Flows /\ FlowInv(f) /\ Sub!Sequence \in Nat /\ ledger \in Nat
      /\ UNCHANGED <<ledger, applied, network>>
  BY DEF SubmissionInv, Sub!Sequence, Sub!ReadAccount, Sub!Simulate, Sub!SignAuth,
         Sub!SignTransaction, Sub!Reject
<1>2. ASSUME KeepsRequest(f), FlowInv(f)', flow'[f].at # "told"
      PROVE  SubmissionInv'
  <2>1. Truthful(f)'
    BY <1>2 DEF Truthful, Sub!TellsOf
  <2> QED
    BY <1>1, <1>2, <2>1, TabStep
<1>3. ASSUME NEW answer, answer \in {"error", "unknown"}, Sub!Tell(f, answer),
             flow[f].at \in {"raw", "prepared"}
      PROVE  SubmissionInv'
  <2>1. flow[f].at # "idle" /\ ~Sent(f)
    BY <1>3 DEF Sent
  <2>2. KeepsRequest(f) /\ FlowInv(f)' /\ Truthful(f)'
    BY <1>1, <1>3, <2>1, Told
  <2> QED
    BY <1>1, <2>2, TabStep
<1>4. CASE Sub!ReadAccount(f)
  <2>1. PICK want \in Sub!Wants :
            flow' = [flow EXCEPT ![f] = [at |-> "raw", want |-> want, seq |-> Sub!NextSequence,
                                            knew |-> Sub!Sequence]]
    BY <1>4 DEF Sub!ReadAccount
  <2>2. flow[f].at = "idle"
    BY <1>4 DEF Sub!ReadAccount, Sub!Idle
  <2>3. /\ DOMAIN flow' = Flows /\ \A g \in Flows \ {f} : flow'[g] = flow[g]
        /\ flow'[f] = [at |-> "raw", want |-> want, seq |-> Sub!Sequence + 1, knew |-> Sub!Sequence]
    BY <1>1, <2>1 DEF Sub!NextSequence
  <2>4. /\ flow'[f].at = "raw" /\ flow'[f].want = want
        /\ flow'[f].seq = Sub!Sequence + 1 /\ flow'[f].knew = Sub!Sequence
    BY <2>3
  <2>5. Sub!Sequence' = Sub!Sequence
    BY <1>1 DEF Sub!Sequence
  <2>6. KeepsRequest(f)
    BY <1>1, <2>2, <2>3 DEF KeepsRequest, Sent
  <2>7. FlowInv(f)'
    BY <1>1, <2>4, <2>5 DEF FlowInv, Asked, Places
  <2> QED
    BY <1>2, <2>4, <2>6, <2>7
<1>5. CASE Sub!Simulate(f)
  <2>1. flow[f].at = "raw"
    BY <1>5 DEF Sub!Simulate
  <2>2. CASE Sub!Tell(f, "error")
    BY <1>3, <2>1, <2>2
  <2>3. ASSUME NEW kinds \in Sub!AuthEntries, NEW minResourceFee \in ResourceFees,
               flow' = [flow EXCEPT ![f] =
                   [at |-> "prepared", want |-> flow[f].want, seq |-> flow[f].seq,
                    knew |-> flow[f].knew, latest |-> ledger,
                    tx |-> [id |-> f, seq |-> flow[f].seq,
                            fee |-> Sub!AssembledFee(minResourceFee),
                            resources |-> minResourceFee,
                            call |-> Sub!Invocation(flow[f].want),
                            auth |-> Sub!Unsigned(kinds)],
                    signatures |-> << >>]]
        PROVE  SubmissionInv'
    <3> DEFINE made == [id |-> f, seq |-> flow[f].seq, fee |-> Sub!AssembledFee(minResourceFee),
                        resources |-> minResourceFee, call |-> Sub!Invocation(flow[f].want),
                        auth |-> Sub!Unsigned(kinds)]
    <3>1. /\ DOMAIN flow' = Flows /\ \A g \in Flows \ {f} : flow'[g] = flow[g]
          /\ flow'[f] = [at |-> "prepared", want |-> flow[f].want, seq |-> flow[f].seq,
                         knew |-> flow[f].knew, latest |-> ledger, tx |-> made,
                         signatures |-> << >>]
      BY <1>1, <2>3
    <3>2. /\ made.id = f /\ made.seq = flow[f].seq /\ made.call = Sub!Invocation(flow[f].want)
          /\ made.resources \in Nat /\ made.fee = BaseFee + made.resources
          /\ made.auth = Sub!Unsigned(kinds) /\ Envelope(made)
      BY SubmissionAssumption DEF Sub!AssembledFee, Envelope
    <3> HIDE DEF made
    <3>3. /\ flow'[f].at = "prepared" /\ flow'[f].want = flow[f].want
          /\ flow'[f].seq = flow[f].seq /\ flow'[f].knew = flow[f].knew
          /\ flow'[f].latest = ledger /\ flow'[f].tx = made /\ flow'[f].signatures = << >>
      BY <3>1
    <3>4. \A i \in DOMAIN made.auth : AuthEntry(made.auth[i]) /\ made.auth[i].signed = "void"
      BY <3>2 DEF Sub!Unsigned, AuthEntry
    <3>5. DOMAIN << >> = {}
      OBVIOUS
    <3>6. PreparedInv(f)'
      BY <1>1, <3>1, <3>2, <3>3, <3>4, <3>5 DEF PreparedInv, PreparedBy
    <3>7. Asked(f)'
      BY <1>1, <2>1, <3>3 DEF Asked, FlowInv, Sub!Sequence
    <3>8. FlowInv(f)'
      BY <3>3, <3>6, <3>7 DEF FlowInv, Places
    <3>9. KeepsRequest(f)
      BY <1>1, <2>1, <3>1, <3>3 DEF KeepsRequest, Sent
    <3> QED
      BY <1>2, <3>3, <3>8, <3>9
  <2> QED
    BY <1>5, <2>2, <2>3 DEF Sub!Simulate
<1>6. CASE Sub!SignAuth(f)
  <2>1. PICK i \in Sub!AuthSignSteps(f) :
            flow' = [flow EXCEPT ![f].signatures =
                [j \in DOMAIN flow[f].signatures \cup {i} |->
                    IF j = i THEN Sub!SorobanAuthPreimage(f, i) ELSE flow[f].signatures[j]]]
    BY <1>6 DEF Sub!SignAuth
  <2>2. flow[f].at = "prepared" /\ PreparedInv(f) /\ Asked(f)
    BY <1>1, <1>6 DEF Sub!SignAuth, FlowInv
  <2> DEFINE grown == [j \in DOMAIN flow[f].signatures \cup {i} |->
                          IF j = i THEN Sub!SorobanAuthPreimage(f, i) ELSE flow[f].signatures[j]]
  <2>3. \A j \in DOMAIN grown :
            grown[j] = SignedFor(flow[f].tx, j, flow[f].latest + AuthExpirationLedgers)
    BY <2>2 DEF PreparedInv, Sub!SorobanAuthPreimage, Sub!AuthExpirationLedger, SignedFor
  <2>4. flow[f] = [at |-> "prepared", want |-> flow[f].want, seq |-> flow[f].seq,
                   knew |-> flow[f].knew, latest |-> flow[f].latest, tx |-> flow[f].tx,
                   signatures |-> flow[f].signatures]
    BY <2>2 DEF PreparedInv
  <2> HIDE DEF grown
  <2>5. /\ DOMAIN flow' = Flows /\ \A g \in Flows \ {f} : flow'[g] = flow[g]
        /\ flow'[f] = [flow[f] EXCEPT !.signatures = grown]
    BY <1>1, <2>1 DEF grown
  <2>6. flow'[f] = [at |-> "prepared", want |-> flow[f].want, seq |-> flow[f].seq,
                    knew |-> flow[f].knew, latest |-> flow[f].latest, tx |-> flow[f].tx,
                    signatures |-> grown]
    BY <2>4, <2>5
  <2>7. /\ flow'[f].at = "prepared" /\ flow'[f].want = flow[f].want
        /\ flow'[f].seq = flow[f].seq /\ flow'[f].knew = flow[f].knew
        /\ flow'[f].latest = flow[f].latest /\ flow'[f].tx = flow[f].tx
        /\ flow'[f].signatures = grown
    BY <2>6
  <2>8. PreparedInv(f)'
    BY <2>2, <2>3, <2>6, <2>7 DEF PreparedInv, PreparedBy
  <2>9. Asked(f)'
    BY <1>1, <2>2, <2>7 DEF Asked, Sub!Sequence
  <2>10. FlowInv(f)'
    BY <2>7, <2>8, <2>9 DEF FlowInv, Places
  <2>11. KeepsRequest(f)
    BY <1>1, <2>2, <2>5, <2>7 DEF KeepsRequest, Sent
  <2> QED
    BY <1>2, <2>7, <2>10, <2>11
<1>7. CASE Sub!SignTransaction(f)
  <2>1. flow[f].at = "prepared" /\ PreparedInv(f) /\ Asked(f) /\ Sub!AuthSignSteps(f) = {}
    BY <1>1, <1>7 DEF Sub!SignTransaction, FlowInv
  <2> DEFINE tx == flow[f].tx
             until == flow[f].latest + AuthExpirationLedgers
             auth == [i \in DOMAIN tx.auth |->
                         IF Sub!NeedsWalletAuth(tx.auth[i])
                         THEN [tx.auth[i] EXCEPT !.signed = flow[f].signatures[i], !.expires = until]
                         ELSE tx.auth[i]]
             signed == [tx EXCEPT !.auth = auth]
  <2>2. flow' = [flow EXCEPT ![f] = [at |-> "signed", want |-> flow[f].want, seq |-> flow[f].seq,
                                     knew |-> flow[f].knew, tx |-> signed]]
    BY <1>7 DEF Sub!SignTransaction, Sub!UnsignedTxForSigning,
                Sub!ApplyAddressAuthSignature, Sub!AuthExpirationLedger
  <2>3. /\ DOMAIN flow' = Flows /\ \A g \in Flows \ {f} : flow'[g] = flow[g]
        /\ flow'[f] = [at |-> "signed", want |-> flow[f].want, seq |-> flow[f].seq,
                       knew |-> flow[f].knew, tx |-> signed]
    BY <1>1, <2>2
  <2>4. until \in Nat
    BY <2>1, SubmissionAssumption DEF PreparedInv
  <2>5. ASSUME NEW i \in DOMAIN auth, auth[i].by = "user"
        PROVE  /\ auth[i].expires \in Nat
               /\ auth[i].signed = SignedFor(tx, i, auth[i].expires)
    <3>1. i \in DOMAIN tx.auth /\ AuthEntry(tx.auth[i]) /\ tx.auth[i].signed = "void"
      BY <2>1, <2>5 DEF PreparedInv
    <3>2. tx.auth[i] = [by |-> tx.auth[i].by, signed |-> tx.auth[i].signed,
                        expires |-> tx.auth[i].expires]
      BY <3>1 DEF AuthEntry
    <3> HIDE DEF tx, until
    <3>3. CASE Sub!NeedsWalletAuth(tx.auth[i])
      <4>1. i \in DOMAIN flow[f].signatures
        BY <2>1, <3>1, <3>3 DEF Sub!AuthSignSteps, tx
      <4>2. flow[f].signatures[i] = SignedFor(tx, i, until)
        BY <2>1, <4>1 DEF PreparedInv, tx, until
      <4>3. auth[i] = [tx.auth[i] EXCEPT !.signed = flow[f].signatures[i], !.expires = until]
        BY <3>1, <3>3
      <4> HIDE DEF auth
      <4>4. auth[i] = [by |-> tx.auth[i].by, signed |-> SignedFor(tx, i, until), expires |-> until]
        BY <3>2, <4>2, <4>3
      <4> QED
        BY <2>4, <4>4
    <3>4. CASE ~Sub!NeedsWalletAuth(tx.auth[i])
      <4>1. auth[i] = tx.auth[i]
        BY <3>1, <3>4
      <4> HIDE DEF auth
      <4> QED
        BY <2>5, <3>1, <3>4, <4>1 DEF Sub!NeedsWalletAuth
    <3> QED
      BY <3>3, <3>4
  <2>6. /\ tx = [id |-> tx.id, seq |-> tx.seq, fee |-> tx.fee, resources |-> tx.resources,
                 call |-> tx.call, auth |-> tx.auth]
        /\ PreparedBy(f, tx)
    BY <2>1 DEF PreparedInv, Envelope
  <2>7. signed = [id |-> tx.id, seq |-> tx.seq, fee |-> tx.fee, resources |-> tx.resources,
                  call |-> tx.call, auth |-> auth]
    <3> HIDE DEF auth, tx
    <3> QED
      BY <2>6
  <2> HIDE DEF auth, signed
  <2>8. PreparedBy(f, signed) /\ Signed(signed)
    <3> HIDE DEF tx
    <3> QED
      BY <2>5, <2>6, <2>7 DEF PreparedBy, Signed, SignedFor
  <2>9. /\ flow'[f].at = "signed" /\ flow'[f].want = flow[f].want
        /\ flow'[f].seq = flow[f].seq /\ flow'[f].knew = flow[f].knew
        /\ flow'[f].tx = signed
    BY <2>3
  <2>10. Asked(f)'
    BY <1>1, <2>1, <2>9 DEF Asked, Sub!Sequence
  <2>11. FlowInv(f)'
    BY <2>8, <2>9, <2>10 DEF FlowInv, PreparedBy, Signed, Places
  <2>12. KeepsRequest(f)
    BY <1>1, <2>1, <2>3, <2>9 DEF KeepsRequest, Sent
  <2> QED
    BY <1>2, <2>9, <2>11, <2>12
<1>8. CASE Sub!Reject(f)
  BY <1>3, <1>8 DEF Sub!Reject
<1> QED
  BY <1>4, <1>5, <1>6, <1>7, <1>8

\* The network takes a tab's transaction, and includes one, under the number that
\* the tab read: nobody else took the number in between.
LEMMA NumberFree ==
    ASSUME SubmissionInv, NEW i \in DOMAIN applied, NEW f \in Flows,
           applied[i].tx.id = f
    PROVE  i \in Sub!Ours /\ IncludedInv(i) /\ Sent(f) /\ flow[f].seq = i
<1>1. i \in Sub!Ours /\ IncludedInv(i)
  BY DEF Sub!Ours, SubmissionInv
<1>2. i \in Nat
  BY DEF SubmissionInv
<1>3. Sent(f) /\ flow[f].knew = i - 1
  BY <1>1 DEF IncludedInv
<1>4. Asked(f)
  BY <1>3 DEF Sent, SubmissionInv, FlowInv
<1> QED
  BY <1>1, <1>2, <1>3, <1>4 DEF Asked

\* submit_tx: a refusal by the node means that the number is taken, as the fee is
\* enough.
LEMMA SendingSteps ==
    ASSUME SubmissionInv, NEW f \in Flows, Sub!SubmitTx(f)
    PROVE  SubmissionInv'
<1> DEFINE tx == flow[f].tx
<1>1. /\ DOMAIN flow = Flows /\ FlowInv(f) /\ Sub!Sequence \in Nat /\ ledger \in Nat
      /\ flow[f].at = "signed" /\ UNCHANGED <<ledger, applied>>
      /\ network' = Sub!Queued(tx)
  BY DEF SubmissionInv, Sub!Sequence, Sub!SubmitTx
<1>2. PreparedBy(f, tx) /\ Signed(tx) /\ Asked(f) /\ ~Sent(f)
  BY <1>1 DEF FlowInv, Sent
<1>3. \A x \in network' : x \in network \/ (x = tx /\ Sub!SendStatus(tx) = "PENDING")
  BY <1>1 DEF Sub!Queued
<1>4. CASE Sub!SendStatus(tx) = "ERROR" /\ Sub!Tell(f, "refused")
  <2>1. tx.seq # Sub!Sequence + 1
    BY <1>2, <1>4, SubmissionAssumption DEF Sub!SendStatus, PreparedBy
  <2>2. flow[f].seq \in 1..Sub!Sequence
    BY <1>1, <1>2, <2>1 DEF PreparedBy, Asked
  <2>3. flow[f].seq \in DOMAIN applied
    BY <2>2 DEF SubmissionInv, Sub!Sequence
  <2>4. applied[flow[f].seq].tx.id # f
    BY <1>2, <2>3, NumberFree
  <2>5. /\ flow'[f] = [at |-> "told", answer |-> "refused", want |-> flow[f].want,
                       seq |-> flow[f].seq, knew |-> flow[f].knew]
    BY <1>1, <1>4 DEF Sub!Tell
  <2>6. flow'[f].at = "told" /\ flow'[f].answer = "refused" /\ flow'[f].seq = flow[f].seq
    BY <2>5
  <2>7. Truthful(f)'
    BY <1>1, <2>2, <2>4, <2>6 DEF Truthful, Sub!TellsOf, Sub!Sequence
  <2>8. KeepsRequest(f) /\ FlowInv(f)'
    BY <1>1, <1>2, <1>4, <2>7, Told
  <2>9. \A x \in network' : x \in network
    BY <1>3, <1>4
  <2> QED
    BY <2>7, <2>8, <2>9, TabStep
<1>5. CASE flow' = [flow EXCEPT ![f] = [at |-> "confirm", want |-> flow[f].want,
                                         seq |-> flow[f].seq, knew |-> flow[f].knew,
                                         tx |-> tx, polls |-> 0]]
  <2>1. /\ DOMAIN flow' = Flows /\ \A g \in Flows \ {f} : flow'[g] = flow[g]
        /\ flow'[f] = [at |-> "confirm", want |-> flow[f].want, seq |-> flow[f].seq,
                       knew |-> flow[f].knew, tx |-> tx, polls |-> 0]
    BY <1>1, <1>5
  <2>2. /\ flow'[f].at = "confirm" /\ flow'[f].want = flow[f].want
        /\ flow'[f].seq = flow[f].seq /\ flow'[f].knew = flow[f].knew
        /\ flow'[f].tx = tx /\ flow'[f].polls = 0
    BY <2>1
  <2> HIDE DEF tx
  <2>3. Asked(f)'
    BY <1>1, <1>2, <2>2 DEF Asked, Sub!Sequence
  <2>4. FlowInv(f)' /\ Sent(f)'
    BY <1>2, <2>1, <2>2, <2>3 DEF FlowInv, PreparedBy, Signed, Places, Sent
  <2>5. KeepsRequest(f)
    BY <1>1, <1>2, <2>1, <2>2 DEF KeepsRequest
  <2>6. Truthful(f)'
    BY <2>2 DEF Truthful, Sub!TellsOf
  <2> QED
    BY <1>1, <1>2, <1>3, <2>4, <2>5, <2>6, TabStep
<1>6. CASE Sub!Tell(f, "unknown")
  <2>1. /\ KeepsRequest(f) /\ FlowInv(f)' /\ Truthful(f)'
        /\ flow'[f].at = "told" /\ flow'[f].answer = "unknown"
    BY <1>1, <1>2, <1>6, Told
  <2>2. Sent(f)'
    BY <2>1 DEF Sent
  <2> HIDE DEF tx
  <2> QED
    BY <1>1, <1>2, <1>3, <2>1, <2>2, TabStep
<1> QED
  BY <1>4, <1>5, <1>6 DEF Sub!SubmitTx

\* confirm_tx: what the node says of the transaction is what the ledger has.
LEMMA PollingSteps ==
    ASSUME SubmissionInv, NEW f \in Flows, Sub!Poll(f)
    PROVE  SubmissionInv'
<1> DEFINE tx == flow[f].tx
<1>1. /\ DOMAIN flow = Flows /\ FlowInv(f) /\ Sub!Sequence \in Nat
      /\ flow[f].at = "confirm" /\ UNCHANGED <<ledger, applied, network>>
  BY DEF SubmissionInv, Sub!Sequence, Sub!Poll
<1>2. PreparedBy(f, tx) /\ Signed(tx) /\ Asked(f) /\ Sent(f)
  BY <1>1 DEF FlowInv, Sent
<1>3. ASSUME NEW answer \in {"unknown", "success", "failed"}, Sub!Tell(f, answer),
             answer = "unknown" \/ Truthful(f)'
      PROVE  SubmissionInv'
  <2>1. KeepsRequest(f) /\ FlowInv(f)' /\ Truthful(f)'
    BY <1>1, <1>2, <1>3, Told
  <2> QED
    BY <1>1, <2>1, TabStep
<1>4. ASSUME NEW answer \in {"success", "failed"}, Sub!Tell(f, answer),
             Sub!ConfirmTx(tx) = answer
      PROVE  Truthful(f)'
  <2>1. /\ flow'[f] = [at |-> "told", answer |-> answer, want |-> flow[f].want,
                       seq |-> flow[f].seq, knew |-> flow[f].knew]
    BY <1>1, <1>4 DEF Sub!Tell
  <2>2. flow'[f].at = "told" /\ flow'[f].answer = answer /\ flow'[f].want = flow[f].want
    BY <2>1
  <2>3. \A i \in DOMAIN applied : applied[i].tx = tx =>
            i \in Sub!Ours /\ applied[i].tx.id = f /\ Sub!Done(applied[i].tx.call) = flow[f].want
            /\ applied[i].outcome \in {"ok", "refused", "badAuth"}
    <3> TAKE i \in DOMAIN applied
    <3> HAVE applied[i].tx = tx
    <3>1. applied[i].tx.id = f /\ applied[i].tx.call = Sub!Invocation(flow[f].want)
      BY <1>2 DEF PreparedBy
    <3>2. i \in Sub!Ours /\ IncludedInv(i)
      BY <3>1, NumberFree
    <3>3. Sub!Done(applied[i].tx.call) = flow[f].want
      BY <1>2, <3>1, InvocationMeans DEF Asked
    <3> QED
      BY <3>1, <3>2, <3>3 DEF IncludedInv
  <2>4. Sub!Ours' = Sub!Ours /\ applied' = applied
    BY <1>1 DEF Sub!Ours
  <2>5. CASE answer = "success"
    <3>1. Sub!Results(tx) = {"ok"}
      BY <1>4, <2>5 DEF Sub!ConfirmTx, Sub!Status
    <3>2. PICK i \in DOMAIN applied : applied[i].tx = tx /\ applied[i].outcome = "ok"
      BY <3>1 DEF Sub!Results
    <3>3. Sub!AppliedFor(f, {"ok"})'
      BY <2>2, <2>3, <2>4, <3>2 DEF Sub!AppliedFor
    <3> QED
      BY <2>2, <2>5, <3>3 DEF Truthful, Sub!TellsOf
  <2>6. CASE answer = "failed"
    <3>1. Sub!Results(tx) # {} /\ Sub!Results(tx) # {"ok"}
      BY <1>4, <2>6 DEF Sub!ConfirmTx, Sub!Status
    <3>2. \E o \in Sub!Results(tx) : o # "ok"
      BY <3>1
    <3>3. PICK i \in DOMAIN applied : applied[i].tx = tx /\ applied[i].outcome # "ok"
      BY <3>2 DEF Sub!Results
    <3>4. Sub!AppliedFor(f, {"refused", "badAuth"})'
      BY <2>2, <2>3, <2>4, <3>3 DEF Sub!AppliedFor
    <3> QED
      BY <2>2, <2>6, <3>4 DEF Truthful, Sub!TellsOf
  <2> QED
    BY <2>5, <2>6
<1>5. CASE flow' = [flow EXCEPT ![f].polls = @ + 1]
  <2>1. flow[f] = [at |-> "confirm", want |-> flow[f].want, seq |-> flow[f].seq,
                   knew |-> flow[f].knew, tx |-> tx, polls |-> flow[f].polls]
    BY <1>1 DEF FlowInv
  <2>2. /\ DOMAIN flow' = Flows /\ \A g \in Flows \ {f} : flow'[g] = flow[g]
        /\ flow'[f] = [flow[f] EXCEPT !.polls = flow[f].polls + 1]
    BY <1>1, <1>5
  <2> HIDE DEF tx
  <2>3. flow'[f] = [at |-> "confirm", want |-> flow[f].want, seq |-> flow[f].seq,
                    knew |-> flow[f].knew, tx |-> tx, polls |-> flow[f].polls + 1]
    BY <2>1, <2>2
  <2>4. /\ flow'[f].at = "confirm" /\ flow'[f].want = flow[f].want
        /\ flow'[f].seq = flow[f].seq /\ flow'[f].knew = flow[f].knew
        /\ flow'[f].tx = tx /\ flow'[f].polls = flow[f].polls + 1
    BY <2>3
  <2>5. Asked(f)'
    BY <1>1, <1>2, <2>4 DEF Asked, Sub!Sequence
  <2>6. FlowInv(f)' /\ Sent(f)'
    BY <1>2, <2>3, <2>4, <2>5 DEF FlowInv, PreparedBy, Signed, Places, Sent
  <2>7. KeepsRequest(f)
    BY <1>1, <2>2, <2>4, <2>6 DEF KeepsRequest
  <2>8. Truthful(f)'
    BY <2>4 DEF Truthful, Sub!TellsOf
  <2> QED
    BY <1>1, <2>6, <2>7, <2>8, TabStep
<1>6. Sub!ConfirmTx(tx) \in {"success", "failed", "pending"}
  BY DEF Sub!ConfirmTx
<1> HIDE DEF tx
<1>7. ASSUME Sub!ConfirmTx(tx) # "pending", Sub!Tell(f, Sub!ConfirmTx(tx))
      PROVE  SubmissionInv'
  <2>1. CASE Sub!ConfirmTx(tx) = "success"
    BY <1>3, <1>4, <1>7, <2>1
  <2>2. CASE Sub!ConfirmTx(tx) = "failed"
    BY <1>3, <1>4, <1>7, <2>2
  <2> QED
    BY <1>6, <1>7, <2>1, <2>2
<1> QED
  BY <1>3, <1>5, <1>7 DEF Sub!Poll, tx

\* The network includes a transaction of the account, in either way.
LEMMA Appended ==
    ASSUME SubmissionInv, NEW entry, applied' = Append(applied, entry),
           UNCHANGED <<ledger, flow>>, network' \subseteq network,
           entry.tx.id \in Flows =>
               /\ PreparedBy(entry.tx.id, entry.tx) /\ Sent(entry.tx.id)
               /\ flow[entry.tx.id].knew = Sub!Sequence
               /\ entry.outcome \in {"ok", "refused", "badAuth"}
               /\ entry.outcome = "badAuth" => TooLate(entry)
    PROVE  SubmissionInv'
<1> DEFINE S == {applied[i] : i \in DOMAIN applied} \cup {entry}
<1>1. applied \in Seq(S) /\ entry \in S
  BY DEF SubmissionInv
<1> HIDE DEF S
<1>2. /\ applied' \in Seq(S) /\ Len(applied) \in Nat /\ Len(applied') = Len(applied) + 1
      /\ DOMAIN applied = 1..Len(applied) /\ DOMAIN applied' = 1..(Len(applied) + 1)
      /\ \A i \in DOMAIN applied : i \in DOMAIN applied' /\ applied'[i] = applied[i]
      /\ applied'[Len(applied) + 1] = entry
  BY <1>1
<1>3. applied' \in Seq({applied'[i] : i \in DOMAIN applied'})
  <2> DEFINE T == {applied'[i] : i \in DOMAIN applied'}
  <2>1. Seq(S) = UNION {[1..m -> S] : m \in Nat} /\ Seq(T) = UNION {[1..m -> T] : m \in Nat}
    BY SeqDef
  <2>2. PICK m \in Nat : applied' \in [1..m -> S]
    BY <1>2, <2>1, Zenon
  <2>3. applied' \in [1..m -> T]
    BY <2>2
  <2> HIDE DEF T
  <2>4. applied' \in Seq(T)
    BY <2>1, <2>2, <2>3, Zenon
  <2> QED
    BY <2>4 DEF T
<1>4. ASSUME NEW g \in Flows
      PROVE  FlowInv(g)' /\ Truthful(g)'
  <2>1. FlowInv(g) /\ Truthful(g)
    BY DEF SubmissionInv
  <2>2. Asked(g) => Asked(g)'
    BY <1>2 DEF Asked, Sub!Sequence
  <2>3. FlowInv(g)'
    BY <2>1, <2>2 DEF FlowInv, PreparedInv, PreparedBy
  <2>4. \A o : Sub!AppliedFor(g, o) => Sub!AppliedFor(g, o)'
    BY <1>2 DEF Sub!AppliedFor, Sub!Ours
  <2>5. ASSUME Sub!TellsOf(g, "refused")
        PROVE  flow[g].seq <= Len(applied') /\ applied'[flow[g].seq].tx.id # g
    <3>1. flow[g].seq <= Len(applied) /\ applied[flow[g].seq].tx.id # g /\ Asked(g)
      BY <2>1, <2>5 DEF Truthful, FlowInv, Sub!TellsOf, Sub!Sequence
    <3>2. flow[g].seq \in DOMAIN applied
      BY <1>2, <3>1 DEF Asked, Sub!Sequence
    <3> QED
      BY <1>2, <3>1, <3>2
  <2> QED
    BY <2>1, <2>3, <2>4, <2>5 DEF Truthful, Sub!TellsOf, Sub!Sequence
<1>5. NetworkInv'
  BY DEF SubmissionInv, NetworkInv, PreparedBy, Sent
<1>6. ASSUME NEW i \in Sub!Ours'
      PROVE  IncludedInv(i)'
  <2>1. i \in DOMAIN applied' /\ applied'[i].tx.id \in Flows
    BY DEF Sub!Ours
  <2>2. CASE i \in DOMAIN applied
    <3>1. applied'[i] = applied[i] /\ i \in Sub!Ours
      BY <1>2, <2>1, <2>2 DEF Sub!Ours
    <3>2. IncludedInv(i)
      BY <3>1 DEF SubmissionInv
    <3> QED
      BY <3>1, <3>2 DEF IncludedInv, PreparedBy, Sent, TooLate
  <2>3. CASE i = Len(applied) + 1
    <3>1. applied'[i] = entry /\ i - 1 = Sub!Sequence
      BY <1>2, <2>3 DEF Sub!Sequence
    <3> QED
      BY <2>1, <3>1 DEF IncludedInv, PreparedBy, Sent, TooLate
  <2> QED
    BY <1>2, <2>1, <2>2, <2>3
<1> QED
  BY <1>3, <1>4, <1>5, <1>6 DEF SubmissionInv

LEMMA NetworkSteps ==
    ASSUME SubmissionInv,
           \/ \E tx \in network : Sub!Include(tx) \/ Sub!Drop(tx)
           \/ Sub!CloseLedger \/ Sub!SpendElsewhere
    PROVE  SubmissionInv'
<1>1. Sub!Sequence \in Nat /\ ledger \in Nat
  BY DEF SubmissionInv, Sub!Sequence
<1>2. ASSUME NEW tx \in network, Sub!Include(tx)
      PROVE  SubmissionInv'
  <2>1. /\ tx.id \in Flows /\ PreparedBy(tx.id, tx) /\ Signed(tx) /\ Sent(tx.id)
    BY DEF SubmissionInv, NetworkInv
  <2>2. Asked(tx.id)
    BY <2>1 DEF Sent, SubmissionInv, FlowInv
  <2>3. flow[tx.id].knew = Sub!Sequence
    BY <1>1, <1>2, <2>1, <2>2 DEF Sub!Include, PreparedBy, Asked
  <2>4. PICK outcome \in Sub!Outcomes(tx) :
            applied' = Append(applied, [tx |-> tx, outcome |-> outcome, ledger |-> ledger])
    BY <1>2 DEF Sub!Include
  <2>5. Sub!ArgumentsAgree(tx.call)
    BY <2>1, <2>2, InvocationMeans DEF PreparedBy, Asked
  <2>6. outcome \in {"ok", "refused", "badAuth"}
    BY <2>4, <2>5 DEF Sub!Outcomes
  <2>7. outcome = "badAuth" => ~Sub!Authorized(tx)
    BY <2>5 DEF Sub!Outcomes
  <2>8. ~Sub!Authorized(tx) => \E k \in DOMAIN tx.auth :
            tx.auth[k].by = "user" /\ ledger > tx.auth[k].expires
    BY <1>1, <2>1 DEF Sub!Authorized, Signed, SignedFor
  <2> DEFINE entry == [tx |-> tx, outcome |-> outcome, ledger |-> ledger]
  <2>9. entry.tx = tx /\ entry.outcome = outcome /\ entry.ledger = ledger
    OBVIOUS
  <2> HIDE DEF entry
  <2>10. entry.outcome = "badAuth" => TooLate(entry)
    BY <2>7, <2>8, <2>9 DEF TooLate
  <2>11. applied' = Append(applied, entry)
    BY <2>4 DEF entry
  <2>12. UNCHANGED <<ledger, flow>> /\ network' \subseteq network
    BY <1>2 DEF Sub!Include
  <2> QED
    BY <2>1, <2>3, <2>6, <2>9, <2>10, <2>11, <2>12, Appended
<1>3. ASSUME UNCHANGED <<applied, flow>>, network' \subseteq network, ledger' \in Nat
      PROVE  SubmissionInv'
  <2>1. \A g \in Flows : FlowInv(g)' /\ Truthful(g)'
    BY <1>3 DEF SubmissionInv, FlowInv, Truthful, Asked, PreparedInv, PreparedBy, Sub!Sequence,
                Sub!TellsOf, Sub!AppliedFor, Sub!Ours
  <2>2. NetworkInv'
    BY <1>3 DEF SubmissionInv, NetworkInv, PreparedBy, Sent
  <2>3. \A i \in Sub!Ours' : IncludedInv(i)'
    BY <1>3 DEF SubmissionInv, Sub!Ours, IncludedInv, PreparedBy, Sent, TooLate
  <2> QED
    BY <1>3, <2>1, <2>2, <2>3 DEF SubmissionInv
<1>4. ASSUME NEW tx \in network, Sub!Drop(tx)
      PROVE  SubmissionInv'
  BY <1>1, <1>3, <1>4 DEF Sub!Drop
<1>5. CASE Sub!CloseLedger
  BY <1>1, <1>3, <1>5 DEF Sub!CloseLedger
<1>6. CASE Sub!SpendElsewhere
  <2> DEFINE entry == [tx |-> [id |-> Elsewhere], outcome |-> "ok", ledger |-> ledger]
  <2>1. applied' = Append(applied, entry) /\ UNCHANGED <<ledger, flow, network>>
    BY <1>6 DEF Sub!SpendElsewhere
  <2>2. entry.tx.id \notin Flows
    BY SubmissionAssumption
  <2> HIDE DEF entry
  <2> QED
    BY <2>1, <2>2, Appended
<1> QED
  BY <1>2, <1>4, <1>5, <1>6

\* No step of the tabs and the network leads out of the inductive invariant.
THEOREM SubmissionInvariant == AllSpec => [](part = "submission" => SubmissionInv)
<1>1. AllInit => (part = "submission" => SubmissionInv)
  <2> SUFFICES ASSUME Sub!SubInit
               PROVE  SubmissionInv
    BY DEF AllInit
  <2>1. /\ applied = << >> /\ DOMAIN << >> = {} /\ network = {} /\ ledger = 1
        /\ flow = [f \in Flows |-> Sub!Idle]
    BY DEF Sub!SubInit
  <2>2. applied \in Seq({applied[i] : i \in DOMAIN applied})
    BY <2>1
  <2>3. \A f \in Flows : flow[f].at = "idle" /\ flow[f] = Sub!Idle
    BY <2>1 DEF Sub!Idle
  <2>4. \A f \in Flows : FlowInv(f) /\ Truthful(f)
    BY <2>3 DEF FlowInv, Truthful, Places, Sub!TellsOf
  <2> QED
    BY <2>1, <2>2, <2>4 DEF SubmissionInv, NetworkInv, Sub!Ours
<1>2. ASSUME part = "submission" => SubmissionInv, [AllNext]_<<part, vars, subVars, eventVars>>
      PROVE  (part = "submission" => SubmissionInv)'
  <2> SUFFICES ASSUME part' = "submission"
               PROVE  SubmissionInv'
    OBVIOUS
  <2>1. part' = part
    BY <1>2 DEF AllNext
  <2>2. CASE Sub!SubNext
    BY <1>2, <2>1, <2>2, PreparingSteps, SendingSteps, PollingSteps, NetworkSteps
       DEF Sub!SubNext, Sub!FlowNext
  <2>3. CASE UNCHANGED subVars
    <3>1. /\ ledger' = ledger /\ applied' = applied /\ network' = network /\ flow' = flow
          /\ SubmissionInv
      BY <1>2, <2>1, <2>3 DEF subVars
    <3> QED
      BY <3>1 DEF SubmissionInv, FlowInv, Truthful, Asked, PreparedInv, PreparedBy, Sub!Sequence,
          Sub!TellsOf, Sub!AppliedFor, Sub!Ours, NetworkInv, Sent, IncludedInv, TooLate
  <2> QED
    BY <1>2, <2>1, <2>2, <2>3 DEF AllNext
<1> QED
  BY <1>1, <1>2, PTL DEF AllSpec

\* submit_tx and confirm_tx: what a tab tells its user of a transaction is so, for
\* any number of tabs, whatever is lost, late or sent elsewhere.
THEOREM TabsAnswerTruly == AllSpec => []AnswersAreTrue
<1>1. (part = "submission" => SubmissionInv) => AnswersAreTrue
  BY DEF SubmissionInv, Truthful, AnswersAreTrue, Sub!AnswersAreTrue
<1> QED
  BY <1>1, SubmissionInvariant, PTL

\* auth_expiration_ledger, next_sequence and i128_to_i256_scval: what is included
\* executes as it was prepared, with arguments that agree with its proof, under the
\* number its tab read, and only an authorization that waited too long is refused.
THEOREM TransactionsExecuteAsPrepared == AllSpec => []ExecutedAsPrepared
<1>1. SubmissionInv => Sub!ExecutedAsPrepared
  <2> SUFFICES ASSUME SubmissionInv, NEW i \in Sub!Ours
               PROVE  /\ applied[i].outcome # "badArguments"
                      /\ applied[i].outcome = "badAuth" =>
                           \E k \in DOMAIN applied[i].tx.auth :
                               /\ applied[i].tx.auth[k].by = "user"
                               /\ applied[i].ledger > applied[i].tx.auth[k].expires
                      /\ flow[applied[i].tx.id].knew = i - 1
    BY DEF Sub!ExecutedAsPrepared
  <2>1. IncludedInv(i)
    BY DEF SubmissionInv
  <2> QED
    BY <2>1 DEF IncludedInv, TooLate
<1>2. (part = "submission" => SubmissionInv) => ExecutedAsPrepared
  BY <1>1 DEF ExecutedAsPrepared
<1> QED
  BY <1>2, SubmissionInvariant, PTL

-----------------------------------------------------------------------------
(* Events.                                                                 *)

\* scval_to_u256 puts the four limbs together again.
LEMMA LimbsMeanNumber ==
    ASSUME NEW u \in Nat
    PROVE  Event!ScvalToU256(Event!U256Scval(u)) = u
<1> DEFINE high == u \div LimbWord
           top  == high \div LimbWord
<1>1. LimbWord \in Nat /\ LimbWord > 0
  BY EventAssumption
<1>2. high \in Nat /\ u = high * LimbWord + (u % LimbWord)
  BY <1>1
<1>3. top \in Nat /\ high = top * LimbWord + (high % LimbWord)
  <2> HIDE DEF high
  <2> QED
    BY <1>1, <1>2
<1>4. top = (top \div LimbWord) * LimbWord + (top % LimbWord)
  <2> HIDE DEF top
  <2> QED
    BY <1>1, <1>3
<1>5. Event!ScvalToU256(Event!U256Scval(u))
        = (((top \div LimbWord) * LimbWord + (top % LimbWord)) * LimbWord
             + (high % LimbWord)) * LimbWord + (u % LimbWord)
  BY DEF Event!ScvalToU256, Event!U256Scval
<1> HIDE DEF high, top
<1> QED
  BY <1>2, <1>3, <1>4, <1>5

\* Field::try_from_u256 refuses no number that a contract accepted.
LEMMA FieldsPass ==
    ASSUME NEW u \in Nat, u < Modulus
    PROVE  Event!FieldOf(Event!U256Scval(u)) = Event!Parsed(u)
<1>1. Event!U256Scval(u).scval = "U256"
  BY DEF Event!U256Scval
<1> QED
  BY <1>1, LimbsMeanNumber, EventAssumption DEF Event!FieldOf, Event!TryFromU256

\* Whatever a contract accepts, its numbers are in the field.
LEMMA NumbersInField ==
    ASSUME NEW u \in Event!U256s
    PROVE  u \in Nat
BY EventAssumption DEF Event!U256s

\* split(',') at the next piece of a text.
Piece(s, t) == IF t = Event!Comma THEN s ELSE Append(s, t)

LEMMA AppendLast ==
    ASSUME NEW S, NEW s \in Seq(S), NEW e \in S
    PROVE  Append(s, e)[Len(s) + 1] = e
OBVIOUS

LEMMA AppendSecond ==
    ASSUME NEW S, NEW s \in Seq(S), NEW e \in S, Len(s) = 1
    PROVE  Append(s, e) = <<s[1], e>>
<1> DEFINE t == Append(s, e)
<1>1. /\ t \in Seq(S) /\ Len(t) = Len(s) + 1
      /\ \A i \in 1..Len(s) : t[i] = s[i]
      /\ t[Len(s) + 1] = e
  <2>1. t \in Seq(S)
    OBVIOUS
  <2>2. Len(t) = Len(s) + 1
    OBVIOUS
  <2>3. t[1] = s[1]
    OBVIOUS
  <2>4. t[Len(s) + 1] = e
    BY AppendLast, Zenon
  <2>5. 1..Len(s) = {1} /\ Len(s) + 1 = 2
    OBVIOUS
  <2> HIDE DEF t
  <2> QED
    BY <2>1, <2>2, <2>3, <2>4, <2>5
<1> HIDE DEF t
<1>2. Len(t) = 2 /\ t[1] = s[1] /\ t[2] = e
  BY <1>1
<1>3. t = [i \in 1..2 |-> t[i]]
  BY <1>1, <1>2
<1>4. t = <<t[1], t[2]>>
  BY <1>3
<1> QED
  BY <1>2, <1>4 DEF t

LEMMA AppendPieces ==
    ASSUME NEW a, NEW b
    PROVE  Append(<< >>, a) = <<a>> /\ Append(<<a>>, b) = <<a, b>>
<1> DEFINE S == {a, b}
           s == <<a>>
<1>1. << >> \in Seq(S) /\ s \in Seq(S) /\ a \in S /\ b \in S /\ Len(s) = 1 /\ s[1] = a
  OBVIOUS
<1> HIDE DEF S, s
<1>2. Append(<< >>, a) = <<a>>
  BY <1>1
<1>3. Append(s, b) = <<s[1], b>>
  BY <1>1, AppendSecond
<1> QED
  BY <1>1, <1>2, <1>3 DEF s

\* Topics contain no comma, so split takes apart what join put together: for the
\* one or two topics that the contracts' events have.
LEMMA SplitUndoesJoin ==
    ASSUME NEW n \in 1..2, NEW topics, topics = [i \in 1..n |-> topics[i]]
    PROVE  Event!Split(Event!Joined(topics)) = [i \in 1..n |-> Event!Base64(topics[i])]
<1> DEFINE text == Event!Joined(topics)
           F(f) == [k \in 0..Len(text) |-> IF k = 0 THEN << >> ELSE Piece(f[k - 1], text[k])]
           split == CHOOSE f : f = F(f)
           first == Event!Base64(topics[1])
           second == Event!Base64(topics[2])
           g == [k \in 0..Len(text) |-> IF k = 0 THEN << >>
                                        ELSE IF k = 3 THEN <<first, second>> ELSE <<first>>]
<1>1. Len(topics) = n
  OBVIOUS
<1>2. text = [i \in 1..(2 * n - 1) |->
                IF i % 2 = 1 THEN Event!Base64(topics[(i + 1) \div 2]) ELSE Event!Comma]
  BY <1>1 DEF Event!Joined
<1>3. Event!Split(text) = split[Len(text)]
  BY DEF Event!Split, Piece
<1> HIDE DEF text
<1>4. Len(text) = 2 * n - 1 /\ 2 * n - 1 \in {1, 3}
  BY <1>2
<1>5. /\ text[1] = first
      /\ n = 2 => text[2] = Event!Comma /\ text[3] = second
  <2>1. 1 \in 1..(2 * n - 1) /\ 1 % 2 = 1 /\ (1 + 1) \div 2 = 1
    OBVIOUS
  <2>2. text[1] = first
    BY <1>2, <2>1
  <2>3. n = 2 => /\ 2 \in 1..(2 * n - 1) /\ 2 % 2 # 1
                 /\ 3 \in 1..(2 * n - 1) /\ 3 % 2 = 1 /\ (3 + 1) \div 2 = 2
    OBVIOUS
  <2>4. n = 2 => text[2] = Event!Comma /\ text[3] = second
    BY <1>2, <2>3
  <2> QED
    BY <2>2, <2>4
<1>6. \A x : Event!Base64(x) # Event!Comma
  <2>1. \A x : Event!Base64(x).text = "base64" /\ Event!Comma.text = ","
    BY DEF Event!Base64, Event!Comma
  <2>2. "base64" # ","
    OBVIOUS
  <2> QED
    BY <2>1, <2>2
<1>7. first # Event!Comma /\ second # Event!Comma
  BY <1>6
<1> HIDE DEF first, second
<1>a. Append(<< >>, first) = <<first>> /\ Append(<<first>>, second) = <<first, second>>
  BY AppendPieces
<1>8. \A s : /\ Piece(s, first) = Append(s, first) /\ Piece(s, second) = Append(s, second)
             /\ Piece(s, Event!Comma) = s
  BY <1>7 DEF Piece
<1>9. g = F(g)
  <2>1. \A k \in 0..Len(text) : k = 0 \/ k = 1 \/ (n = 2 /\ (k = 2 \/ k = 3))
    BY <1>4
  <2>2. /\ 0 \in 0..Len(text) /\ g[0] = << >>
        /\ 1 \in 0..Len(text) /\ g[1] = <<first>>
        /\ n = 2 => /\ 2 \in 0..Len(text) /\ g[2] = <<first>>
                   /\ 3 \in 0..Len(text) /\ g[3] = <<first, second>>
    BY <1>4
  <2>3. g = [k \in 0..Len(text) |-> g[k]]
    OBVIOUS
  <2> HIDE DEF g
  <2>4. g[1] = Piece(g[0], text[1])
    BY <1>5, <1>8, <1>a, <2>2
  <2>5. n = 2 => g[2] = Piece(g[1], text[2]) /\ g[3] = Piece(g[2], text[3])
    BY <1>5, <1>8, <1>a, <2>2
  <2>6. \A k \in 0..Len(text) : g[k] = IF k = 0 THEN << >> ELSE Piece(g[k - 1], text[k])
    BY <2>1, <2>2, <2>4, <2>5
  <2> QED
    BY <2>3, <2>6
<1> HIDE DEF g
<1>10. split = F(split)
  BY <1>9, Zenon
<1> HIDE DEF split
<1>11. /\ split[0] = << >> /\ split[1] = Piece(split[0], text[1])
       /\ n = 2 => split[2] = Piece(split[1], text[2]) /\ split[3] = Piece(split[2], text[3])
  <2>1. \A k \in 0..Len(text) :
           split[k] = IF k = 0 THEN << >> ELSE Piece(split[k - 1], text[k])
    BY <1>10
  <2>2. /\ 0 \in 0..Len(text) /\ 1 \in 0..Len(text)
        /\ n = 2 => 2 \in 0..Len(text) /\ 3 \in 0..Len(text)
    BY <1>4
  <2> HIDE DEF F
  <2> QED
    BY <2>1, <2>2
<1>12. split[1] = <<first>>
  BY <1>5, <1>8, <1>11, <1>a
<1>13. CASE n = 1
  <2>1. Event!Split(text) = <<first>>
    BY <1>3, <1>4, <1>12, <1>13
  <2> QED
    BY <1>13, <2>1 DEF first, text
<1>14. CASE n = 2
  <2>a. split[2] = <<first>>
    <3>1. split[2] = Piece(split[1], Event!Comma)
      BY <1>5, <1>11, <1>14
    <3> QED
      BY <3>1, <1>8, <1>12
  <2>1. split[3] = <<first, second>>
    <3>1. split[3] = Piece(<<first>>, second)
      BY <2>a, <1>5, <1>11, <1>14
    <3> QED
      BY <3>1, <1>8, <1>a
  <2>2. Event!Split(text) = <<first, second>>
    BY <1>3, <1>4, <1>14, <2>1
  <2> QED
    BY <1>14, <2>2 DEF first, second, text
<1> QED
  BY <1>13, <1>14

Name(name) == Event!Scval("Symbol", name)

\* What is fetched of an event, and how it looks to the parser.
Fetched(event) ==
    [topics |-> Event!Split(Event!Joined(event.topics)), value |-> Event!Base64(event.value)]

LEMMA FetchedWithTopic ==
    ASSUME NEW name, NEW t, NEW v
    PROVE  Event!ParseEventMetadata(Fetched([topics |-> <<Name(name), t>>, value |-> v]))
             = [name |-> name, topics |-> [i \in 1..1 |-> t], values |-> v]
<1> DEFINE topics == <<Name(name), t>>
           split == Event!Split(Event!Joined(topics))
           event == [topics |-> split, value |-> Event!Base64(v)]
<1>1. topics = [i \in 1..2 |-> topics[i]] /\ topics[1] = Name(name) /\ topics[2] = t
  OBVIOUS
<1>2. Fetched([topics |-> topics, value |-> v]) = event
  BY DEF Fetched
<1> HIDE DEF topics
<1>3. split = [i \in 1..2 |-> Event!Base64(topics[i])]
  <2>1. 2 \in 1..2
    OBVIOUS
  <2> QED
    BY <1>1, <2>1, SplitUndoesJoin
<1> HIDE DEF split
<1>4. /\ Len(split) = 2
      /\ split[1] = Event!Base64(Name(name)) /\ split[2] = Event!Base64(t)
  BY <1>1, <1>3
<1>5. Event!Base64(Name(name)).of.value = name /\ Event!Base64(t).of = t /\ Event!Base64(v).of = v
  BY DEF Event!Base64, Name, Event!Scval
<1>6. Event!ParseEventMetadata(event)
        = [name |-> name, topics |-> [i \in 1..(2 - 1) |-> split[i + 1].of], values |-> v]
  BY <1>4, <1>5 DEF Event!ParseEventMetadata
<1>7. [i \in 1..(2 - 1) |-> split[i + 1].of] = [i \in 1..1 |-> t]
  BY <1>4, <1>5
<1> QED
  BY <1>2, <1>6, <1>7 DEF topics

LEMMA FetchedWithName ==
    ASSUME NEW name, NEW v
    PROVE  Event!ParseEventMetadata(Fetched([topics |-> <<Name(name)>>, value |-> v]))
             = [name |-> name, topics |-> << >>, values |-> v]
<1> DEFINE topics == <<Name(name)>>
           split == Event!Split(Event!Joined(topics))
           event == [topics |-> split, value |-> Event!Base64(v)]
<1>1. topics = [i \in 1..1 |-> topics[i]] /\ topics[1] = Name(name)
  OBVIOUS
<1>2. Fetched([topics |-> topics, value |-> v]) = event
  BY DEF Fetched
<1> HIDE DEF topics
<1>3. split = [i \in 1..1 |-> Event!Base64(topics[i])]
  <2>1. 1 \in 1..2
    OBVIOUS
  <2> QED
    BY <1>1, <2>1, SplitUndoesJoin
<1> HIDE DEF split
<1>4. Len(split) = 1 /\ split[1] = Event!Base64(Name(name))
  BY <1>1, <1>3
<1>5. Event!Base64(Name(name)).of.value = name /\ Event!Base64(v).of = v
  BY DEF Event!Base64, Name, Event!Scval
<1>6. Event!ParseEventMetadata(event)
        = [name |-> name, topics |-> [i \in 1..(1 - 1) |-> split[i + 1].of], values |-> v]
  BY <1>4, <1>5 DEF Event!ParseEventMetadata
<1>7. [i \in 1..(1 - 1) |-> split[i + 1].of] = << >>
  OBVIOUS
<1> QED
  BY <1>2, <1>6, <1>7 DEF topics

\* The row of a call: its fields.
Row(call) == [f \in DOMAIN call \ {"fn"} |-> call[f]]

\* Where every field is parsed to what the call said, so is the event.
LEMMA FieldsMakeRow ==
    ASSUME NEW call, NEW event, NEW fields,
           fields = Event!ParsedFields(Event!ParseEventMetadata(event)),
           DOMAIN fields = DOMAIN call \ {"fn"},
           \A f \in DOMAIN fields : fields[f] = Event!Parsed(call[f])
    PROVE  Event!ParseEvent(event) = Event!Parsed(Row(call))
<1>1. \A f \in DOMAIN fields : ~fields[f].failed /\ fields[f].value = call[f]
  BY DEF Event!Parsed
<1>2. [f \in DOMAIN fields |-> fields[f].value] = Row(call)
  BY <1>1 DEF Row
<1> QED
  BY <1>1, <1>2 DEF Event!ParseEvent

\* Whatever a contract accepts, the parser reads what was said.
Understands(call) ==
    Event!ParseEvent(Fetched(Event!Published(call))) = Event!Parsed(Row(call))

LEMMA SpendUnderstood ==
    ASSUME NEW u \in Event!U256s, NEW call, call = [fn |-> "spend", nullifier |-> u],
           Event!Executes(call)
    PROVE  Understands(call)
<1> DEFINE event == Fetched(Event!Published(call))
           fields == Event!ParsedFields(Event!ParseEventMetadata(event))
<1>1. u < Modulus /\ u \in Nat
  <2>1. u < Modulus
    BY DEF Event!Executes, Event!ValidPublicInput
  <2> QED
    BY <2>1, NumbersInField
<1>2. Event!Published(call)
        = [topics |-> <<Name("new_nullifier_event"), Event!U256Scval(u)>>, value |-> << >>]
  BY DEF Event!Published, Name
<1>3. Event!ParseEventMetadata(event)
        = [name |-> "new_nullifier_event", topics |-> [i \in 1..1 |-> Event!U256Scval(u)],
           values |-> << >>]
  BY <1>2, FetchedWithTopic
<1> HIDE DEF event
<1>4. fields = [nullifier |-> Event!FieldOf(Event!U256Scval(u))]
  BY <1>3 DEF Event!ParsedFields
<1>5. Event!FieldOf(Event!U256Scval(u)) = Event!Parsed(u)
  BY <1>1, FieldsPass
<1> HIDE DEF fields
<1>6. /\ DOMAIN fields = DOMAIN call \ {"fn"}
      /\ \A f \in DOMAIN fields : fields[f] = Event!Parsed(call[f])
  BY <1>4, <1>5
<1> QED
  BY <1>6, FieldsMakeRow DEF Understands, fields, event

LEMMA CommitUnderstood ==
    ASSUME NEW u \in Event!U256s, NEW i, NEW o, NEW call,
           call = [fn |-> "commit", commitment |-> u, index |-> i, encrypted_output |-> o],
           Event!Executes(call)
    PROVE  Understands(call)
<1> DEFINE event == Fetched(Event!Published(call))
           fields == Event!ParsedFields(Event!ParseEventMetadata(event))
           v == [index |-> Event!Scval("U32", i), encrypted_output |-> Event!Scval("Bytes", o)]
<1>1. u < Modulus /\ u \in Nat
  <2>1. u < Modulus
    BY DEF Event!Executes, Event!ValidPublicInput
  <2> QED
    BY <2>1, NumbersInField
<1>2. Event!Published(call)
        = [topics |-> <<Name("new_commitment_event"), Event!U256Scval(u)>>, value |-> v]
  BY DEF Event!Published, Name
<1> HIDE DEF v
<1>3. Event!ParseEventMetadata(event)
        = [name |-> "new_commitment_event", topics |-> [k \in 1..1 |-> Event!U256Scval(u)],
           values |-> v]
  BY <1>2, FetchedWithTopic
<1> HIDE DEF event
<1>4. fields = [commitment       |-> Event!FieldOf(Event!U256Scval(u)),
                index            |-> Event!TypedOf("U32", v.index),
                encrypted_output |-> Event!TypedOf("Bytes", v.encrypted_output)]
  BY <1>3 DEF Event!ParsedFields
<1>5. Event!FieldOf(Event!U256Scval(u)) = Event!Parsed(u)
  BY <1>1, FieldsPass
<1>6. /\ Event!TypedOf("U32", v.index) = Event!Parsed(i)
      /\ Event!TypedOf("Bytes", v.encrypted_output) = Event!Parsed(o)
  BY DEF v, Event!TypedOf, Event!Scval
<1> HIDE DEF fields
<1>7. /\ DOMAIN fields = DOMAIN call \ {"fn"}
      /\ \A f \in DOMAIN fields : fields[f] = Event!Parsed(call[f])
  BY <1>4, <1>5, <1>6
<1> QED
  BY <1>7, FieldsMakeRow DEF Understands, fields, event

LEMMA RegisterUnderstood ==
    ASSUME NEW w, NEW e \in Event!KeyBytes, NEW n \in Event!KeyBytes, NEW call,
           call = [fn |-> "register", owner |-> w, encryption_key |-> e, note_key |-> n],
           Event!Executes(call)
    PROVE  Understands(call)
<1> DEFINE event == Fetched(Event!Published(call))
           fields == Event!ParsedFields(Event!ParseEventMetadata(event))
           v == [encryption_key |-> Event!Scval("Bytes", e), note_key |-> Event!Scval("Bytes", n)]
<1>1. e[1] = KeyLength /\ n[1] = KeyLength
  BY DEF Event!Executes, Event!LengthsOk
<1>2. Event!Published(call)
        = [topics |-> <<Name("public_key_event"), Event!Scval("Address", w)>>, value |-> v]
  BY DEF Event!Published, Name
<1> HIDE DEF v
<1>3. Event!ParseEventMetadata(event)
        = [name |-> "public_key_event", topics |-> [k \in 1..1 |-> Event!Scval("Address", w)],
           values |-> v]
  BY <1>2, FetchedWithTopic
<1> HIDE DEF event
<1>4. fields = [owner          |-> Event!TypedOf("Address", Event!Scval("Address", w)),
                encryption_key |-> Event!KeyOf(v.encryption_key),
                note_key       |-> Event!KeyOf(v.note_key)]
  BY <1>3 DEF Event!ParsedFields
<1>5. Event!TypedOf("Address", Event!Scval("Address", w)) = Event!Parsed(w)
  BY DEF Event!TypedOf, Event!Scval
<1>6. /\ Event!KeyOf(v.encryption_key) = Event!Parsed(e)
      /\ Event!KeyOf(v.note_key) = Event!Parsed(n)
  BY <1>1 DEF v, Event!KeyOf, Event!Scval
<1> HIDE DEF fields
<1>7. /\ DOMAIN fields = DOMAIN call \ {"fn"}
      /\ \A f \in DOMAIN fields : fields[f] = Event!Parsed(call[f])
  BY <1>4, <1>5, <1>6
<1> QED
  BY <1>7, FieldsMakeRow DEF Understands, fields, event

LEMMA LeafUnderstood ==
    ASSUME NEW u \in Event!U256s, NEW i \in 0..(TreeCapacity - 1),
           NEW r \in {0, Modulus - 1}, NEW call,
           call = [fn |-> "insert_leaf", leaf |-> u, index |-> i, root |-> r],
           Event!Executes(call)
    PROVE  Understands(call)
<1> DEFINE event == Fetched(Event!Published(call))
           fields == Event!ParsedFields(Event!ParseEventMetadata(event))
           v == [leaf |-> Event!U256Scval(u), index |-> Event!Scval("U64", i),
                 root |-> Event!U256Scval(r)]
<1>1. /\ u < Modulus /\ u \in Nat
      /\ r < Modulus /\ r \in Nat
      /\ i < IndexWord
  <2>1. u < Modulus
    BY DEF Event!Executes, Event!Hashable
  <2> QED
    BY <2>1, NumbersInField, EventAssumption
<1>2. Event!Published(call) = [topics |-> <<Name("LeafAdded")>>, value |-> v]
  BY DEF Event!Published, Name
<1> HIDE DEF v
<1>3. Event!ParseEventMetadata(event)
        = [name |-> "LeafAdded", topics |-> << >>, values |-> v]
  BY <1>2, FetchedWithName
<1> HIDE DEF event
<1>4. fields = [leaf  |-> Event!FieldOf(v.leaf),
                index |-> Event!IndexOf(v.index),
                root  |-> Event!FieldOf(v.root)]
  BY <1>3 DEF Event!ParsedFields
<1>5. Event!FieldOf(v.leaf) = Event!Parsed(u) /\ Event!FieldOf(v.root) = Event!Parsed(r)
  <2>1. v.leaf = Event!U256Scval(u) /\ v.root = Event!U256Scval(r)
    BY DEF v
  <2> QED
    BY <1>1, <2>1, FieldsPass
<1>6. Event!IndexOf(v.index) = Event!Parsed(i)
  BY <1>1 DEF v, Event!IndexOf, Event!Scval
<1> HIDE DEF fields
<1>7. /\ DOMAIN fields = DOMAIN call \ {"fn"}
      /\ \A f \in DOMAIN fields : fields[f] = Event!Parsed(call[f])
  BY <1>4, <1>5, <1>6
<1> QED
  BY <1>7, FieldsMakeRow DEF Understands, fields, event

LEMMA BlockUnderstood ==
    ASSUME NEW k \in Event!U256s, NEW call,
           call = [fn |-> "block", key |-> k, value |-> 1, root |-> 1],
           Event!Executes(call)
    PROVE  Understands(call)
<1> DEFINE event == Fetched(Event!Published(call))
           fields == Event!ParsedFields(Event!ParseEventMetadata(event))
           v == [key |-> Event!U256Scval(k), value |-> Event!U256Scval(1),
                 root |-> Event!U256Scval(1)]
<1>1. k < Modulus /\ k \in Nat /\ 1 < Modulus /\ 1 \in Nat
  <2>1. k < Modulus
    BY DEF Event!Executes, Event!Hashable
  <2> QED
    BY <2>1, NumbersInField, EventAssumption
<1>2. Event!Published(call) = [topics |-> <<Name("LeafInserted")>>, value |-> v]
  BY DEF Event!Published, Name
<1> HIDE DEF v
<1>3. Event!ParseEventMetadata(event)
        = [name |-> "LeafInserted", topics |-> << >>, values |-> v]
  BY <1>2, FetchedWithName
<1> HIDE DEF event
<1>4. fields = [f \in {"key", "value", "root"} |-> Event!FieldOf(v[f])]
  BY <1>3 DEF Event!ParsedFields, Event!BlocklistFields
<1>5. /\ v["key"] = Event!U256Scval(k) /\ v["value"] = Event!U256Scval(1)
      /\ v["root"] = Event!U256Scval(1)
  BY DEF v
<1>6. /\ Event!FieldOf(Event!U256Scval(k)) = Event!Parsed(k)
      /\ Event!FieldOf(Event!U256Scval(1)) = Event!Parsed(1)
  BY <1>1, FieldsPass
<1> HIDE DEF fields
<1>7. /\ DOMAIN fields = DOMAIN call \ {"fn"}
      /\ \A f \in DOMAIN fields : fields[f] = Event!Parsed(call[f])
  BY <1>4, <1>5, <1>6
<1> QED
  BY <1>7, FieldsMakeRow DEF Understands, fields, event

LEMMA UnblockUnderstood ==
    ASSUME NEW k \in Event!U256s, NEW call,
           call = [fn |-> "unblock", key |-> k, root |-> 0],
           Event!Executes(call)
    PROVE  Understands(call)
<1> DEFINE event == Fetched(Event!Published(call))
           fields == Event!ParsedFields(Event!ParseEventMetadata(event))
           v == [key |-> Event!U256Scval(k), root |-> Event!U256Scval(0)]
<1>1. k < Modulus /\ k \in Nat /\ 0 < Modulus /\ 0 \in Nat
  <2>1. k < Modulus
    BY DEF Event!Executes, Event!Hashable
  <2> QED
    BY <2>1, NumbersInField, EventAssumption
<1>2. Event!Published(call) = [topics |-> <<Name("LeafDeleted")>>, value |-> v]
  BY DEF Event!Published, Name
<1> HIDE DEF v
<1>3. Event!ParseEventMetadata(event)
        = [name |-> "LeafDeleted", topics |-> << >>, values |-> v]
  BY <1>2, FetchedWithName
<1> HIDE DEF event
<1>4. fields = [f \in {"key", "root"} |-> Event!FieldOf(v[f])]
  BY <1>3 DEF Event!ParsedFields, Event!BlocklistFields
<1>5. v["key"] = Event!U256Scval(k) /\ v["root"] = Event!U256Scval(0)
  BY DEF v
<1>6. /\ Event!FieldOf(Event!U256Scval(k)) = Event!Parsed(k)
      /\ Event!FieldOf(Event!U256Scval(0)) = Event!Parsed(0)
  BY <1>1, FieldsPass
<1> HIDE DEF fields
<1>7. /\ DOMAIN fields = DOMAIN call \ {"fn"}
      /\ \A f \in DOMAIN fields : fields[f] = Event!Parsed(call[f])
  BY <1>4, <1>5, <1>6
<1> QED
  BY <1>7, FieldsMakeRow DEF Understands, fields, event

LEMMA CallsUnderstood ==
    ASSUME NEW call \in Event!Calls, Event!Executes(call)
    PROVE  Understands(call)
<1>1. CASE call \in [fn : {"spend"}, nullifier : Event!U256s]
  <2>1. call.nullifier \in Event!U256s /\ call = [fn |-> "spend", nullifier |-> call.nullifier]
    BY <1>1
  <2> QED
    BY <2>1, SpendUnderstood, Zenon
<1>2. CASE call \in [fn : {"commit"}, commitment : Event!U256s, index : 0..(TreeCapacity - 1),
                     encrypted_output : Event!Outputs]
  <2>1. /\ call.commitment \in Event!U256s
        /\ call = [fn |-> "commit", commitment |-> call.commitment, index |-> call.index,
                   encrypted_output |-> call.encrypted_output]
    BY <1>2
  <2> QED
    BY <2>1, CommitUnderstood, Zenon
<1>3. CASE call \in [fn : {"register"}, owner : Event!Owners,
                     encryption_key : Event!KeyBytes, note_key : Event!KeyBytes]
  <2>1. /\ call.encryption_key \in Event!KeyBytes /\ call.note_key \in Event!KeyBytes
        /\ call = [fn |-> "register", owner |-> call.owner,
                   encryption_key |-> call.encryption_key, note_key |-> call.note_key]
    BY <1>3
  <2> QED
    BY <2>1, RegisterUnderstood, Zenon
<1>4. CASE call \in [fn : {"insert_leaf"}, leaf : Event!U256s, index : 0..(TreeCapacity - 1),
                     root : {0, Modulus - 1}]
  <2>1. /\ call.leaf \in Event!U256s /\ call.index \in 0..(TreeCapacity - 1)
        /\ call.root \in {0, Modulus - 1}
        /\ call = [fn |-> "insert_leaf", leaf |-> call.leaf, index |-> call.index,
                   root |-> call.root]
    BY <1>4
  <2> QED
    BY <2>1, LeafUnderstood, Zenon
<1>5. CASE call \in [fn : {"block"}, key : Event!U256s, value : {1}, root : {1}]
  <2>1. /\ call.key \in Event!U256s
        /\ call = [fn |-> "block", key |-> call.key, value |-> 1, root |-> 1]
    BY <1>5
  <2> QED
    BY <2>1, BlockUnderstood, Zenon
<1>6. CASE call \in [fn : {"unblock"}, key : Event!U256s, root : {0}]
  <2>1. /\ call.key \in Event!U256s
        /\ call = [fn |-> "unblock", key |-> call.key, root |-> 0]
    BY <1>6
  <2> QED
    BY <2>1, UnblockUnderstood, Zenon
<1> QED
  BY <1>1, <1>2, <1>3, <1>4, <1>5, <1>6, Zenon DEF Event!Calls

-----------------------------------------------------------------------------

\* The event at each stage of its way.
EventInv ==
    /\ said \in Event!Calls
    /\ stage = "rpc" => Event!Executes(said) /\ carried = Event!Published(said)
    /\ stage = "raw_contract_events" =>
         /\ Event!Executes(said)
         /\ carried = [topics |-> Event!Joined(Event!Published(said).topics),
                       value  |-> Event!Base64(Event!Published(said).value)]
    /\ stage = "unprocessed" =>
         Event!Executes(said) /\ carried = Fetched(Event!Published(said))
    /\ stage = "processed" => carried = Event!Parsed(Row(said))

LEMMA EventSteps ==
    ASSUME EventInv, Event!EventNext
    PROVE  EventInv'
<1>1. CASE Event!Publish
  BY <1>1 DEF Event!Publish, EventInv
<1>2. CASE Event!SaveEvent
  BY <1>2 DEF Event!SaveEvent, EventInv
<1>3. CASE Event!FetchUnprocessed
  <2>1. carried' = Fetched(Event!Published(said))
    BY <1>3 DEF Event!FetchUnprocessed, EventInv, Fetched
  <2> QED
    BY <1>3, <2>1 DEF Event!FetchUnprocessed, EventInv
<1>4. CASE Event!ProcessEvent
  <2>1. carried' = Event!ParseEvent(Fetched(Event!Published(said)))
        /\ said \in Event!Calls /\ Event!Executes(said)
    BY <1>4 DEF Event!ProcessEvent, EventInv
  <2>2. PICK call : call = said
    OBVIOUS
  <2>3. Understands(call)
    BY <2>1, <2>2, CallsUnderstood
  <2> QED
    BY <1>4, <2>1, <2>2, <2>3 DEF Event!ProcessEvent, EventInv, Understands
<1> QED
  BY <1>1, <1>2, <1>3, <1>4 DEF Event!EventNext

\* publish, save_events_batch, get_unprocessed_events and parse_event: whatever a
\* contract accepts ends as the row that says it, for any modulus of the field and
\* any size of a limb.
THEOREM EventsAreUnderstood == AllSpec => [](part = "event" => Event!EventsUnderstood)
<1> DEFINE Inv == part = "event" => EventInv
<1>1. AllInit => Inv
  BY DEF AllInit, EventInv, Event!EventInit
<1>2. Inv /\ [AllNext]_<<part, vars, subVars, eventVars>> => Inv'
  <2> SUFFICES ASSUME Inv, [AllNext]_<<part, vars, subVars, eventVars>>, part' = "event"
               PROVE  EventInv'
    OBVIOUS
  <2>1. part = "event" /\ EventInv
    BY DEF AllNext
  <2>2. CASE Event!EventNext
    BY <2>1, <2>2, EventSteps
  <2>3. CASE UNCHANGED eventVars
    BY <2>1, <2>3 DEF EventInv, eventVars
  <2> QED
    BY <2>1, <2>2, <2>3 DEF AllNext
<1>3. Inv => (part = "event" => Event!EventsUnderstood)
  BY DEF EventInv, Event!EventsUnderstood, Event!Parsed, Row
<1> HIDE DEF Inv
<1> QED
  BY <1>1, <1>2, <1>3, PTL DEF AllSpec

\* The client's tables, what its scan and reconciliation have passed, and the
\* contracts' events: nothing is lost on the way, whatever is cut off in between.
THEOREM NothingIsLost == AllSpec => []NothingLost
<1>1. NothingOverlooked /\ (part = "event" => Event!EventsUnderstood) => NothingLost
  BY DEF NothingLost
<1> QED
  BY <1>1, WalletRuns, NothingIsOverlooked, EventsAreUnderstood, PTL
=============================================================================
