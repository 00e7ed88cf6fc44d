----------------------------- MODULE StoreProofs -----------------------------
(***************************************************************************)
(* Theorems about the account tables, for every number of threads, every   *)
(* legacy store and every interleaving of requests, purges and migrations. *)
(***************************************************************************)
EXTENDS Store, TLAPS, SequenceTheorems

\* What the transactions in a history asked for, and whether one was a request.
AskedIn(d)  == UNION {d[i].tickers : i \in DOMAIN d}
ServedIn(d) == \E i \in DOMAIN d : d[i].replaced

AnyTicker == Ticker \cup UNION {{r.ticker : r \in docs.watchlists} : docs \in Legacy}
Entry == [replaced : BOOLEAN, tickers : SUBSET AnyTicker]

-----------------------------------------------------------------------------
(* What every transaction under way looks like.                            *)

\* A request deletes only what it read and does not want, and inserts what it
\* wants and did not read.
Request(x, ids) ==
  /\ x = [at |-> x.at, user |-> x.user, want |-> x.want, current |-> x.current,
          ins |-> x.ins, del |-> x.del]
  /\ x.user \in Id /\ (x.user \in NewId => x.user \in ids)
  /\ x.want \subseteq Ticker
  /\ x.at \in {"delete", "insert", "commit"}
  /\ x.at # "delete" => x.del \subseteq Rows(x.user, x.current \ x.want)
  /\ x.at = "commit" => x.ins = Rows(x.user, x.want \ x.current)

TableForm == /\ tables = [t \in Table |-> tables[t]]
             /\ \A r \in tables.watchlists : IsRow(r)
             /\ \A x \in tables.users : x.id \in NewId => x.id \in given
TxForm    == /\ tx = [th \in Thread |-> tx[th]]
             /\ \A th \in Busy : Request(tx[th], given)
DoneForm  == /\ done \in [Id -> Seq(Entry)]
             /\ \A u \in NewId \ given : ~ ServedIn(done[u])

\* A migration copies rows of what it converted.
MigForm ==
  mig # None =>
    /\ mig = [at |-> mig.at, rows |-> mig.rows, ins |-> mig.ins]
    /\ mig.ins = [t \in Table |-> mig.ins[t]]
    /\ mig.at \in Table \cup {"commit"}
    /\ \E docs \in Legacy : mig.rows = Convert(docs)
    /\ mig.ins.users \subseteq mig.rows.users
    /\ mig.ins.watchlists \subseteq mig.rows.watchlists

Forms == TableForm /\ TxForm /\ DoneForm /\ MigForm

-----------------------------------------------------------------------------
(* Facts about the operators.                                              *)

\* A history that grew by an entry.
LEMMA Grown ==
  ASSUME NEW d \in Seq(Entry), NEW e \in Entry
  PROVE  /\ Append(d, e) \in Seq(Entry) /\ Append(d, e) # <<>>
         /\ AskedIn(Append(d, e)) = AskedIn(d) \cup e.tickers
         /\ ServedIn(Append(d, e)) <=> ServedIn(d) \/ e.replaced
         /\ Len(Append(d, e)) = 1 => d = <<>> /\ Append(d, e)[1] = e
  <1>1. /\ Len(d) \in Nat /\ DOMAIN d = 1..Len(d)
        /\ DOMAIN Append(d, e) = 1..(Len(d) + 1)
        /\ \A i \in 1..Len(d) : Append(d, e)[i] = d[i]
        /\ Append(d, e)[Len(d) + 1] = e
        /\ Append(d, e) \in Seq(Entry) /\ Len(Append(d, e)) = Len(d) + 1
    BY AppendProperties, LenProperties
  <1>2. DOMAIN Append(d, e) = DOMAIN d \cup {Len(d) + 1}
    BY <1>1
  <1>3. AskedIn(Append(d, e)) = AskedIn(d) \cup e.tickers
    BY <1>1, <1>2, Zenon DEF AskedIn
  <1>4. ServedIn(Append(d, e)) <=> ServedIn(d) \/ e.replaced
    BY <1>1, <1>2, Zenon DEF ServedIn
  <1>5. Len(Append(d, e)) = 1 => d = <<>> /\ Append(d, e)[1] = e
    BY <1>1, EmptySeq
  <1>6. Append(d, e) # <<>>
    BY <1>1, EmptySeq
  <1> QED
    BY <1>1, <1>3, <1>4, <1>5, <1>6

\* Nothing was asked in an empty history.
LEMMA NothingAsked == AskedIn(<<>>) = {} /\ ~ ServedIn(<<>>) /\ <<>> \in Seq(Entry)
  <1>1. DOMAIN <<>> = {}
    BY EmptySeq, LenProperties
  <1> QED
    BY <1>1, EmptySeq DEF AskedIn, ServedIn

\* The tickers of a user among some rows.
Tickers(u, rows) == {r.ticker : r \in {x \in rows : x.user = u}}

LEMMA ListIs == \A u : List(u) = Tickers(u, tables.watchlists)
  BY DEF List, Tickers

LEMMA TickersOfRows ==
  ASSUME NEW u, NEW v, NEW T
  PROVE  /\ u = v => Tickers(u, Rows(v, T)) = T
         /\ u # v => Tickers(u, Rows(v, T)) = {}
  <1>1. \A r \in Rows(v, T) : r.user = v /\ r.ticker \in T
    BY DEF Rows
  <1>2. ASSUME NEW t \in T PROVE t \in Tickers(v, Rows(v, T))
    <2>1. [user |-> v, ticker |-> t] \in Rows(v, T)
      BY DEF Rows
    <2> QED
      BY <2>1 DEF Tickers
  <1> QED
    BY <1>1, <1>2 DEF Tickers

LEMMA TickersUnion ==
  ASSUME NEW u, NEW R, NEW S
  PROVE  /\ Tickers(u, R \cup S) = Tickers(u, R) \cup Tickers(u, S)
         /\ R \subseteq S => Tickers(u, R) \subseteq Tickers(u, S)
  BY DEF Tickers

\* Removing rows of one user takes exactly their tickers off its list.
LEMMA TickersRemoved ==
  ASSUME NEW u, NEW v, NEW R, NEW S, NEW T, \A r \in R : IsRow(r), S \subseteq Rows(v, T)
  PROVE  /\ u = v => Tickers(u, R \ S) = Tickers(u, R) \ Tickers(u, S)
         /\ u # v => Tickers(u, R \ S) = Tickers(u, R)
  <1>1. \A r \in S : r.user = v /\ IsRow(r)
    BY DEF Rows, IsRow
  <1>2. ASSUME NEW r \in R, NEW q \in S, r.user = q.user, r.ticker = q.ticker PROVE r = q
    <2>1. IsRow(r) /\ IsRow(q)
      BY <1>1
    <2> QED
      BY <2>1, <1>2 DEF IsRow
  <1>3. ASSUME u = v PROVE Tickers(u, R \ S) = Tickers(u, R) \ Tickers(u, S)
    <2>1. ASSUME NEW t \in Tickers(u, R \ S) PROVE t \in Tickers(u, R) \ Tickers(u, S)
      <3>1. PICK r \in R \ S : r.user = u /\ r.ticker = t
        BY <2>1 DEF Tickers
      <3>2. ~ \E q \in S : q.user = u /\ q.ticker = t
        BY <3>1, <1>2
      <3> QED
        BY <3>1, <3>2 DEF Tickers
    <2>2. Tickers(u, R) \ Tickers(u, S) \subseteq Tickers(u, R \ S)
      BY DEF Tickers
    <2> QED
      BY <2>1, <2>2
  <1>4. ASSUME u # v PROVE Tickers(u, R \ S) = Tickers(u, R)
    BY <1>1, <1>4 DEF Tickers
  <1> QED
    BY <1>3, <1>4
-----------------------------------------------------------------------------
(* The forms are kept.                                                     *)

\* What is converted from a legacy store.
LEMMA Converted ==
  ASSUME NEW docs \in Legacy
  PROVE  LET c == Convert(docs)
         IN  /\ c.users \subseteq {[id |-> docs.users[i].id, email |-> docs.users[i].email,
                                    guest |-> docs.users[i].guest] : i \in DOMAIN docs.users}
             /\ c.watchlists \subseteq docs.watchlists
  BY DEF Convert, ConvertUsers

LEMMA ConvertedRows ==
  ASSUME NEW docs \in Legacy, NEW r \in Convert(docs).watchlists
  PROVE  IsRow(r) /\ r.ticker \in AnyTicker
  BY RowAssumption, Converted DEF AnyTicker

\* A thread's transaction moves on, or ends, and accounts are created.
LEMMA TxMoves ==
  ASSUME TxForm, NEW th \in Thread, NEW x, tx' = [tx EXCEPT ![th] = x],
         x = None \/ Request(x, given), given \subseteq given'
  PROVE  /\ TxForm'
         /\ Busy' \ {th} = Busy \ {th}
         /\ tx'[th] = x /\ \A o \in Thread \ {th} : tx'[o] = tx[o]
  <1>1. /\ tx' = [o \in Thread |-> tx'[o]]
        /\ tx'[th] = x /\ \A o \in Thread \ {th} : tx'[o] = tx[o]
    BY DEF TxForm
  <1>2. Busy' \ {th} = Busy \ {th}
    BY <1>1 DEF Busy
  <1>3. ASSUME NEW o \in Busy' PROVE Request(tx'[o], given')
    <2>1. tx'[o] # None /\ o \in Thread
      BY <1>3 DEF Busy
    <2>2. Request(tx'[o], given)
      <3>1. CASE o = th
        BY <3>1, <2>1, <1>1
      <3>2. CASE o # th
        BY <3>2, <2>1, <1>1, <1>2 DEF TxForm, Busy
      <3> QED
        BY <3>1, <3>2
    <2> QED
      BY <2>2 DEF Request
  <1> QED
    BY <1>1, <1>2, <1>3 DEF TxForm

\* The record of a new request, and how its steps change it.
LEMMA RequestMoves ==
  ASSUME Forms, NEW th \in Thread
  PROVE  /\ \A u \in Id, T \in SUBSET Ticker : ReadList(th, u, T) /\ (u \in NewId => u \in given) =>
              LET x == [at |-> "delete", user |-> u, want |-> T,
                        current |-> List(u), ins |-> {}, del |-> {}]
              IN  Request(x, given) /\ tx' = [tx EXCEPT ![th] = x]
         /\ DeleteStale(th) =>
              LET x == [tx[th] EXCEPT !.at = "insert",
                          !.del = Rows(tx[th].user, tx[th].current \ tx[th].want) \cap tables.watchlists]
              IN  Request(x, given) /\ tx' = [tx EXCEPT ![th] = x]
         /\ InsertFresh(th) =>
              LET x == [tx[th] EXCEPT !.at = "commit",
                          !.ins = Rows(tx[th].user, tx[th].want \ tx[th].current)]
              IN  Request(x, given) /\ tx' = [tx EXCEPT ![th] = x]
  <1>1. \A u \in Id, T \in SUBSET Ticker : ReadList(th, u, T) /\ (u \in NewId => u \in given) =>
              LET x == [at |-> "delete", user |-> u, want |-> T,
                        current |-> List(u), ins |-> {}, del |-> {}]
              IN  Request(x, given) /\ tx' = [tx EXCEPT ![th] = x]
    BY DEF ReadList, Request
  <1>2. ASSUME th \in Busy
        PROVE  /\ Request(tx[th], given)
               /\ \A y : [tx EXCEPT ![th] = y][th] = y
               /\ tx = [o \in Thread |-> tx[o]]
    BY <1>2 DEF Forms, TxForm
  <1>3. ASSUME DeleteStale(th)
        PROVE  LET x == [tx[th] EXCEPT !.at = "insert",
                          !.del = Rows(tx[th].user, tx[th].current \ tx[th].want) \cap tables.watchlists]
               IN  Request(x, given) /\ tx' = [tx EXCEPT ![th] = x]
    BY <1>2, <1>3 DEF DeleteStale, Request
  <1>4. ASSUME InsertFresh(th)
        PROVE  LET x == [tx[th] EXCEPT !.at = "commit",
                          !.ins = Rows(tx[th].user, tx[th].want \ tx[th].current)]
               IN  Request(x, given) /\ tx' = [tx EXCEPT ![th] = x]
    BY <1>2, <1>4 DEF InsertFresh, Request
  <1> QED
    BY <1>1, <1>3, <1>4
LEMMA RequestForms ==
  ASSUME Forms, NEW th \in Thread,
         \/ \E u \in Id, T \in SUBSET Ticker : ReadList(th, u, T)
         \/ DeleteStale(th) \/ InsertFresh(th) \/ Rollback(th)
  PROVE  Forms'
  <1>1. UNCHANGED <<tables, mig, given>>
    BY DEF ReadList, DeleteStale, InsertFresh, Rollback
  <1>2. TableForm' /\ MigForm'
    BY <1>1 DEF Forms, TableForm, MigForm
  <1>3. CASE \E u \in Id, T \in SUBSET Ticker : ReadList(th, u, T)
    <2>1. PICK u \in Id, T \in SUBSET Ticker : ReadList(th, u, T)
      BY <1>3
    <2>2. u \in NewId => u \in given
      BY <2>1 DEF ReadList, HasUser, Forms, TableForm
    <2>3. TxForm'
      BY <1>1, <2>1, <2>2, RequestMoves, TxMoves DEF Forms
    <2>4. done' = IF Quiet(u) THEN [done EXCEPT ![u] = <<>>] ELSE done
      BY <2>1 DEF ReadList
    <2>5. DoneForm'
      BY <2>4, <1>1, NothingAsked DEF Forms, DoneForm
    <2> QED
      BY <1>2, <2>3, <2>5 DEF Forms
  <1>4. CASE DeleteStale(th) \/ InsertFresh(th) \/ Rollback(th)
    <2>1. UNCHANGED done
      BY <1>4 DEF DeleteStale, InsertFresh, Rollback
    <2>2. Rollback(th) => tx' = [tx EXCEPT ![th] = None]
      BY DEF Rollback
    <2>3. TxForm'
      BY <1>1, <1>4, <2>2, RequestMoves, TxMoves DEF Forms
    <2>4. DoneForm'
      BY <1>1, <2>1 DEF Forms, DoneForm
    <2> QED
      BY <1>2, <2>3, <2>4 DEF Forms
  <1> QED
    BY <1>3, <1>4

\* A row a request inserts or a migration copies is a user and a ticker.
LEMMA RowsAreRows == \A u, T : \A r \in Rows(u, T) : IsRow(r)
  BY DEF Rows, IsRow

LEMMA CommitForms ==
  ASSUME Forms, NEW th \in Thread, Commit(th)
  PROVE  Forms'
  <1> DEFINE x == tx[th]
             e == [replaced |-> TRUE, tickers |-> x.want]
  <1>1. /\ tables' = [tables EXCEPT !.watchlists = (@ \ x.del) \cup x.ins]
        /\ done' = [done EXCEPT ![x.user] = Append(@, e)]
        /\ tx' = [tx EXCEPT ![th] = None] /\ th \in Busy /\ x.at = "commit"
        /\ UNCHANGED <<mig, given>>
    BY DEF Commit, Committed
  <1>2. Request(x, given)
    BY <1>1 DEF Forms, TxForm
  <1>3. e \in Entry
    BY <1>2 DEF Request, Entry, AnyTicker
  <1> HIDE DEF x, e
  <1>4. TxForm' /\ MigForm'
    BY <1>1, TxMoves DEF Forms, MigForm
  <1>5. \A r \in x.ins : IsRow(r)
    BY <1>1, <1>2, RowsAreRows DEF Request
  <1>6. TableForm'
    <2>1. /\ tables' = [t \in Table |-> tables'[t]] /\ tables'.users = tables.users
          /\ tables'.watchlists = (tables.watchlists \ x.del) \cup x.ins
      BY <1>1 DEF Forms, TableForm, Table
    <2> QED
      BY <2>1, <1>1, <1>5 DEF Forms, TableForm
  <1>7. DoneForm'
    <2>1. x.user \in Id /\ (x.user \in NewId => x.user \in given)
      BY <1>2 DEF Request
    <2>2. /\ done'[x.user] = Append(done[x.user], e) /\ done[x.user] \in Seq(Entry)
          /\ \A u \in Id \ {x.user} : done'[u] = done[u]
      BY <1>1, <2>1 DEF Forms, DoneForm
    <2>3. done' \in [Id -> Seq(Entry)]
      BY <1>1, <2>1, <2>2, <1>3, Grown DEF Forms, DoneForm
    <2>4. NewId \subseteq Id
      BY DEF Id
    <2> QED
      BY <1>1, <2>1, <2>2, <2>3, <2>4 DEF Forms, DoneForm
  <1> QED
    BY <1>4, <1>6, <1>7 DEF Forms

\* Steps that only touch accounts and the rows that go with them.
LEMMA AccountForms ==
  ASSUME Forms,
         \/ \E u \in NewId : \E email, guest : CreateUser(u, email, guest)
         \/ \E old \in SUBSET Id : PurgeGuests(old)
  PROVE  Forms'
  <1>1. UNCHANGED <<tx, mig, done>> /\ given \subseteq given'
    BY DEF CreateUser, PurgeGuests
  <1>2. MigForm' /\ DoneForm'
    BY <1>1 DEF Forms, MigForm, DoneForm
  <1>3. TxForm'
    <2>1. \A x : Request(x, given) => Request(x, given')
      BY <1>1 DEF Request
    <2> QED
      BY <2>1, <1>1 DEF Forms, TxForm, Busy
  <1>4. TableForm'
    <2>1. /\ tables' = [t \in Table |-> tables'[t]]
          /\ tables'.watchlists \subseteq tables.watchlists
      BY DEF CreateUser, PurgeGuests, Forms, TableForm, Table
    <2>2. \A x \in tables'.users : x.id \in NewId => x.id \in given'
      <3>1. CASE \E u \in NewId : \E email, guest : CreateUser(u, email, guest)
        <4>1. PICK u \in NewId : \E email, guest : CreateUser(u, email, guest)
          BY <3>1
        <4>2. PICK email, guest :
                /\ tables' = [tables EXCEPT !.users = @ \cup {[id |-> u, email |-> email, guest |-> guest]}]
                /\ given' = given \cup {u}
          BY <4>1 DEF CreateUser
        <4>3. tables'.users = tables.users \cup {[id |-> u, email |-> email, guest |-> guest]}
          BY <4>2 DEF Forms, TableForm, Table
        <4> QED
          BY <4>2, <4>3 DEF Forms, TableForm
      <3>2. CASE \E old \in SUBSET Id : PurgeGuests(old)
        <4>1. tables'.users \subseteq tables.users /\ given' = given
          BY <3>2 DEF PurgeGuests, Forms, TableForm, Table
        <4> QED
          BY <4>1 DEF Forms, TableForm
      <3> QED
        BY <3>1, <3>2
    <2> QED
      BY <2>1, <2>2 DEF Forms, TableForm
  <1> QED
    BY <1>2, <1>3, <1>4 DEF Forms
\* A table's rows are copied.
Copy == CopyUsers \/ CopyWatchlists \/ CopyAlerts \/ CopyDeliveries

\* What a copying step does to the migration's transaction.
LEMMA CopyMoves ==
  ASSUME Forms, NEW t \in Table, NEW ins, mig # None, mig.at = t, Copies(t, ins)
  PROVE  /\ mig' = [at |-> After[t], rows |-> mig.rows, ins |-> [mig.ins EXCEPT ![t] = ins]]
         /\ mig'.rows = mig.rows /\ mig'.at = After[t]
         /\ mig'.ins = [o \in Table |-> mig'.ins[o]]
         /\ mig'.ins[t] = ins /\ \A o \in Table \ {t} : mig'.ins[o] = mig.ins[o]
         /\ After[t] \in Table \cup {"commit"}
  <1>1. /\ mig = [at |-> mig.at, rows |-> mig.rows, ins |-> mig.ins]
        /\ mig.ins = [o \in Table |-> mig.ins[o]]
    BY DEF Forms, MigForm
  <1>2. mig' = [at |-> After[t], rows |-> mig.rows, ins |-> [mig.ins EXCEPT ![t] = ins]]
    BY <1>1 DEF Copies
  <1>3. After[t] \in Table \cup {"commit"}
    BY DEF After, Table
  <1> QED
    BY <1>1, <1>2, <1>3

LEMMA CopyForms ==
  ASSUME Forms, Copy
  PROVE  Forms'
  <1>1. UNCHANGED <<tables, tx, given, done>>
    BY DEF Copy, CopyUsers, CopyWatchlists, CopyAlerts, CopyDeliveries
  <1>2. TableForm' /\ TxForm' /\ DoneForm'
    BY <1>1 DEF Forms, TableForm, TxForm, DoneForm, Busy
  <1>3. PICK t \in Table : \E ins : /\ mig # None /\ mig.at = t /\ Copies(t, ins)
                                    /\ t \in {"users", "watchlists"} => ins \subseteq mig.rows[t]
    <2>1. CASE CopyUsers
      BY <2>1 DEF CopyUsers, Copying, Table
    <2>2. CASE CopyWatchlists
      BY <2>2 DEF CopyWatchlists, Copying, Table
    <2>3. CASE CopyAlerts
      BY <2>3 DEF CopyAlerts, Copying, Table
    <2>4. CASE CopyDeliveries
      BY <2>4 DEF CopyDeliveries, Copying, Table
    <2> QED
      BY <2>1, <2>2, <2>3, <2>4 DEF Copy
  <1>4. PICK ins : /\ mig # None /\ mig.at = t /\ Copies(t, ins)
                   /\ t \in {"users", "watchlists"} => ins \subseteq mig.rows[t]
    BY <1>3
  <1>5. MigForm'
    <2>1. /\ mig' = [at |-> After[t], rows |-> mig.rows, ins |-> [mig.ins EXCEPT ![t] = ins]]
          /\ mig'.rows = mig.rows /\ mig'.at = After[t]
          /\ mig'.ins = [o \in Table |-> mig'.ins[o]]
          /\ mig'.ins[t] = ins /\ \A o \in Table \ {t} : mig'.ins[o] = mig.ins[o]
          /\ After[t] \in Table \cup {"commit"}
      BY <1>4, CopyMoves
    <2>2. mig' = [at |-> mig'.at, rows |-> mig'.rows, ins |-> mig'.ins]
      BY <2>1
    <2>3. \E docs \in Legacy : mig'.rows = Convert(docs)
      BY <2>1, <1>4 DEF Forms, MigForm
    <2>4. mig'.ins.users \subseteq mig'.rows.users /\ mig'.ins.watchlists \subseteq mig'.rows.watchlists
      BY <2>1, <1>4 DEF Forms, MigForm, Table
    <2> QED
      BY <2>1, <2>2, <2>3, <2>4 DEF MigForm
  <1> QED
    BY <1>2, <1>5 DEF Forms

LEMMA ReadLegacyForms ==
  ASSUME Forms, ReadLegacy
  PROVE  Forms'
  <1>1. UNCHANGED <<tables, tx, given>> /\ done' = [u \in Id |-> IF Quiet(u) THEN <<>> ELSE done[u]]
    BY DEF ReadLegacy
  <1>2. TableForm' /\ TxForm'
    BY <1>1 DEF Forms, TableForm, TxForm, Busy
  <1>3. DoneForm'
    <2>1. NewId \subseteq Id
      BY DEF Id
    <2> QED
      BY <1>1, <2>1, NothingAsked DEF Forms, DoneForm
  <1>4. MigForm'
    <2>1. PICK docs \in Legacy : mig' = [at |-> "users", rows |-> Convert(docs), ins |-> NoRows]
      BY DEF ReadLegacy
    <2>2. mig'.at \in Table /\ mig'.rows = Convert(docs) /\ mig'.ins = NoRows
      BY <2>1 DEF Table
    <2> QED
      BY <2>1, <2>2 DEF MigForm, NoRows, Table
  <1> QED
    BY <1>2, <1>3, <1>4 DEF Forms

\* What a finished migration adds to a history.
Batch(u) == [replaced |-> FALSE, tickers |-> Tickers(u, mig.rows.watchlists)]

LEMMA BatchType ==
  ASSUME Forms, mig # None
  PROVE  /\ \A u : Batch(u) \in Entry
         /\ \A r \in mig.rows.watchlists : IsRow(r)
         /\ \A x \in mig.rows.users : x.id \notin NewId
  <1>1. PICK docs \in Legacy : mig.rows = Convert(docs)
    BY DEF Forms, MigForm
  <1>2. \A r \in mig.rows.watchlists : IsRow(r) /\ r.ticker \in AnyTicker
    BY <1>1, ConvertedRows
  <1>3. \A u : Batch(u) \in Entry
    BY <1>2 DEF Batch, Tickers, Entry
  <1>4. ASSUME NEW x \in mig.rows.users PROVE x.id \notin NewId
    <2>1. PICK i \in DOMAIN docs.users : x.id = docs.users[i].id
      BY <1>1, <1>4, Converted
    <2> QED
      BY <2>1, IdAssumption
  <1> QED
    BY <1>2, <1>3, <1>4

LEMMA CopyCommitsForms ==
  ASSUME Forms, CopyCommits
  PROVE  Forms'
  <1>1. /\ mig # None /\ mig' = None /\ UNCHANGED <<tx, given>>
        /\ tables' = [t \in Table |-> tables[t] \cup mig.ins[t]]
        /\ done' = [u \in Id |-> Append(done[u], Batch(u))]
    BY DEF CopyCommits, Copying, Adds, Batch, Tickers
  <1>2. TxForm' /\ MigForm'
    BY <1>1 DEF Forms, TxForm, MigForm, Busy
  <1>3. TableForm'
    <2>1. /\ \A r \in mig.rows.watchlists : IsRow(r)
          /\ \A x \in mig.rows.users : x.id \notin NewId
      BY <1>1, BatchType
    <2>2. mig.ins.users \subseteq mig.rows.users /\ mig.ins.watchlists \subseteq mig.rows.watchlists
      BY <1>1 DEF Forms, MigForm
    <2>3. /\ tables'.users = tables.users \cup mig.ins.users
          /\ tables'.watchlists = tables.watchlists \cup mig.ins.watchlists
      BY <1>1 DEF Table
    <2>4. tables' = [t \in Table |-> tables'[t]]
      BY <1>1
    <2> QED
      BY <1>1, <2>1, <2>2, <2>3, <2>4 DEF Forms, TableForm
  <1>4. DoneForm'
    <2>1. \A u \in Id : done[u] \in Seq(Entry) /\ Batch(u) \in Entry /\ ~ Batch(u).replaced
      BY <1>1, BatchType DEF Forms, DoneForm, Batch
    <2>2. \A u \in Id : /\ done'[u] = Append(done[u], Batch(u)) /\ done'[u] \in Seq(Entry)
                        /\ ServedIn(done'[u]) <=> ServedIn(done[u])
      BY <1>1, <2>1, Grown
    <2>3. NewId \subseteq Id
      BY DEF Id
    <2> QED
      BY <1>1, <2>2, <2>3 DEF Forms, DoneForm
  <1> QED
    BY <1>2, <1>3, <1>4 DEF Forms

LEMMA InitForms ==
  ASSUME Init
  PROVE  Forms
  <1>1. TableForm
    BY DEF Init, TableForm, NoRows, Table
  <1>2. TxForm /\ MigForm
    BY DEF Init, TxForm, MigForm, Busy
  <1>3. DoneForm
    <2>1. NewId \subseteq Id
      BY DEF Id
    <2> QED
      BY <2>1, NothingAsked DEF Init, DoneForm
  <1> QED
    BY <1>1, <1>2, <1>3 DEF Forms

\* The steps of the system, as the proofs split them.
LEMMA Steps ==
  ASSUME [Next]_vars
  PROVE  \/ \E u \in NewId : \E email, guest : CreateUser(u, email, guest)
         \/ \E th \in Thread : \/ \E u \in Id, T \in SUBSET Ticker : ReadList(th, u, T)
                               \/ DeleteStale(th) \/ InsertFresh(th) \/ Rollback(th)
         \/ \E th \in Thread : Commit(th)
         \/ \E old \in SUBSET Id : PurgeGuests(old)
         \/ ReadLegacy \/ Copy \/ CopyCommits \/ CopyFails \/ UNCHANGED vars
  BY DEF Next, Migrate, Copy, CreateGuest

LEMMA FormsStep ==
  ASSUME Forms, [Next]_vars
  PROVE  Forms'
  <1>1. CASE CopyFails
    BY <1>1 DEF CopyFails, Forms, TableForm, TxForm, DoneForm, MigForm, Busy
  <1>2. CASE UNCHANGED vars
    BY <1>2 DEF vars, Forms, TableForm, TxForm, DoneForm, MigForm, Busy
  <1> QED
    BY <1>1, <1>2, Steps, RequestForms, CommitForms, AccountForms, CopyForms, ReadLegacyForms,
       CopyCommitsForms
\* The shapes of transactions and rows hold in every state.
LEMMA FormsInvariant == Spec => []Forms
  <1>1. Init => Forms
    BY InitForms
  <1>2. Forms /\ [Next]_vars => Forms'
    BY FormsStep
  <1> QED
    BY <1>1, <1>2, PTL DEF Spec

-----------------------------------------------------------------------------
(* Watchlists: what a request under way knows of the list it will change,  *)
(* and what the list holds once requests have committed.                   *)

\* Before its delete, the request has read whatever nobody asked for since; after
\* it, it has deleted or wants that.  If nobody has committed since, it has read
\* and deleted exactly what there is.
View(x, list, d, present) ==
  /\ x.at = "delete" => list \subseteq x.current \cup AskedIn(d)
  /\ x.at # "delete" => list \subseteq Tickers(x.user, x.del) \cup x.want \cup AskedIn(d)
  /\ d = <<>> /\ present =>
       /\ list = x.current
       /\ x.at # "delete" => x.del = Rows(x.user, x.current \ x.want)

\* The list of an account after the transactions d.
Outcome(list, d, present) ==
  ServedIn(d) =>
    /\ list \subseteq AskedIn(d)
    /\ present /\ Len(d) = 1 => list = d[1].tickers

Sees(th) == View(tx[th], Tickers(tx[th].user, tables.watchlists), done[tx[th].user],
                 HasUser(tx[th].user, tables.users))
Outcomes == \A u \in Id : Outcome(Tickers(u, tables.watchlists), done[u], HasUser(u, tables.users))
ListInv  == (\A th \in Busy : Sees(th)) /\ Outcomes

\* What the steps other than the commit of a request do to an account: its list
\* stays (or goes with the account), a migration adds to it, or nobody is at work
\* on it.
Carry(u) ==
  LET old == Tickers(u, tables.watchlists)
      new == Tickers(u, tables'.watchlists)
  IN  \/ /\ done'[u] = done[u] /\ new \subseteq old
         /\ HasUser(u, tables'.users) => HasUser(u, tables.users) /\ new = old
      \/ \E e \in Entry : /\ ~ e.replaced /\ done'[u] = Append(done[u], e)
                          /\ new \subseteq old \cup e.tickers
      \/ ~ ServedIn(done'[u]) /\ \A th \in Busy : tx[th].user # u

LEMMA ViewCarried ==
  ASSUME NEW x, NEW l, NEW d \in Seq(Entry), NEW p, NEW m, NEW e \in Entry, NEW q,
         View(x, l, d, p), m \subseteq l \cup e.tickers
  PROVE  View(x, m, Append(d, e), q)
  BY Grown DEF View

LEMMA ViewShrinks ==
  ASSUME NEW x, NEW l, NEW d, NEW p \in BOOLEAN, NEW m, NEW q \in BOOLEAN,
         View(x, l, d, p), m \subseteq l, q => p /\ m = l
  PROVE  View(x, m, d, q)
  BY DEF View

LEMMA OutcomeCarried ==
  ASSUME NEW l, NEW d \in Seq(Entry), NEW p \in BOOLEAN, NEW m, NEW e \in Entry, NEW q \in BOOLEAN,
         Outcome(l, d, p), m \subseteq l \cup e.tickers, ~ e.replaced
  PROVE  Outcome(m, Append(d, e), q)
  <1>1. /\ AskedIn(Append(d, e)) = AskedIn(d) \cup e.tickers
        /\ ServedIn(Append(d, e)) <=> ServedIn(d)
        /\ Len(Append(d, e)) = 1 => d = <<>>
    BY Grown
  <1>2. Len(Append(d, e)) = 1 => ~ ServedIn(Append(d, e))
    BY <1>1, NothingAsked
  <1> QED
    BY <1>1, <1>2 DEF Outcome

LEMMA OutcomeShrinks ==
  ASSUME NEW l, NEW d, NEW p \in BOOLEAN, NEW m, NEW q \in BOOLEAN,
         Outcome(l, d, p), m \subseteq l, q => p /\ m = l
  PROVE  Outcome(m, d, q)
  BY DEF Outcome

LEMMA HasUserType == \A u, all : HasUser(u, all) \in BOOLEAN
  BY DEF HasUser

LEMMA Carried ==
  ASSUME Forms, ListInv, \A u \in Id : Carry(u)
  PROVE  (\A o \in Busy : tx'[o] = tx[o] => Sees(o)') /\ Outcomes'
  <1>1. ASSUME NEW u \in Id
        PROVE  Outcome(Tickers(u, tables'.watchlists), done'[u], HasUser(u, tables'.users))
    <2> DEFINE old == Tickers(u, tables.watchlists)
               new == Tickers(u, tables'.watchlists)
               p == HasUser(u, tables.users)
               q == HasUser(u, tables'.users)
    <2>1. Outcome(old, done[u], p) /\ done[u] \in Seq(Entry)
      BY DEF ListInv, Outcomes, Forms, DoneForm
    <2>2. p \in BOOLEAN /\ q \in BOOLEAN
      BY HasUserType
    <2>3. Carry(u)
      OBVIOUS
    <2>4. \/ done'[u] = done[u] /\ new \subseteq old /\ (q => p /\ new = old)
          \/ \E e \in Entry : ~ e.replaced /\ done'[u] = Append(done[u], e) /\ new \subseteq old \cup e.tickers
          \/ ~ ServedIn(done'[u])
      BY <2>3 DEF Carry
    <2> HIDE DEF old, new, p, q
    <2>5. ASSUME done'[u] = done[u], new \subseteq old, q => p /\ new = old PROVE Outcome(new, done'[u], q)
      BY <2>1, <2>2, <2>5, OutcomeShrinks
    <2>6. ASSUME NEW e \in Entry, ~ e.replaced, done'[u] = Append(done[u], e), new \subseteq old \cup e.tickers
          PROVE  Outcome(new, done'[u], q)
      BY <2>1, <2>2, <2>6, OutcomeCarried
    <2>7. ASSUME ~ ServedIn(done'[u]) PROVE Outcome(new, done'[u], q)
      BY <2>7 DEF Outcome
    <2>8. Outcome(new, done'[u], q)
      BY <2>4, <2>5, <2>6, <2>7
    <2> QED
      BY <2>8 DEF new, q
  <1>2. ASSUME NEW o \in Busy, tx'[o] = tx[o]
        PROVE  View(tx'[o], Tickers(tx'[o].user, tables'.watchlists), done'[tx'[o].user],
                    HasUser(tx'[o].user, tables'.users))
    <2>0. PICK u : u = tx[o].user
      OBVIOUS
    <2> DEFINE old == Tickers(u, tables.watchlists)
               new == Tickers(u, tables'.watchlists)
               p == HasUser(u, tables.users)
               q == HasUser(u, tables'.users)
    <2>1. u \in Id /\ o \in Busy /\ tx'[o] = tx[o]
      BY <2>0, <1>2 DEF Forms, TxForm, Request
    <2>2. View(tx[o], old, done[u], p) /\ done[u] \in Seq(Entry)
      BY <2>0, <2>1 DEF ListInv, Sees, Forms, DoneForm
    <2>3. p \in BOOLEAN /\ q \in BOOLEAN
      BY HasUserType
    <2>4. Carry(u)
      BY <2>1
    <2>5. \/ done'[u] = done[u] /\ new \subseteq old /\ (q => p /\ new = old)
          \/ \E e \in Entry : done'[u] = Append(done[u], e) /\ new \subseteq old \cup e.tickers
      BY <2>0, <2>1, <2>4 DEF Carry
    <2> HIDE DEF old, new, p, q
    <2>6. ASSUME done'[u] = done[u], new \subseteq old, q => p /\ new = old PROVE View(tx[o], new, done'[u], q)
      BY <2>2, <2>3, <2>6, ViewShrinks
    <2>7. ASSUME NEW e \in Entry, done'[u] = Append(done[u], e), new \subseteq old \cup e.tickers
          PROVE  View(tx[o], new, done'[u], q)
      <3>1. View(tx[o], new, Append(done[u], e), q)
        BY <2>2, <2>7, ViewCarried
      <3> QED
        BY <3>1, <2>7
    <2>8. View(tx[o], new, done'[u], q)
      BY <2>5, <2>6, <2>7
    <2> QED
      BY <2>0, <2>1, <2>8 DEF new, q
  <1> QED
    BY <1>1, <1>2 DEF Sees, Outcomes
\* No transaction moves and the tables stay: what was known of the lists still is.
LEMMA Unmoved ==
  ASSUME Forms, ListInv, \A u \in Id : Carry(u), UNCHANGED tx
  PROVE  ListInv'
  <1>1. Busy' = Busy /\ \A o \in Busy : tx'[o] = tx[o]
    BY DEF Busy
  <1> QED
    BY <1>1, Carried DEF ListInv

LEMMA AccountLists ==
  ASSUME Forms, ListInv,
         \/ \E u \in NewId : \E email, guest : CreateUser(u, email, guest)
         \/ \E old \in SUBSET Id : PurgeGuests(old)
  PROVE  ListInv'
  <1>1. CASE \E u \in NewId : \E email, guest : CreateUser(u, email, guest)
    <2>1. PICK u \in NewId : \E email, guest : CreateUser(u, email, guest)
      BY <1>1
    <2>2. PICK email, guest :
            /\ u \notin given
            /\ tables' = [tables EXCEPT !.users = @ \cup {[id |-> u, email |-> email, guest |-> guest]}]
            /\ UNCHANGED <<tx, done>>
      BY <2>1 DEF CreateUser
    <2>3. /\ tables'.users = tables.users \cup {[id |-> u, email |-> email, guest |-> guest]}
          /\ tables'.watchlists = tables.watchlists
      BY <2>2 DEF Forms, TableForm, Table
    <2>4. ASSUME NEW v \in Id PROVE Carry(v)
      <3>1. CASE v = u
        <4>1. ~ ServedIn(done'[v]) /\ \A th \in Busy : tx[th].user # v
          BY <2>2, <3>1 DEF Forms, DoneForm, TxForm, Request
        <4> QED
          BY <4>1 DEF Carry
      <3>2. CASE v # u
        <4>1. HasUser(v, tables'.users) => HasUser(v, tables.users)
          BY <2>3, <3>2 DEF HasUser
        <4> QED
          BY <2>2, <2>3, <4>1 DEF Carry
      <3> QED
        BY <3>1, <3>2
    <2> QED
      BY <2>2, <2>4, Unmoved
  <1>2. CASE \E old \in SUBSET Id : PurgeGuests(old)
    <2>1. PICK old \in SUBSET Id : PurgeGuests(old)
      BY <1>2
    <2>2. /\ tables'.users = {x \in tables.users : x.id \notin old}
          /\ tables'.watchlists = {r \in tables.watchlists : r.user \notin old}
          /\ UNCHANGED <<tx, done>>
      BY <2>1 DEF PurgeGuests, Forms, TableForm, Table
    <2>3. ASSUME NEW v \in Id PROVE Carry(v)
      <3>1. Tickers(v, tables'.watchlists) \subseteq Tickers(v, tables.watchlists)
        BY <2>2 DEF Tickers
      <3>2. v \notin old => Tickers(v, tables'.watchlists) = Tickers(v, tables.watchlists)
        BY <2>2 DEF Tickers
      <3>3. HasUser(v, tables'.users) => HasUser(v, tables.users) /\ v \notin old
        BY <2>2 DEF HasUser
      <3> QED
        BY <2>2, <3>1, <3>2, <3>3 DEF Carry
    <2> QED
      BY <2>2, <2>3, Unmoved
  <1> QED
    BY <1>1, <1>2

LEMMA MigrationLists ==
  ASSUME Forms, ListInv, ReadLegacy \/ Copy \/ CopyCommits \/ CopyFails \/ UNCHANGED vars
  PROVE  ListInv'
  <1>1. UNCHANGED tx
    BY DEF ReadLegacy, Copy, CopyUsers, CopyWatchlists, CopyAlerts, CopyDeliveries, CopyCommits,
           CopyFails, vars
  <1>2. ASSUME NEW u \in Id PROVE Carry(u)
    <2>1. CASE ReadLegacy
      <3>1. UNCHANGED tables /\ done'[u] = IF Quiet(u) THEN <<>> ELSE done[u]
        BY <2>1 DEF ReadLegacy
      <3>2. CASE Quiet(u)
        <4>1. ~ ServedIn(done'[u]) /\ \A th \in Busy : tx[th].user # u
          BY <3>1, <3>2, NothingAsked DEF Quiet
        <4> QED
          BY <4>1 DEF Carry
      <3>3. CASE ~ Quiet(u)
        BY <3>1, <3>3 DEF Carry
      <3> QED
        BY <3>2, <3>3
    <2>2. CASE Copy \/ CopyFails \/ UNCHANGED vars
      <3>1. UNCHANGED <<tables, done>>
        BY <2>2 DEF Copy, CopyUsers, CopyWatchlists, CopyAlerts, CopyDeliveries, CopyFails, vars
      <3> QED
        BY <3>1 DEF Carry
    <2>3. CASE CopyCommits
      <3>1. /\ mig # None
            /\ tables'.watchlists = tables.watchlists \cup mig.ins.watchlists
            /\ done' = [v \in Id |-> Append(done[v], Batch(v))]
        BY <2>3 DEF CopyCommits, Copying, Adds, Batch, Tickers, Table
      <3>2. Batch(u) \in Entry /\ ~ Batch(u).replaced
        BY <3>1, BatchType DEF Batch
      <3>3. mig.ins.watchlists \subseteq mig.rows.watchlists
        BY <3>1 DEF Forms, MigForm
      <3>4. Tickers(u, tables'.watchlists) \subseteq Tickers(u, tables.watchlists) \cup Batch(u).tickers
        <4>1. Batch(u).tickers = Tickers(u, mig.rows.watchlists)
          BY DEF Batch
        <4>2. Tickers(u, tables.watchlists \cup mig.ins.watchlists)
                = Tickers(u, tables.watchlists) \cup Tickers(u, mig.ins.watchlists)
          BY TickersUnion
        <4>3. Tickers(u, mig.ins.watchlists) \subseteq Tickers(u, mig.rows.watchlists)
          BY <3>3, TickersUnion
        <4> QED
          BY <3>1, <4>1, <4>2, <4>3
      <3> QED
        BY <3>1, <3>2, <3>4 DEF Carry
    <2> QED
      BY <2>1, <2>2, <2>3
  <1> QED
    BY <1>1, <1>2, Unmoved

\* A request begins, deletes, inserts or is rolled back: only what is known of the
\* list by the request itself changes.
LEMMA RequestLists ==
  ASSUME Forms, ListInv, NEW th \in Thread,
         \/ \E u \in Id, T \in SUBSET Ticker : ReadList(th, u, T)
         \/ DeleteStale(th) \/ InsertFresh(th) \/ Rollback(th)
  PROVE  ListInv'
  <1>1. UNCHANGED <<tables, given>>
    BY DEF ReadList, DeleteStale, InsertFresh, Rollback
  <1>2. CASE \E u \in Id, T \in SUBSET Ticker : ReadList(th, u, T)
    <2>1. PICK u \in Id, T \in SUBSET Ticker : ReadList(th, u, T)
      BY <1>2
    <2> DEFINE x == [at |-> "delete", user |-> u, want |-> T,
                     current |-> List(u), ins |-> {}, del |-> {}]
    <2>2. Request(x, given) /\ tx' = [tx EXCEPT ![th] = x]
      <3>1. u \in NewId => u \in given
        BY <2>1 DEF ReadList, HasUser, Forms, TableForm
      <3> QED
        BY <2>1, <3>1, RequestMoves
    <2>3. tx'[th] = x /\ \A o \in Busy' \ {th} : o \in Busy /\ tx'[o] = tx[o]
      BY <1>1, <2>2, TxMoves DEF Forms, Busy
    <2>4. done' = IF Quiet(u) THEN [done EXCEPT ![u] = <<>>] ELSE done
      BY <2>1 DEF ReadList
    <2>5. ASSUME NEW v \in Id PROVE Carry(v)
      <3>1. CASE v = u /\ Quiet(u)
        <4>1. ~ ServedIn(done'[v]) /\ \A o \in Busy : tx[o].user # v
          BY <2>4, <3>1, NothingAsked DEF Quiet, Forms, DoneForm
        <4> QED
          BY <4>1 DEF Carry
      <3>2. CASE ~ (v = u /\ Quiet(u))
        <4>1. done'[v] = done[v]
          BY <2>4, <3>2 DEF Forms, DoneForm
        <4> QED
          BY <4>1, <1>1 DEF Carry
      <3> QED
        BY <3>1, <3>2
    <2>6. Sees(th)'
      <3>1. /\ x.at = "delete" /\ x.user = u
            /\ x.current = Tickers(u, tables'.watchlists)
        BY <1>1, ListIs
      <3>2. tx'[th] = x
        BY <2>3
      <3> HIDE DEF x
      <3> QED
        BY <3>1, <3>2 DEF Sees, View
    <2>7. (\A o \in Busy' \ {th} : Sees(o)') /\ Outcomes'
      BY <2>3, <2>5, Carried
    <2> QED
      BY <2>6, <2>7 DEF ListInv
  <1>3. CASE DeleteStale(th) \/ InsertFresh(th) \/ Rollback(th)
    <2>1. UNCHANGED done /\ th \in Busy
      BY <1>3 DEF DeleteStale, InsertFresh, Rollback
    <2>2. \A v \in Id : Carry(v)
      BY <1>1, <2>1 DEF Carry
    <2>3. \A o \in Busy' \ {th} : o \in Busy /\ tx'[o] = tx[o]
      <3>1. Rollback(th) => tx' = [tx EXCEPT ![th] = None]
        BY DEF Rollback
      <3> QED
        BY <1>1, <1>3, <3>1, RequestMoves, TxMoves DEF Forms, Busy
    <2>4. (\A o \in Busy' \ {th} : Sees(o)') /\ Outcomes'
      BY <2>2, <2>3, Carried
    <2> DEFINE y == tx[th]
    <2>5. /\ Request(y, given)
          /\ View(y, Tickers(y.user, tables.watchlists), done[y.user], HasUser(y.user, tables.users))
          /\ \A r \in tables.watchlists : IsRow(r)
      BY <2>1 DEF Forms, TxForm, TableForm, ListInv, Sees
    <2>6. CASE DeleteStale(th)
      <3> DEFINE del == Rows(y.user, y.current \ y.want) \cap tables.watchlists
                 x == [y EXCEPT !.at = "insert", !.del = del]
                 L == Tickers(y.user, tables.watchlists)
      <3>1. Request(x, given) /\ tx' = [tx EXCEPT ![th] = x] /\ y.at = "delete"
        BY <2>6, RequestMoves DEF DeleteStale
      <3>2. /\ x.at = "insert" /\ x.user = y.user /\ x.want = y.want
            /\ x.current = y.current /\ x.del = del
        BY <2>5 DEF Request
      <3>3. tx'[th] = x
        BY <1>1, <3>1, TxMoves DEF Forms
      <3>4. \A t \in L : t \in y.current \ y.want => t \in Tickers(y.user, del)
        <4> SUFFICES ASSUME NEW t \in L, t \in y.current \ y.want PROVE t \in Tickers(y.user, del)
          OBVIOUS
        <4>1. PICK r \in tables.watchlists : r.user = y.user /\ r.ticker = t
          BY DEF Tickers
        <4>2. r = [user |-> y.user, ticker |-> t]
          BY <2>5, <4>1 DEF IsRow
        <4>3. r \in del
          BY <4>1, <4>2 DEF Rows
        <4> QED
          BY <4>1, <4>3 DEF Tickers
      <3>5. L \subseteq y.current \cup AskedIn(done[y.user])
        BY <2>5, <3>1 DEF View
      <3>6. L \subseteq Tickers(y.user, del) \cup y.want \cup AskedIn(done[y.user])
        BY <3>4, <3>5
      <3>7. ASSUME done[y.user] = <<>>, HasUser(y.user, tables.users)
            PROVE  L = y.current /\ del = Rows(y.user, y.current \ y.want)
        <4>1. L = y.current
          BY <2>5, <3>7 DEF View
        <4>2. ASSUME NEW t \in y.current \ y.want PROVE [user |-> y.user, ticker |-> t] \in tables.watchlists
          <5>1. PICK r \in tables.watchlists : r.user = y.user /\ r.ticker = t
            BY <4>1, <4>2 DEF Tickers
          <5> QED
            BY <2>5, <5>1 DEF IsRow
        <4> QED
          BY <4>1, <4>2 DEF Rows
      <3> HIDE DEF y, x, del
      <3>8. Sees(th)'
        BY <1>1, <2>1, <3>2, <3>3, <3>6, <3>7 DEF Sees, View
      <3> QED
        BY <2>4, <3>8 DEF ListInv
    <2>7. CASE InsertFresh(th)
      <3> DEFINE x == [y EXCEPT !.at = "commit", !.ins = Rows(y.user, y.want \ y.current)]
      <3>1. Request(x, given) /\ tx' = [tx EXCEPT ![th] = x] /\ y.at = "insert"
        BY <2>7, RequestMoves DEF InsertFresh
      <3>2. /\ x.at = "commit" /\ x.user = y.user /\ x.want = y.want
            /\ x.current = y.current /\ x.del = y.del
        BY <2>5 DEF Request
      <3>3. tx'[th] = x
        BY <1>1, <3>1, TxMoves DEF Forms
      <3> HIDE DEF y, x
      <3>4. Sees(th)'
        BY <1>1, <2>1, <2>5, <3>1, <3>2, <3>3 DEF Sees, View
      <3> QED
        BY <2>4, <3>4 DEF ListInv
    <2>8. CASE Rollback(th)
      <3>1. tx' = [tx EXCEPT ![th] = None]
        BY <2>8 DEF Rollback
      <3>2. th \notin Busy'
        BY <3>1 DEF Busy, Forms, TxForm
      <3> QED
        BY <2>4, <3>2 DEF ListInv
    <2> QED
      BY <1>3, <2>6, <2>7, <2>8
  <1> QED
    BY <1>2, <1>3
\* A request commits: the list is what it wanted if nobody else has since the last
\* quiet moment, and otherwise holds nothing that was not asked for.
LEMMA CommitLists ==
  ASSUME Forms, ListInv, NEW th \in Thread, Commit(th)
  PROVE  ListInv'
  <1> DEFINE x == tx[th]
             e == [replaced |-> TRUE, tickers |-> x.want]
  <1>1. /\ tables' = [tables EXCEPT !.watchlists = (@ \ x.del) \cup x.ins]
        /\ done' = [done EXCEPT ![x.user] = Append(@, e)]
        /\ tx' = [tx EXCEPT ![th] = None] /\ th \in Busy /\ x.at = "commit"
        /\ UNCHANGED given
    BY DEF Commit, Committed
  <1>2. /\ Request(x, given)
        /\ View(x, Tickers(x.user, tables.watchlists), done[x.user], HasUser(x.user, tables.users))
        /\ \A r \in tables.watchlists : IsRow(r)
    BY <1>1 DEF Forms, TxForm, TableForm, ListInv, Sees
  <1>3. e \in Entry /\ e.replaced /\ e.tickers = x.want
    BY <1>2 DEF Request, Entry, AnyTicker
  <1>4. PICK w : w = x.user
    OBVIOUS
  <1> HIDE DEF x, e
  <1>5. /\ x.del \subseteq Rows(w, x.current \ x.want) /\ x.ins = Rows(w, x.want \ x.current)
        /\ w \in Id /\ done[w] \in Seq(Entry)
    BY <1>1, <1>2, <1>4 DEF Request, Forms, DoneForm
  <1>6. /\ tables'.users = tables.users
        /\ tables'.watchlists = (tables.watchlists \ x.del) \cup x.ins
        /\ done'[w] = Append(done[w], e) /\ \A u \in Id \ {w} : done'[u] = done[u]
    BY <1>1, <1>4, <1>5 DEF Forms, TableForm, DoneForm, Table
  <1>7. \A o \in Busy' : o \in Busy /\ tx'[o] = tx[o]
    BY <1>1 DEF Busy, Forms, TxForm
  <1> DEFINE old == Tickers(w, tables.watchlists)
             new == Tickers(w, tables'.watchlists)
             gone == Tickers(w, x.del)
  <1>8. new = (old \ gone) \cup (x.want \ x.current)
    <2>1. Tickers(w, tables.watchlists \ x.del) = old \ gone
      BY <1>2, <1>5, TickersRemoved
    <2>2. Tickers(w, x.ins) = x.want \ x.current
      BY <1>5, TickersOfRows
    <2>3. new = Tickers(w, tables.watchlists \ x.del) \cup Tickers(w, x.ins)
      BY <1>6, TickersUnion
    <2> QED
      BY <2>1, <2>2, <2>3
  <1>9. ASSUME NEW u \in Id \ {w} PROVE Tickers(u, tables'.watchlists) = Tickers(u, tables.watchlists)
    <2>0. u # w
      OBVIOUS
    <2>1. Tickers(u, tables.watchlists \ x.del) = Tickers(u, tables.watchlists)
      <3>1. \A r \in x.del : r.user = w
        BY <1>5 DEF Rows
      <3> QED
        BY <2>0, <3>1 DEF Tickers
    <2>2. Tickers(u, x.ins) = {}
      BY <1>5, TickersOfRows
    <2>3. Tickers(u, tables'.watchlists) = Tickers(u, tables.watchlists \ x.del) \cup Tickers(u, x.ins)
      BY <1>6, TickersUnion
    <2> QED
      BY <2>1, <2>2, <2>3
  <1>10. /\ old \subseteq gone \cup x.want \cup AskedIn(done[w])
         /\ done[w] = <<>> /\ HasUser(w, tables.users) =>
              old = x.current /\ x.del = Rows(w, x.current \ x.want)
    BY <1>1, <1>2, <1>4 DEF View
  <1>11. done[w] = <<>> /\ HasUser(w, tables.users) => new = x.want
    <2> SUFFICES ASSUME done[w] = <<>>, HasUser(w, tables.users) PROVE new = x.want
      OBVIOUS
    <2>1. gone = x.current \ x.want
      BY <1>10, TickersOfRows
    <2> QED
      BY <1>8, <1>10, <2>1
  <1>12. new \subseteq old \cup e.tickers /\ new \subseteq AskedIn(done[w]) \cup e.tickers
    BY <1>3, <1>8, <1>10
  <1> HIDE DEF old, new, gone
  <1>13. \A u \in Id : Outcome(Tickers(u, tables'.watchlists), done'[u], HasUser(u, tables'.users))
    <2>1. Outcome(new, done'[w], HasUser(w, tables'.users))
      <3>1. /\ AskedIn(done'[w]) = AskedIn(done[w]) \cup e.tickers
            /\ Len(done'[w]) = 1 => done[w] = <<>> /\ done'[w][1] = e
        BY <1>3, <1>5, <1>6, Grown
      <3> QED
        BY <3>1, <1>3, <1>6, <1>11, <1>12 DEF Outcome
    <2>2. ASSUME NEW u \in Id \ {w}
          PROVE  Outcome(Tickers(u, tables'.watchlists), done'[u], HasUser(u, tables'.users))
      BY <1>6, <1>9 DEF ListInv, Outcomes
    <2> QED
      BY <2>1, <2>2 DEF new
  <1>14. ASSUME NEW o \in Busy' PROVE Sees(o)'
    <2>1. o \in Busy /\ tx'[o] = tx[o]
      BY <1>7
    <2>2. View(tx[o], Tickers(tx[o].user, tables.watchlists), done[tx[o].user],
               HasUser(tx[o].user, tables.users))
      BY <2>1 DEF ListInv, Sees
    <2>3. CASE tx[o].user = w
      <3>1. View(tx[o], old, done[w], HasUser(w, tables.users))
        BY <2>2, <2>3 DEF old
      <3>2. View(tx[o], new, Append(done[w], e), HasUser(w, tables.users))
        BY <3>1, <1>3, <1>5, <1>12, ViewCarried
      <3> QED
        BY <2>1, <2>3, <3>2, <1>6 DEF Sees, new
    <2>4. CASE tx[o].user # w
      <3>1. tx[o].user \in Id \ {w}
        BY <2>1, <2>4 DEF Forms, TxForm, Request
      <3>2. /\ Tickers(tx[o].user, tables'.watchlists) = Tickers(tx[o].user, tables.watchlists)
            /\ done'[tx[o].user] = done[tx[o].user]
        BY <3>1, <1>6, <1>9
      <3> QED
        BY <2>1, <2>2, <3>2, <1>6 DEF Sees
    <2> QED
      BY <2>3, <2>4
  <1> QED
    BY <1>13, <1>14 DEF ListInv, Outcomes

LEMMA ListStep ==
  ASSUME Forms, ListInv, [Next]_vars
  PROVE  ListInv'
  BY Steps, AccountLists, RequestLists, CommitLists, MigrationLists

\* Once no transaction is under way for an account, its watchlist holds only what one
\* of those that overlapped asked for, and exactly what the only one asked that
\* committed: two requests, a migration and the purge interleave statement by
\* statement at READ COMMITTED, whatever the lists were before.
THEOREM ListsAreAsked == Spec => []ListWasAsked
  <1>1. Init => ListInv
    BY NothingAsked DEF Init, ListInv, Outcomes, Outcome, Busy
  <1>2. Forms /\ ListInv /\ [Next]_vars => ListInv'
    BY ListStep
  <1>3. ListInv => ListWasAsked
    <2> SUFFICES ASSUME ListInv, NEW u \in Id, HasUser(u, tables.users), ServedIn(done[u])
                 PROVE  /\ List(u) \subseteq AskedIn(done[u])
                        /\ Len(done[u]) = 1 => List(u) = done[u][1].tickers
      BY DEF ListWasAsked, ServedIn, AskedIn
    <2> QED
      BY ListIs DEF ListInv, Outcomes, Outcome
  <1> QED
    BY <1>1, <1>2, <1>3, FormsInvariant, PTL DEF Spec
-----------------------------------------------------------------------------
(* The migration: what it copied, with what was there, is all that it      *)
(* converted, until it commits.                                            *)

\* Guests are told by their email and an id stands for one kind of account, in the
\* tables and in every legacy store: so the purge of guests takes nothing of the
\* others.
Kinds ==
  \A x \in tables.users :
    /\ x.guest <=> x.email \notin Email
    /\ \A y \in tables.users : x.id = y.id => (x.guest <=> y.guest)
    /\ \A docs \in Legacy : \A i \in DOMAIN docs.users :
         docs.users[i].id = x.id => (docs.users[i].guest <=> x.guest)

Landing ==
  mig # None =>
    /\ mig.at \in {"deliveries", "commit"} => mig.rows.alerts \subseteq tables.alerts \cup mig.ins.alerts
    /\ \A u \in mig.rows.users : ~ u.guest =>
         /\ mig.at # "users" => Present(u, tables.users \cup mig.ins.users)
         /\ mig.at \notin {"users", "watchlists"} /\ done[u.id] = <<>> =>
              {r \in mig.rows.watchlists : r.user = u.id} \subseteq tables.watchlists \cup mig.ins.watchlists
         /\ mig.at = "commit" =>
              {d \in mig.rows.deliveries : d.user = u.id} \subseteq tables.deliveries \cup mig.ins.deliveries

\* An account that is converted is of the kind every legacy store says.
LEMMA ConvertedKinds ==
  ASSUME Forms, mig # None, NEW u \in mig.rows.users
  PROVE  /\ u.id \in Id \ NewId
         /\ u.guest <=> u.email \notin Email
         /\ \A docs \in Legacy : \A i \in DOMAIN docs.users :
              docs.users[i].id = u.id => (docs.users[i].guest <=> u.guest)
         /\ Kinds => \A x \in tables.users : x.id = u.id => (x.guest <=> u.guest)
         /\ \A v \in mig.rows.users : v.id = u.id => (v.guest <=> u.guest)
  <1>1. PICK docs \in Legacy : mig.rows = Convert(docs)
    BY DEF Forms, MigForm
  <1>2. \A v \in mig.rows.users : \E i \in DOMAIN docs.users :
          v = [id |-> docs.users[i].id, email |-> docs.users[i].email, guest |-> docs.users[i].guest]
    BY <1>1, Converted
  <1>3. PICK i \in DOMAIN docs.users :
          u = [id |-> docs.users[i].id, email |-> docs.users[i].email, guest |-> docs.users[i].guest]
    BY <1>2
  <1>4. u.id = docs.users[i].id /\ u.email = docs.users[i].email /\ u.guest = docs.users[i].guest
    BY <1>3
  <1>5. u.id \in Id \ NewId
    BY <1>4, IdAssumption DEF Id
  <1>6. u.guest <=> u.email \notin Email
    BY <1>4, IdAssumption
  <1>7. \A older \in Legacy : \A j \in DOMAIN older.users :
          older.users[j].id = u.id => (older.users[j].guest <=> u.guest)
    BY <1>4, IdAssumption
  <1>8. Kinds => \A x \in tables.users : x.id = u.id => (x.guest <=> u.guest)
    BY <1>4 DEF Kinds
  <1>9. \A v \in mig.rows.users : v.id = u.id => (v.guest <=> u.guest)
    <2> SUFFICES ASSUME NEW v \in mig.rows.users, v.id = u.id PROVE v.guest <=> u.guest
      OBVIOUS
    <2>1. PICK j \in DOMAIN docs.users : v.id = docs.users[j].id /\ v.guest = docs.users[j].guest
      BY <1>2
    <2> QED
      BY <2>1, <1>7
  <1> QED
    BY <1>5, <1>6, <1>7, <1>8, <1>9

LEMMA KindsStep ==
  ASSUME Forms, Kinds, [Next]_vars
  PROVE  Kinds'
  <1>1. ASSUME NEW u \in NewId, NEW email, NEW guest, CreateUser(u, email, guest),
               guest \in BOOLEAN, guest <=> email \notin Email
        PROVE  Kinds'
    <2> DEFINE new == [id |-> u, email |-> email, guest |-> guest]
    <2>1. tables'.users = tables.users \cup {new} /\ u \notin given
      BY <1>1 DEF CreateUser, Forms, TableForm, Table
    <2>2. /\ new.id = u /\ (new.guest <=> new.email \notin Email)
          /\ \A x \in tables.users : x.id # u
          /\ \A docs \in Legacy : \A i \in DOMAIN docs.users : docs.users[i].id # u
      BY <1>1, <2>1, IdAssumption DEF Forms, TableForm
    <2> HIDE DEF new
    <2> QED
      BY <2>1, <2>2 DEF Kinds
  <1>2. CASE \E u \in NewId : CreateGuest(u) \/ \E e \in Email : CreateUser(u, e, FALSE)
    <2>1. PICK u \in NewId : CreateGuest(u) \/ \E e \in Email : CreateUser(u, e, FALSE)
      BY <1>2
    <2>2. CASE CreateGuest(u)
      <3>1. u \notin Email
        BY IdAssumption
      <3> QED
        BY <2>2, <3>1, <1>1 DEF CreateGuest
    <2>3. ASSUME NEW e \in Email, CreateUser(u, e, FALSE) PROVE Kinds'
      BY <2>3, <1>1
    <2> QED
      BY <2>1, <2>2, <2>3
  <1>3. ASSUME tables'.users \subseteq tables.users PROVE Kinds'
    BY <1>3 DEF Kinds
  <1>4. CASE CopyCommits
    <2>1. mig # None /\ tables'.users = tables.users \cup mig.ins.users
      BY <1>4 DEF CopyCommits, Copying, Adds, Table
    <2>2. \A u \in mig.ins.users : u \in mig.rows.users
      BY <2>1 DEF Forms, MigForm
    <2> QED
      BY <2>1, <2>2, ConvertedKinds DEF Kinds
  <1>5. CASE \E th \in Thread : Commit(th)
    BY <1>5, <1>3 DEF Commit, Forms, TableForm, Table
  <1>6. CASE \E old \in SUBSET Id : PurgeGuests(old)
    BY <1>6, <1>3 DEF PurgeGuests, Forms, TableForm, Table
  <1>7. CASE UNCHANGED tables
    BY <1>7, <1>3
  <1> QED
    BY <1>2, <1>4, <1>5, <1>6, <1>7
       DEF Next, Migrate, ReadList, DeleteStale, InsertFresh, Rollback, ReadLegacy,
           CopyUsers, CopyWatchlists, CopyAlerts, CopyDeliveries, CopyFails, vars
\* While a migration is under way, a step may take from the tables only what is not
\* part of what it converted for accounts that are not guests and that no request
\* changed since.
LEMMA LandingKept ==
  ASSUME Landing, UNCHANGED mig, mig # None,
         tables.alerts \subseteq tables'.alerts,
         \A u \in mig.rows.users : ~ u.guest =>
           /\ Present(u, tables.users \cup mig.ins.users) => Present(u, tables'.users \cup mig.ins.users)
           /\ {d \in tables.deliveries : d.user = u.id} \subseteq tables'.deliveries
           /\ done'[u.id] = <<>> => /\ done[u.id] = <<>>
                                    /\ {r \in tables.watchlists : r.user = u.id} \subseteq tables'.watchlists
  PROVE  Landing'
  <1>1. mig.at \in {"deliveries", "commit"} => mig.rows.alerts \subseteq tables'.alerts \cup mig.ins.alerts
    BY DEF Landing
  <1>2. ASSUME NEW u \in mig.rows.users, ~ u.guest
        PROVE  /\ mig.at # "users" => Present(u, tables'.users \cup mig.ins.users)
               /\ mig.at \notin {"users", "watchlists"} /\ done'[u.id] = <<>> =>
                    {r \in mig.rows.watchlists : r.user = u.id} \subseteq tables'.watchlists \cup mig.ins.watchlists
               /\ mig.at = "commit" =>
                    {d \in mig.rows.deliveries : d.user = u.id} \subseteq tables'.deliveries \cup mig.ins.deliveries
    BY <1>2 DEF Landing
  <1> QED
    BY <1>1, <1>2 DEF Landing

LEMMA TablesKept ==
  ASSUME Landing, UNCHANGED mig, mig # None, \A t \in Table : tables[t] \subseteq tables'[t], UNCHANGED done
  PROVE  Landing'
  <1>1. /\ tables.users \subseteq tables'.users /\ tables.alerts \subseteq tables'.alerts
        /\ tables.watchlists \subseteq tables'.watchlists /\ tables.deliveries \subseteq tables'.deliveries
    BY DEF Table
  <1>2. \A u : Present(u, tables.users \cup mig.ins.users) => Present(u, tables'.users \cup mig.ins.users)
    BY <1>1 DEF Present
  <1> QED
    BY <1>1, <1>2, LandingKept

LEMMA LandingPurge ==
  ASSUME Forms, Kinds, Landing, mig # None, NEW old, PurgeGuests(old)
  PROVE  Landing'
  <1>1. /\ tables'.users = {x \in tables.users : x.id \notin old}
        /\ tables'.watchlists = {r \in tables.watchlists : r.user \notin old}
        /\ tables'.deliveries = {d \in tables.deliveries : d.user \notin old}
        /\ tables'.alerts = tables.alerts
        /\ \A o \in old : \E x \in tables.users : x.guest /\ x.id = o
        /\ UNCHANGED <<mig, done>>
    BY DEF PurgeGuests, Forms, TableForm, Table
  <1>2. ASSUME NEW u \in mig.rows.users, ~ u.guest
        PROVE  /\ u.id \notin old
               /\ Present(u, tables.users \cup mig.ins.users) => Present(u, tables'.users \cup mig.ins.users)
    <2>1. /\ u.email \in Email
          /\ \A x \in tables.users : x.id = u.id => ~ x.guest
      BY <1>2, ConvertedKinds
    <2>2. u.id \notin old
      BY <1>1, <2>1
    <2>3. ASSUME NEW x \in tables.users, x.id = u.id \/ x.email = u.email PROVE x \in tables'.users
      <3>1. ~ x.guest
        BY <2>1, <2>3 DEF Kinds
      <3>2. x.id \notin old
        BY <1>1, <3>1 DEF Kinds
      <3> QED
        BY <1>1, <3>2
    <2> QED
      BY <2>2, <2>3 DEF Present
  <1> QED
    BY <1>1, <1>2, LandingKept

LEMMA LandingCommit ==
  ASSUME Forms, Landing, mig # None, NEW th \in Thread, Commit(th)
  PROVE  Landing'
  <1> DEFINE x == tx[th]
  <1>1. /\ tables' = [tables EXCEPT !.watchlists = (@ \ x.del) \cup x.ins]
        /\ done' = [done EXCEPT ![x.user] = Append(@, [replaced |-> TRUE, tickers |-> x.want])]
        /\ th \in Busy /\ x.at = "commit" /\ UNCHANGED mig
    BY DEF Commit, Committed
  <1>2. Request(x, given)
    BY <1>1 DEF Forms, TxForm
  <1> HIDE DEF x
  <1>3. /\ x.user \in Id /\ \A r \in x.del : r.user = x.user
    BY <1>1, <1>2 DEF Request, Rows
  <1>4. done'[x.user] # <<>>
    <2>1. [replaced |-> TRUE, tickers |-> x.want] \in Entry
      BY <1>2 DEF Request, Entry, AnyTicker
    <2>2. done[x.user] \in Seq(Entry) /\ done'[x.user] = Append(done[x.user], [replaced |-> TRUE, tickers |-> x.want])
      BY <1>1, <1>3 DEF Forms, DoneForm
    <2> QED
      BY <2>1, <2>2, Grown
  <1>5. /\ tables'.users = tables.users /\ tables'.alerts = tables.alerts
        /\ tables'.deliveries = tables.deliveries
        /\ tables'.watchlists = (tables.watchlists \ x.del) \cup x.ins
    BY <1>1 DEF Forms, TableForm, Table
  <1>6. ASSUME NEW u \in mig.rows.users, done'[u.id] = <<>>
        PROVE  /\ done[u.id] = <<>>
               /\ {r \in tables.watchlists : r.user = u.id} \subseteq tables'.watchlists
    <2>1. u.id \in Id /\ u.id # x.user
      BY <1>4, <1>6, ConvertedKinds
    <2>2. done'[u.id] = done[u.id]
      BY <1>1, <2>1 DEF Forms, DoneForm
    <2> QED
      BY <1>3, <1>5, <1>6, <2>1, <2>2
  <1> QED
    BY <1>1, <1>5, <1>6, LandingKept

\* The copying steps establish, table by table, what the migration has landed.
LEMMA LandingCopy ==
  ASSUME Forms, Landing, Copy
  PROVE  Landing'
  <1>1. mig # None /\ UNCHANGED <<tables, done>>
    BY DEF Copy, CopyUsers, CopyWatchlists, CopyAlerts, CopyDeliveries, Copying
  <1>2. ASSUME NEW t \in Table, NEW ins, mig.at = t, Copies(t, ins)
        PROVE  /\ mig'.rows = mig.rows /\ mig'.at = After[t]
               /\ mig'.ins[t] = ins /\ \A o \in Table \ {t} : mig'.ins[o] = mig.ins[o]
    BY <1>1, <1>2, CopyMoves
  <1>3. CASE CopyUsers
    <2> DEFINE ins == {u \in mig.rows.users : \A x \in tables.users : x.id # u.id /\ x.email # u.email}
    <2>1. mig.at = "users" /\ Copies("users", ins)
      BY <1>3 DEF CopyUsers, Copying
    <2>2. mig'.rows = mig.rows /\ mig'.at = "watchlists" /\ mig'.ins.users = ins
      BY <1>2, <2>1 DEF Table, After
    <2>3. ASSUME NEW u \in mig.rows.users PROVE Present(u, tables.users \cup ins)
      BY DEF Present
    <2> HIDE DEF ins
    <2> QED
      BY <1>1, <2>2, <2>3 DEF Landing
  <1>4. CASE CopyWatchlists
    <2>1. mig.at = "watchlists" /\ Copies("watchlists", mig.rows.watchlists \ tables.watchlists)
      BY <1>4 DEF CopyWatchlists, Copying
    <2>2. /\ mig'.rows = mig.rows /\ mig'.at = "alerts" /\ mig'.ins.users = mig.ins.users
          /\ mig'.ins.watchlists = mig.rows.watchlists \ tables.watchlists
      BY <1>2, <2>1 DEF Table, After
    <2> QED
      BY <1>1, <2>1, <2>2 DEF Landing
  <1>5. CASE CopyAlerts
    <2>1. mig.at = "alerts" /\ Copies("alerts", mig.rows.alerts \ tables.alerts)
      BY <1>5 DEF CopyAlerts, Copying
    <2>2. /\ mig'.rows = mig.rows /\ mig'.at = "deliveries" /\ mig'.ins.users = mig.ins.users
          /\ mig'.ins.watchlists = mig.ins.watchlists
          /\ mig'.ins.alerts = mig.rows.alerts \ tables.alerts
      BY <1>2, <2>1 DEF Table, After
    <2> QED
      BY <1>1, <2>1, <2>2 DEF Landing
  <1>6. CASE CopyDeliveries
    <2>1. mig.at = "deliveries" /\ Copies("deliveries", mig.rows.deliveries \ tables.deliveries)
      BY <1>6 DEF CopyDeliveries, Copying
    <2>2. /\ mig'.rows = mig.rows /\ mig'.at = "commit" /\ mig'.ins.users = mig.ins.users
          /\ mig'.ins.watchlists = mig.ins.watchlists /\ mig'.ins.alerts = mig.ins.alerts
          /\ mig'.ins.deliveries = mig.rows.deliveries \ tables.deliveries
      BY <1>2, <2>1 DEF Table, After
    <2> QED
      BY <1>1, <2>1, <2>2 DEF Landing
  <1> QED
    BY <1>3, <1>4, <1>5, <1>6 DEF Copy

LEMMA LandingStep ==
  ASSUME Forms, Kinds, Landing, [Next]_vars
  PROVE  Landing'
  <1>1. CASE ReadLegacy
    <2>1. mig' # None => mig'.at = "users"
      BY <1>1 DEF ReadLegacy
    <2> QED
      BY <2>1 DEF Landing
  <1>2. CASE CopyCommits \/ CopyFails
    BY <1>2 DEF CopyCommits, CopyFails, Landing
  <1>3. CASE Copy
    BY <1>3, LandingCopy
  <1>4. ASSUME UNCHANGED mig, mig = None PROVE Landing'
    BY <1>4 DEF Landing
  <1>5. ASSUME NEW th \in Thread, Commit(th) PROVE Landing'
    BY <1>4, <1>5, LandingCommit DEF Commit
  <1>6. ASSUME NEW old \in SUBSET Id, PurgeGuests(old) PROVE Landing'
    BY <1>4, <1>6, LandingPurge DEF PurgeGuests
  <1>7. ASSUME NEW u \in NewId, NEW email, NEW guest, CreateUser(u, email, guest) PROVE Landing'
    <2>1. UNCHANGED <<mig, done>> /\ \A t \in Table : tables[t] \subseteq tables'[t]
      BY <1>7 DEF CreateUser, Forms, TableForm, Table
    <2> QED
      BY <1>4, <2>1, TablesKept
  <1>8. ASSUME NEW th \in Thread,
               \/ \E u \in Id, T \in SUBSET Ticker : ReadList(th, u, T)
               \/ DeleteStale(th) \/ InsertFresh(th) \/ Rollback(th)
        PROVE  Landing'
    <2>1. UNCHANGED <<mig, tables>> /\ (mig # None => UNCHANGED done)
      BY <1>8 DEF ReadList, Quiet, DeleteStale, InsertFresh, Rollback
    <2> QED
      BY <1>4, <2>1, TablesKept
  <1>9. CASE UNCHANGED vars
    BY <1>4, <1>9, TablesKept DEF vars
  <1> QED
    BY <1>1, <1>2, <1>3, <1>5, <1>6, <1>7, <1>8, <1>9, Steps

\* A migration lands completely or not at all: when its run ends, the tables are as
\* they were, or hold everything it converted, whatever requests, sign-ups and purges
\* committed between its statements (except what those removed themselves).
THEOREM MigrationLandsWhole == Spec => LandsCompletelyOrNotAtAll
  <1>1. Init => Kinds /\ Landing
    BY DEF Init, Kinds, Landing, NoRows, Table
  <1>2. Forms /\ Kinds /\ Landing /\ [Next]_vars => Kinds' /\ Landing'
    BY KindsStep, LandingStep
  <1> DEFINE Ends ==
        mig # None /\ mig' = None =>
          \/ tables' = tables
          \/ /\ \A t \in Table : tables[t] \subseteq tables'[t]
             /\ mig.rows.alerts \subseteq tables'.alerts
             /\ \A u \in mig.rows.users : ~ u.guest =>
                  /\ Present(u, tables'.users)
                  /\ {d \in mig.rows.deliveries : d.user = u.id} \subseteq tables'.deliveries
                  /\ done[u.id] = <<>> =>
                       {r \in mig.rows.watchlists : r.user = u.id} \subseteq tables'.watchlists
  <1>3. Landing /\ [Next]_vars => [Ends]_vars
    <2> SUFFICES ASSUME Landing, [Next]_vars, mig # None, mig' = None, tables' # tables PROVE Ends
      OBVIOUS
    <2>1. CopyCommits
      BY Steps DEF CreateUser, ReadList, DeleteStale, InsertFresh, Rollback, Commit, PurgeGuests,
                   ReadLegacy, Copy, CopyUsers, CopyWatchlists, CopyAlerts, CopyDeliveries,
                   CopyFails, vars
    <2>2. mig.at = "commit" /\ tables' = [t \in Table |-> tables[t] \cup mig.ins[t]]
      BY <2>1 DEF CopyCommits, Copying, Adds
    <2>3. /\ tables'.users = tables.users \cup mig.ins.users
          /\ tables'.watchlists = tables.watchlists \cup mig.ins.watchlists
          /\ tables'.alerts = tables.alerts \cup mig.ins.alerts
          /\ tables'.deliveries = tables.deliveries \cup mig.ins.deliveries
          /\ \A t \in Table : tables[t] \subseteq tables'[t]
      BY <2>2 DEF Table
    <2> QED
      BY <2>2, <2>3 DEF Landing
  <1>4. LandsCompletelyOrNotAtAll <=> [][Ends]_vars
    BY DEF LandsCompletelyOrNotAtAll
  <1> QED
    BY <1>1, <1>2, <1>3, <1>4, FormsInvariant, PTL DEF Spec
=============================================================================
