------------------------------- MODULE Store -------------------------------
(***************************************************************************)
(* The account tables in PostgreSQL: watchlist requests and the purge of   *)
(* guests (services/webapp/src/store.py) beside the tool that copies the   *)
(* legacy store into them (tools/migrate_to_postgres.py).                  *)
(*                                                                         *)
(* Transactions run at READ COMMITTED: a statement sees what is committed  *)
(* and what its own transaction wrote, and waits for a transaction under   *)
(* way that wrote the same row.  A transaction of a single statement is    *)
(* one step.                                                               *)
(***************************************************************************)
EXTENDS Integers, Sequences, FiniteSets

CONSTANTS
  Thread,        \* threads of the web application
  NewId,         \* ids uuid4 can give to accounts
  Email, Ticker,
  Legacy,        \* the legacy files: [users, watchlists, alerts, deliveries]
  None,
  MaxRequests,   \* bound: watchlist requests
  MaxRuns        \* bound: runs of the migration

\* Ids from uuid4 are not those of the legacy store, whose ids are a primary key;
\* nobody signs up with the made-up email of a guest, and is_guest never changes
\* after create_user, so the files agree on it.
ASSUME IdAssumption ==
  /\ NewId \cap Email = {}
  /\ \A docs \in Legacy : \A i, j \in DOMAIN docs.users :
       /\ docs.users[i].id \notin NewId /\ docs.users[i].email \notin NewId
       /\ docs.users[i].guest <=> docs.users[i].email \notin Email
       /\ docs.users[i].id = docs.users[j].id => i = j
  /\ \A docs, older \in Legacy : \A i \in DOMAIN docs.users, j \in DOMAIN older.users :
       docs.users[i].id = older.users[j].id => (docs.users[i].guest <=> older.users[j].guest)
\* A row of a watchlist is its user and its ticker.
IsRow(r) == r = [user |-> r.user, ticker |-> r.ticker]
ASSUME RowAssumption == \A docs \in Legacy : \A r \in docs.watchlists : IsRow(r)
ASSUME BoundAssumption == MaxRequests \in Nat /\ MaxRuns \in Nat

VARIABLES
  tables,      \* what is committed: users, watchlists, alerts, deliveries
  tx,          \* the watchlist transaction of every thread, or None
  mig,         \* the migration's transaction, or None
  given,       \* the ids uuid4 has given
  count,       \* requests and migration runs so far
  done         \* history: per account, the transactions that committed to its
               \* list since the last moment when none was under way for it
vars == <<tables, tx, mig, given, count, done>>

-----------------------------------------------------------------------------
Id == NewId \cup UNION {{docs.users[i].id : i \in DOMAIN docs.users} : docs \in Legacy}
Table == {"users", "watchlists", "alerts", "deliveries"}
NoRows == [t \in Table |-> {}]

Rows(u, tickers) == {[user |-> u, ticker |-> t] : t \in tickers}
List(u)          == {r.ticker : r \in {x \in tables.watchlists : x.user = u}}
HasUser(u, all)  == \E x \in all : x.id = u
Busy             == {th \in Thread : tx[th] # None}
Quiet(u)         == mig = None /\ \A th \in Busy : tx[th].user # u

\* Rows other transactions under way have deleted, or inserted or deleted.
DeletedBy(others) == UNION {tx[o].del : o \in others \cap Busy}
WrittenBy(others) == DeletedBy(others) \cup UNION {tx[o].ins : o \in others \cap Busy}
Copied            == IF mig = None THEN NoRows ELSE mig.ins

Committed(u, replaced, tickers) ==
  done' = [done EXCEPT ![u] = Append(@, [replaced |-> replaced, tickers |-> tickers])]

-----------------------------------------------------------------------------
Init ==
  /\ tables = NoRows
  /\ tx = [th \in Thread |-> None] /\ mig = None
  /\ given = {} /\ count = [requests |-> 0, runs |-> 0]
  /\ done = [u \in Id |-> <<>>]

\* create_user; a taken email is refused by the unique index.
CreateUser(u, email, guest) ==
  /\ u \in NewId \ given /\ given' = given \cup {u}
  /\ \A x \in tables.users \cup Copied.users : x.email # email
  /\ tables' = [tables EXCEPT !.users = @ \cup {[id |-> u, email |-> email, guest |-> guest]}]
  /\ UNCHANGED <<tx, mig, count, done>>

\* create_guest; the email is made up from an id, here the account's.
CreateGuest(u) == CreateUser(u, u, TRUE)

\* set_watchlist begins: the list is read.
ReadList(th, u, tickers) ==
  /\ th \notin Busy /\ HasUser(u, tables.users)
  /\ count.requests < MaxRequests /\ count' = [count EXCEPT !.requests = @ + 1]
  /\ tx' = [tx EXCEPT ![th] = [at |-> "delete", user |-> u, want |-> tickers,
                               current |-> List(u), ins |-> {}, del |-> {}]]
  /\ done' = IF Quiet(u) THEN [done EXCEPT ![u] = <<>>] ELSE done
  /\ UNCHANGED <<tables, mig, given>>

\* Mutant of DeleteStale: entries are only ever added.
DeleteNothing(th) ==
  /\ th \in Busy /\ tx[th].at = "delete"
  /\ tx' = [tx EXCEPT ![th].at = "insert"]
  /\ UNCHANGED <<tables, mig, given, count, done>>

\* What it read and does not want is deleted, if it is still there.
DeleteStale(th) ==
  /\ th \in Busy /\ tx[th].at = "delete"
  /\ LET stale == Rows(tx[th].user, tx[th].current \ tx[th].want)
     IN  /\ stale \cap DeletedBy(Thread \ {th}) = {}
         /\ tx' = [tx EXCEPT ![th].del = stale \cap tables.watchlists, ![th].at = "insert"]
  /\ UNCHANGED <<tables, mig, given, count, done>>

\* What it wants and did not read is inserted.  A row somebody else inserted, or
\* an account that was purged, fails the request.
InsertFresh(th) ==
  /\ th \in Busy /\ tx[th].at = "insert"
  /\ LET fresh == Rows(tx[th].user, tx[th].want \ tx[th].current)
     IN  /\ fresh \cap (WrittenBy(Thread \ {th}) \cup Copied.watchlists) = {}
         /\ fresh \cap tables.watchlists = {}
         /\ fresh # {} => HasUser(tx[th].user, tables.users)
         /\ tx' = [tx EXCEPT ![th].ins = fresh, ![th].at = "commit"]
  /\ UNCHANGED <<tables, mig, given, count, done>>

Commit(th) ==
  /\ th \in Busy /\ tx[th].at = "commit"
  /\ tables' = [tables EXCEPT !.watchlists = (@ \ tx[th].del) \cup tx[th].ins]
  /\ Committed(tx[th].user, TRUE, tx[th].want)
  /\ tx' = [tx EXCEPT ![th] = None]
  /\ UNCHANGED <<mig, given, count>>

\* An exception rolls the transaction back: a violated constraint, a deadlock
\* PostgreSQL breaks, a lost connection.
Rollback(th) ==
  /\ th \in Busy
  /\ tx' = [tx EXCEPT ![th] = None]
  /\ UNCHANGED <<tables, mig, given, count, done>>

\* purge_guests, with what goes with the guests; it waits for whoever holds their
\* rows.  Which guests are old enough is not modelled.
PurgeGuests(old) ==
  /\ old # {} /\ old \subseteq {x.id : x \in {y \in tables.users : y.guest}}
  /\ \A r \in WrittenBy(Thread) \cup Copied.watchlists \cup Copied.deliveries : r.user \notin old
  /\ tables' = [tables EXCEPT !.users = {x \in @ : x.id \notin old},
                              !.watchlists = {r \in @ : r.user \notin old},
                              !.deliveries = {d \in @ : d.user \notin old}]
  /\ UNCHANGED <<tx, mig, given, count, done>>

-----------------------------------------------------------------------------
\* convert, users: of valid documents with the same email the first is kept.
ConvertUsers(docs) ==
  LET ds == docs.users
  IN  {[id |-> ds[i].id, email |-> ds[i].email, guest |-> ds[i].guest] :
         i \in {n \in DOMAIN ds : ds[n].valid
                  /\ \A e \in 1..(n - 1) : ds[e].valid => ds[e].email # ds[n].email}}

\* convert: rows whose user or alert was not kept are dropped.
Convert(docs) ==
  LET us == ConvertUsers(docs)
      as == {d.id : d \in {x \in docs.alerts : x.valid}}
  IN  [users      |-> us,
       watchlists |-> {r \in docs.watchlists : HasUser(r.user, us)},
       alerts     |-> as,
       deliveries |-> {d \in docs.deliveries : d.alert \in as /\ HasUser(d.user, us)}]

ReadLegacy ==
  /\ mig = None
  /\ count.runs < MaxRuns /\ count' = [count EXCEPT !.runs = @ + 1]
  /\ \E docs \in Legacy : mig' = [at |-> "users", rows |-> Convert(docs), ins |-> NoRows]
  /\ done' = [u \in Id |-> IF Quiet(u) THEN <<>> ELSE done[u]]
  /\ UNCHANGED <<tables, tx, given>>

After == [users |-> "watchlists", watchlists |-> "alerts", alerts |-> "deliveries",
          deliveries |-> "commit"]
Copying(t)     == mig # None /\ mig.at = t
Copies(t, ins) == mig' = [mig EXCEPT !.ins[t] = ins, !.at = After[t]]

\* Each table's rows in turn, parents first; a row whose key is taken is ignored
\* (ON CONFLICT DO NOTHING), a row that violates anything else fails the run.
CopyUsers ==
  /\ Copying("users")
  /\ Copies("users", {u \in mig.rows.users :
                        \A x \in tables.users : x.id # u.id /\ x.email # u.email})
  /\ UNCHANGED <<tables, tx, given, count, done>>

KnownUser(u) == HasUser(u, tables.users \cup mig.ins.users)

CopyWatchlists ==
  /\ Copying("watchlists")
  /\ mig.rows.watchlists \cap WrittenBy(Thread) = {}
  /\ LET fresh == mig.rows.watchlists \ tables.watchlists
     IN  (\A r \in fresh : KnownUser(r.user)) /\ Copies("watchlists", fresh)
  /\ UNCHANGED <<tables, tx, given, count, done>>

CopyAlerts ==
  /\ Copying("alerts")
  /\ Copies("alerts", mig.rows.alerts \ tables.alerts)
  /\ UNCHANGED <<tables, tx, given, count, done>>

CopyDeliveries ==
  /\ Copying("deliveries")
  /\ \A d \in mig.rows.deliveries : d.dated
  /\ LET fresh == mig.rows.deliveries \ tables.deliveries
     IN  (\A d \in fresh : KnownUser(d.user)) /\ Copies("deliveries", fresh)
  /\ UNCHANGED <<tables, tx, given, count, done>>

Adds(ins) == tables' = [t \in Table |-> tables[t] \cup ins[t]]

CopyCommits ==
  /\ Copying("commit")
  /\ Adds(mig.ins)
  /\ done' = [u \in Id |-> Append(done[u], [replaced |-> FALSE,
                tickers |-> {r.ticker : r \in {x \in mig.rows.watchlists : x.user = u}}])]
  /\ mig' = None
  /\ UNCHANGED <<tx, given, count>>

\* Mutant of CopyFails: every table was committed as it was written.
CopyFailsHalfway ==
  /\ mig # None
  /\ Adds(mig.ins)
  /\ mig' = None
  /\ UNCHANGED <<tx, given, count, done>>

\* The one transaction is rolled back.
CopyFails ==
  /\ mig # None
  /\ mig' = None
  /\ UNCHANGED <<tables, tx, given, count, done>>

Migrate ==
  \/ ReadLegacy \/ CopyUsers \/ CopyWatchlists \/ CopyAlerts \/ CopyDeliveries
  \/ CopyCommits \/ CopyFails

Next ==
  \/ \E u \in NewId : CreateGuest(u) \/ \E e \in Email : CreateUser(u, e, FALSE)
  \/ \E th \in Thread : \/ \E u \in Id, T \in SUBSET Ticker : ReadList(th, u, T)
                        \/ DeleteStale(th) \/ InsertFresh(th) \/ Commit(th) \/ Rollback(th)
  \/ \E old \in SUBSET Id : PurgeGuests(old)
  \/ Migrate

Spec == Init /\ [][Next]_vars

-----------------------------------------------------------------------------
\* Once no transaction is under way for an account, its watchlist holds only what
\* one of those that overlapped asked for, and exactly what was asked if just one
\* of them committed.  (Two that commit may leave any part of what they asked.)
ListWasAsked ==
  \A u \in Id :
    LET d == done[u]
    IN  HasUser(u, tables.users) /\ Quiet(u) /\ (\E i \in DOMAIN d : d[i].replaced) =>
          /\ List(u) \subseteq UNION {d[i].tickers : i \in DOMAIN d}
          /\ Len(d) = 1 => List(u) = d[1].tickers

\* The account is in the tables, or another one with its email.
Present(u, all) == \E x \in all : x.id = u.id \/ x.email = u.email

\* "It lands completely or not at all": a run that ends has left the tables as they
\* were, or everything it converted is in them and nothing is gone, except what
\* requests or the purge of guests removed while it ran.
LandsCompletelyOrNotAtAll ==
  [][mig # None /\ mig' = None =>
       \/ tables' = tables
       \/ /\ \A t \in Table : tables[t] \subseteq tables'[t]
          /\ mig.rows.alerts \subseteq tables'.alerts
          /\ \A u \in mig.rows.users : ~ u.guest =>
               /\ Present(u, tables'.users)
               /\ {d \in mig.rows.deliveries : d.user = u.id} \subseteq tables'.deliveries
               /\ done[u.id] = <<>> =>
                    {r \in mig.rows.watchlists : r.user = u.id} \subseteq tables'.watchlists]_vars
=============================================================================
