-------------------------- MODULE AppLifecycleProofs --------------------------
(***************************************************************************)
(* Proofs about AppLifecycle, for any names, domains, handlers and number  *)
(* of applications: rows keep their names, applications that were deleted  *)
(* stay deleted, and route files follow the rows.                          *)
(***************************************************************************)
EXTENDS AppLifecycle, TLAPS

\* Only ids that were given out are in use.
Known ==
  /\ \A i \in Ids : i >= next => app[i] = None /\ deploy[i] = None /\ i \notin settled
  /\ \A h \in Handlers : req[h] # None => req[h].id < next
  /\ \A n \in Names : file[n] \in Route => file[n].to < next

\* nm: the name every id has had since it was given out.
Named(nm) ==
  /\ \A i \in Ids : Exists(i) => app[i].name = nm[i]
  /\ \A i \in Ids : deploy[i] # None => deploy[i].copy.name = nm[i]
  /\ \A h \in Handlers : req[h] # None => req[h].copy.name = nm[req[h].id]
  /\ \A n \in Names : file[n] \in Route => nm[file[n].to] = n

HaveNames == \E nm \in [Ids -> Names \cup {None}] : Named(nm)

\* A request that has a name to itself knows the row.
Alone(h) ==
  LET n == req[h].copy.name
      i == req[h].id
  IN  /\ \A g \in Handlers : req[g] # None /\ req[g].copy.name = n => g = h
      /\ \A j \in Ids : deploy[j] # None => deploy[j].copy.name # n
      /\ req[h].does \in {"update", "delete"} => Exists(i)
      /\ req[h].does \in {"create", "sync", "status"} => app[i] = req[h].copy
      /\ req[h].does = "unroute" => ~Exists(i)

AloneInv == \A h \in Handlers : req[h] # None /\ req[h].alone => Alone(h)

\* Nobody is about to write the file of an application that is settled.
SettledAt(i) ==
  /\ deploy[i] = None
  /\ Exists(i) =>
       /\ app[i].type # "managed"
       /\ \A j \in Ids : deploy[j] # None => deploy[j].copy.name # app[i].name
       /\ \A h \in Handlers : req[h] # None /\ req[h].copy.name = app[i].name =>
            req[h].id = i /\ req[h].does \in {"update", "delete", "status"}
  /\ ~Exists(i) => \A h \in Handlers : req[h] # None => req[h].id # i

SettledInv == \A i \in settled : SettledAt(i)

NamesInv == TypeOK /\ Known /\ HaveNames

RoutesInv == AloneInv /\ SettledInv /\ RoutesFollowRows

-----------------------------------------------------------------------------
USE LifecycleAssumption DEF Row, Route, Request, Underway

\* What a request keeps when somebody else uses the name of its application.
LEMMA DisturbFacts ==
  ASSUME TypeOK, NEW n
  PROVE  \A g \in Handlers :
           LET r == Disturb(n)[g]
           IN  /\ r \in Request \cup {None}
               /\ r = None <=> req[g] = None
               /\ r # None => /\ r.does = req[g].does /\ r.id = req[g].id /\ r.copy = req[g].copy
                              /\ r.alone => req[g].alone /\ req[g].copy.name # n
<1> TAKE g \in Handlers
<1>1. CASE req[g] = None
  BY <1>1 DEF Disturb, Using, TypeOK
<1>2. CASE req[g] # None /\ req[g].copy.name = n
  <2>1. req[g] \in Request
    BY <1>2 DEF TypeOK
  <2>2. Disturb(n)[g] = [req[g] EXCEPT !.alone = FALSE]
    BY <1>2 DEF Disturb, Using
  <2>3. Disturb(n)[g] \in Request
    BY <2>1, <2>2
  <2> QED BY <2>1, <2>2, <2>3, <1>2
<1>3. CASE req[g] # None /\ req[g].copy.name # n
  <2>1. req[g] \in Request
    BY <1>3 DEF TypeOK
  <2>2. Disturb(n)[g] = req[g]
    BY <1>3 DEF Disturb, Using
  <2> QED BY <2>1, <2>2, <1>3
<1> QED BY <1>1, <1>2, <1>3

\* What is under way after a request has begun.
Begun(h, what, i, copy) ==
  /\ req' \in [Handlers -> Request \cup {None}]
  /\ req'[h] # None /\ req'[h].does = what /\ req'[h].id = i /\ req'[h].copy = copy
  /\ req'[h].alone => Using(copy.name) = {} /\ ~Deploying(copy.name)
  /\ \A g \in Handlers \ {h} :
       /\ req'[g] = None <=> req[g] = None
       /\ req'[g] # None =>
            /\ req'[g].does = req[g].does /\ req'[g].id = req[g].id
            /\ req'[g].copy = req[g].copy
            /\ req'[g].alone => req[g].alone /\ req[g].copy.name # copy.name

LEMMA BeginFacts ==
  ASSUME TypeOK, NEW h \in Handlers, NEW what \in {"create", "update", "sync", "delete", "unroute", "status"},
         NEW i \in Ids, NEW copy \in Row, Begin(h, what, i, copy)
  PROVE  Begun(h, what, i, copy)
<1> DEFINE new == [does |-> what, id |-> i, copy |-> copy,
                   alone |-> Using(copy.name) = {} /\ ~Deploying(copy.name)]
<1>1. new \in Request
  OBVIOUS
<1>2. req' = [Disturb(copy.name) EXCEPT ![h] = new]
  BY DEF Begin
<1>3. DOMAIN Disturb(copy.name) = Handlers
  BY DEF Disturb
<1>4. Disturb(copy.name) \in [Handlers -> Request \cup {None}]
  BY <1>3, DisturbFacts DEF Disturb
<1>5. req' \in [Handlers -> Request \cup {None}]
  BY <1>1, <1>2, <1>4
<1>6. req'[h] = new
  BY <1>2, <1>3
<1>7. \A g \in Handlers \ {h} : req'[g] = Disturb(copy.name)[g]
  BY <1>2, <1>3
<1>8. new # None
  BY <1>1
<1> HIDE DEF new
<1>9. new.does = what /\ new.id = i /\ new.copy = copy
      /\ (new.alone => Using(copy.name) = {} /\ ~Deploying(copy.name))
  BY DEF new
<1>10. ASSUME NEW g \in Handlers \ {h}
       PROVE  /\ req'[g] = None <=> req[g] = None
              /\ req'[g] # None =>
                   /\ req'[g].does = req[g].does /\ req'[g].id = req[g].id
                   /\ req'[g].copy = req[g].copy
                   /\ req'[g].alone => req[g].alone /\ req[g].copy.name # copy.name
  <2>1. req'[g] = Disturb(copy.name)[g]
    BY <1>7
  <2> DEFINE r == Disturb(copy.name)[g]
  <2>2. /\ r = None <=> req[g] = None
        /\ r # None => /\ r.does = req[g].does /\ r.id = req[g].id /\ r.copy = req[g].copy
                       /\ r.alone => req[g].alone /\ req[g].copy.name # copy.name
    BY SMTT(30), DisturbFacts
  <2> HIDE DEF r
  <2>3. req'[g] = r
    BY <2>1 DEF r
  <2> QED BY <2>2, <2>3
<1> QED BY <1>5, <1>6, <1>8, <1>9, <1>10 DEF Begun

-----------------------------------------------------------------------------
(***************************************************************************)
(* Types and names.                                                        *)
(***************************************************************************)
\* Changes that leave every application the name nm gives it.
AppKept(nm) ==
  /\ app' \in [Ids -> Row \cup {None}]
  /\ \A i \in Ids : app'[i] # None => app[i] # None /\ app'[i].name = nm[i]
ReqKept(nm) ==
  /\ req' \in [Handlers -> Request \cup {None}]
  /\ \A h \in Handlers : req'[h] # None =>
       \/ req[h] # None /\ req'[h].id = req[h].id /\ req'[h].copy = req[h].copy
       \/ Exists(req'[h].id) /\ req'[h].copy.name = nm[req'[h].id]
DeployKept(nm) ==
  /\ deploy' \in [Ids -> Underway \cup {None}]
  /\ \A i \in Ids : deploy'[i] # None =>
       \/ deploy[i] # None /\ deploy'[i].copy = deploy[i].copy
       \/ Exists(i) /\ deploy'[i].copy.name = nm[i]
FileKept(nm) ==
  /\ file' \in [Names -> Route \cup {Empty, None}]
  /\ \A n \in Names : file'[n] \in Route =>
       \/ file'[n] = file[n]
       \/ nm[file'[n].to] = n /\ file'[n].to < next
SettledKept ==
  settled' \in SUBSET Ids /\ \A i \in settled' : i \in settled \/ i < next

LEMMA UnchangedKept ==
  ASSUME TypeOK, NEW nm \in [Ids -> Names \cup {None}], Named(nm)
  PROVE  /\ app' = app => AppKept(nm)
         /\ req' = req => ReqKept(nm)
         /\ deploy' = deploy => DeployKept(nm)
         /\ file' = file => FileKept(nm)
         /\ settled' = settled => SettledKept
<1>1. app' = app => AppKept(nm)
  BY DEF AppKept, TypeOK, Named, Exists
<1>2. req' = req => ReqKept(nm)
  BY DEF ReqKept, TypeOK
<1>3. deploy' = deploy => DeployKept(nm)
  BY DEF DeployKept, TypeOK
<1>4. file' = file => FileKept(nm)
  BY DEF FileKept, TypeOK
<1>5. settled' = settled => SettledKept
  BY DEF SettledKept, TypeOK
<1> QED BY <1>1, <1>2, <1>3, <1>4, <1>5

\* A step that creates no application keeps types and names.
LEMMA NamesKept ==
  ASSUME TypeOK, Known, NEW nm \in [Ids -> Names \cup {None}], Named(nm), next' = next,
         AppKept(nm), ReqKept(nm), DeployKept(nm), FileKept(nm), SettledKept
  PROVE  TypeOK' /\ Known' /\ Named(nm)'
<1> USE DEF AppKept, ReqKept, DeployKept, FileKept, SettledKept
<1>1. \A i, j \in Ids : app'[i] # None /\ app'[j] # None /\ app'[i].name = app'[j].name => i = j
  BY DEF TypeOK, Named, Exists
<1>2. \A i \in Ids : i >= next' => app'[i] = None
  BY DEF TypeOK, Exists
<1>3. TypeOK'
  BY <1>1, <1>2 DEF TypeOK
<1>4. \A h \in Handlers : req'[h] # None => /\ req'[h].id < next
                                            /\ req'[h].copy.name = nm[req'[h].id]
  <2> TAKE h \in Handlers
  <2> HAVE req'[h] # None
  <2>1. req'[h].id \in Ids
    OBVIOUS
  <2>2. Exists(req'[h].id) => req'[h].id < next
    BY <2>1 DEF Known, Exists, Ids, TypeOK
  <2> QED BY <2>1, <2>2 DEF Known, Named
<1>5. \A i \in Ids : i >= next => deploy'[i] = None
  BY DEF Known, Exists
<1>6. Known'
  <2>1. \A n \in Names : file'[n] \in Route => file'[n].to < next'
    BY DEF Known
  <2>2. \A i \in Ids : i >= next' => i \notin settled'
    BY DEF Known, TypeOK, Ids
  <2> QED BY <1>2, <1>4, <1>5, <2>1, <2>2 DEF Known
<1>7. Named(nm)'
  BY <1>4 DEF Named, Exists
<1> QED BY <1>3, <1>6, <1>7

\* What the update of a row does.
LEMMA UpdateFacts ==
  ASSUME TypeOK, NEW i \in Ids, NEW r \in Row, UpdateApp(i, r)
  PROVE  /\ app' \in [Ids -> Row \cup {None}]
         /\ \A j \in Ids : app'[j] = IF j = i /\ app[i] # None THEN r ELSE app[j]
         /\ \A j \in Ids : Exists(j)' <=> Exists(j)
BY DEF UpdateApp, TypeOK, Exists

LEMMA BeginKept ==
  ASSUME TypeOK, Known, NEW nm \in [Ids -> Names \cup {None}], Named(nm), NEW h \in Handlers,
         NEW what \in {"create", "update", "sync", "delete", "unroute", "status"},
         NEW j \in Ids, Exists(j), NEW c \in Row, c.name = app[j].name, Begin(h, what, j, c)
  PROVE  ReqKept(nm)
<1>1. Begun(h, what, j, c)
  BY BeginFacts
<1>2. c.name = nm[j]
  BY DEF Named
<1> QED BY <1>1, <1>2 DEF Begun, ReqKept

LEMMA RouteOfFacts ==
  ASSUME NEW i \in Ids, NEW r \in Row
  PROVE  /\ RouteOf(i, r) \in Route \cup {None}
         /\ RouteOf(i, r) \in Route => RouteOf(i, r).to = i
         /\ RouteOf(i, r) = None <=> r.domain = None
BY DEF RouteOf

LEMMA FileWritten ==
  ASSUME TypeOK, NEW nm \in [Ids -> Names \cup {None}], NEW i \in Ids, i < next,
         NEW v \in Route \cup {Empty, None}, v \in Route => v.to = i,
         file' = [file EXCEPT ![nm[i]] = v]
  PROVE  FileKept(nm)
<1>1. file' \in [Names -> Route \cup {Empty, None}]
  BY DEF TypeOK
<1>2. \A n \in Names : file'[n] = IF n = nm[i] THEN v ELSE file[n]
  BY DEF TypeOK
<1> QED BY <1>1, <1>2 DEF FileKept

LEMMA CreateNames ==
  ASSUME TypeOK, Known, NEW nm \in [Ids -> Names \cup {None}], Named(nm), NEW h \in Handlers, Create(h)
  PROVE  TypeOK' /\ Known' /\ HaveNames'
<1>1. PICK n \in Names, t \in Types, d \in Domains \cup {None} :
        LET r == [name |-> n, type |-> t, domain |-> d]
        IN  /\ ~NameTaken(n) /\ ~DomainTaken(next, d)
            /\ app' = [app EXCEPT ![next] = r]
            /\ next' = next + 1
            /\ Begin(h, "create", next, r)
  BY DEF Create, NextId
<1> DEFINE r == [name |-> n, type |-> t, domain |-> d]
<1>2. r \in Row /\ r # None
  OBVIOUS
<1>3. next \in Ids /\ next \in Nat
  BY DEF Create, NextId, Ids, TypeOK
<1>4. UNCHANGED <<file, deploy, settled>>
  BY DEF Create
<1>5. PICK nn \in [Ids -> Names \cup {None}] : nn[next] = n /\ \A i \in Ids \ {next} : nn[i] = nm[i]
  <2>1. [nm EXCEPT ![next] = n] \in [Ids -> Names \cup {None}]
    OBVIOUS
  <2> QED BY <1>3, <2>1
<1>6. /\ req' \in [Handlers -> Request \cup {None}]
      /\ req'[h] # None /\ req'[h].id = next /\ req'[h].copy = r
      /\ \A g \in Handlers \ {h} : req'[g] # None => /\ req[g] # None
                                                   /\ req'[g].id = req[g].id
                                                   /\ req'[g].copy = req[g].copy
  BY <1>1, <1>2, <1>3, BeginFacts DEF Begun
<1> HIDE DEF r
<1>7. app' \in [Ids -> Row \cup {None}] /\ app'[next] = r /\ \A i \in Ids \ {next} : app'[i] = app[i]
  BY <1>1, <1>2, <1>3 DEF TypeOK, r
<1>8. r.name = n
  BY DEF r
<1>9. \A i \in Ids : app[i] # None => app[i].name # n
  BY <1>1 DEF NameTaken, Exists
<1>10. next' = next + 1 /\ next' \in 1..(MaxId + 1)
  BY <1>1, <1>3 DEF Ids
<1>11. \A i \in Ids : i >= next' => i >= next /\ i # next
  BY <1>10, <1>3 DEF Ids
<1>12. TypeOK'
  <2>1. \A i \in Ids : i >= next' => app'[i] = None
    BY <1>7, <1>11 DEF TypeOK
  <2>2. \A i, j \in Ids : app'[i] # None /\ app'[j] # None /\ app'[i].name = app'[j].name => i = j
    BY <1>7, <1>8, <1>9 DEF TypeOK
  <2> QED BY <2>1, <2>2, <1>4, <1>6, <1>7, <1>10 DEF TypeOK
<1>13. \A i \in Ids : i < next => i < next' /\ i # next
  BY <1>3, <1>10 DEF Ids
<1>14. next < next'
  BY <1>3, <1>10
<1>15. Known'
  <2>1. \A i \in Ids : i >= next' => app'[i] = None /\ deploy'[i] = None /\ i \notin settled'
    BY <1>4, <1>7, <1>11 DEF Known
  <2>2. \A g \in Handlers : req'[g] # None => req'[g].id < next'
    BY <1>6, <1>13, <1>14 DEF Known, TypeOK
  <2>3. \A m \in Names : file'[m] \in Route => file'[m].to < next'
    BY <1>4, <1>13 DEF Known
  <2> QED BY <2>1, <2>2, <2>3 DEF Known
<1>16. Named(nn)'
  <2>1. \A i \in Ids : Exists(i)' => app'[i].name = nn[i]
    BY <1>5, <1>7, <1>8 DEF Named, Exists
  <2>2. deploy[next] = None
    BY <1>3 DEF Known
  <2>3. \A i \in Ids : deploy'[i] # None => deploy'[i].copy.name = nn[i]
    BY <1>4, <1>5, <2>2 DEF Named
  <2>4. \A g \in Handlers : req'[g] # None => req'[g].copy.name = nn[req'[g].id]
    BY <1>3, <1>5, <1>6, <1>8, <1>13 DEF Named, Known, TypeOK
  <2>5. \A m \in Names : file'[m] \in Route => nn[file'[m].to] = m
    BY <1>4, <1>5, <1>13 DEF Named, Known
  <2> QED BY <2>1, <2>3, <2>4, <2>5 DEF Named
<1> QED BY <1>5, <1>12, <1>15, <1>16 DEF HaveNames

LEMMA ServeNames ==
  ASSUME TypeOK, Known, NEW nm \in [Ids -> Names \cup {None}], Named(nm), NEW h \in Handlers,
         Serve(h), ~Create(h)
  PROVE  TypeOK' /\ Known' /\ Named(nm)'
<1> DEFINE i == req[h].id
           r == req[h].copy
<1>1. req[h] # None => i \in Ids /\ r \in Row /\ r.name \in Names /\ r.name = nm[i] /\ i < next
  BY DEF TypeOK, Known, Named
<1>2. CASE GetForUpdate(h)
  <2>1. PICK j \in Ids, t \in Types, d \in Domains \cup {None} :
          Exists(j) /\ Begin(h, "update", j, [app[j] EXCEPT !.type = t, !.domain = d])
    BY <1>2 DEF GetForUpdate
  <2> DEFINE c == [app[j] EXCEPT !.type = t, !.domain = d]
  <2>2. c \in Row /\ c.name = app[j].name
    BY ZenonT(60), <2>1 DEF Exists, TypeOK
  <2> HIDE DEF c
  <2>3. Begin(h, "update", j, c)
    BY <2>1 DEF c
  <2>5. ReqKept(nm)
    BY <2>1, <2>2, <2>3, BeginKept
  <2> QED BY <1>2, <2>5, UnchangedKept, NamesKept DEF GetForUpdate
<1>3. CASE SaveUpdate(h)
  <2>1. Does(h, "update")
    BY <1>3 DEF SaveUpdate
  <2>2. CASE End(h) /\ UNCHANGED <<app, settled>>
    <3>1. ReqKept(nm)
      BY <2>2 DEF End, ReqKept, TypeOK
    <3> QED BY <1>3, <2>2, <3>1, UnchangedKept, NamesKept DEF SaveUpdate
  <2>3. CASE UpdateApp(i, r) /\ settled' = settled \ {i} /\ Continue(h, "sync")
    <3>1. ReqKept(nm)
      BY <2>1, <2>3 DEF Continue, Does, ReqKept, TypeOK
    <3>2. AppKept(nm)
      BY <1>1, <2>1, <2>3, UpdateFacts DEF Does, AppKept, Named, Exists
    <3>3. SettledKept
      BY <2>3 DEF SettledKept, TypeOK
    <3> QED BY <1>3, <3>1, <3>2, <3>3, UnchangedKept, NamesKept DEF SaveUpdate
  <2> QED BY <1>3, <2>2, <2>3 DEF SaveUpdate
<1>4. CASE SyncRoute(h)
  <2>1. req[h] # None
    BY <1>4 DEF SyncRoute, Does
  <2>2. ReqKept(nm)
    BY <1>4, <2>1 DEF SyncRoute, End, Continue, ReqKept, TypeOK
  <2>3. FileKept(nm)
    <3>1. file' = file \/ file' = [file EXCEPT ![nm[i]] = RouteOf(i, r)]
      BY <1>1, <1>4, <2>1 DEF SyncRoute, SyncNonManagedRoute
    <3> QED BY <1>1, <2>1, <3>1, RouteOfFacts, FileWritten, UnchangedKept
  <2>4. SettledKept
    BY <1>1, <1>4, <2>1 DEF SyncRoute, SettledKept, TypeOK
  <2> QED BY <1>4, <2>2, <2>3, <2>4, UnchangedKept, NamesKept DEF SyncRoute
<1>5. CASE SyncFails(h)
  <2>1. req[h] # None
    BY <1>5 DEF SyncFails, Does
  <2>2. ReqKept(nm)
    BY <1>5 DEF SyncFails, End, ReqKept, TypeOK
  <2>3. FileKept(nm)
    <3>1. file' = file \/ file' = [file EXCEPT ![nm[i]] = Empty]
      BY <1>1, <1>5, <2>1 DEF SyncFails
    <3> QED BY <1>1, <2>1, <3>1, FileWritten, UnchangedKept
  <2>4. SettledKept
    BY <1>5 DEF SyncFails, SettledKept, TypeOK
  <2> QED BY <1>5, <2>2, <2>3, <2>4, UnchangedKept, NamesKept DEF SyncFails
<1>6. CASE AppDetailPage(h)
  <2>1. PICK j \in Ids : Exists(j) /\ Begin(h, "status", j, app[j])
    BY <1>6 DEF AppDetailPage
  <2>2. ReqKept(nm)
    BY <2>1, BeginKept DEF Exists, TypeOK
  <2> QED BY <1>6, <2>2, UnchangedKept, NamesKept DEF AppDetailPage
<1>7. CASE WriteStatus(h)
  <2>1. req[h] # None
    BY <1>7 DEF WriteStatus, Does
  <2>2. ReqKept(nm)
    BY <1>7 DEF WriteStatus, End, ReqKept, TypeOK
  <2>3. CASE UpdateApp(i, r)
    <3>1. AppKept(nm)
      BY <1>1, <2>1, <2>3, UpdateFacts DEF AppKept, Named, Exists
    <3>2. SettledKept
      BY <1>7 DEF WriteStatus, SettledKept, TypeOK
    <3> QED BY <1>7, <2>2, <3>1, <3>2, UnchangedKept, NamesKept DEF WriteStatus
  <2>4. CASE UNCHANGED app
    <3>1. SettledKept
      BY <1>7 DEF WriteStatus, SettledKept, TypeOK
    <3> QED BY <1>7, <2>2, <2>4, <3>1, UnchangedKept, NamesKept DEF WriteStatus
  <2> QED BY <1>7, <2>3, <2>4 DEF WriteStatus
<1>8. CASE GetForDelete(h)
  <2>1. PICK j \in Ids : Exists(j) /\ Begin(h, "delete", j, app[j])
    BY <1>8 DEF GetForDelete
  <2>2. ReqKept(nm)
    BY <2>1, BeginKept DEF Exists, TypeOK
  <2> QED BY <1>8, <2>2, UnchangedKept, NamesKept DEF GetForDelete
<1>9. CASE DeleteRow(h)
  <2>1. Does(h, "delete")
    BY <1>9 DEF DeleteRow
  <2>2. ReqKept(nm)
    BY <1>9, <2>1 DEF DeleteRow, Continue, Does, ReqKept, TypeOK
  <2>3. AppKept(nm)
    BY <1>1, <1>9, <2>1 DEF DeleteRow, Does, AppKept, TypeOK, Named, Exists
  <2>4. SettledKept
    BY <1>9 DEF DeleteRow, SettledKept, TypeOK
  <2> QED BY <1>9, <2>2, <2>3, <2>4, UnchangedKept, NamesKept DEF DeleteRow
<1>10. CASE Unroute(h)
  <2>1. req[h] # None
    BY <1>10 DEF Unroute, Does
  <2>2. ReqKept(nm)
    BY <1>10 DEF Unroute, End, ReqKept, TypeOK
  <2>3. FileKept(nm)
    <3>1. file' = file \/ file' = [file EXCEPT ![nm[i]] = None]
      BY <1>1, <1>10, <2>1 DEF Unroute, RemoveRoute
    <3> QED BY <1>1, <2>1, <3>1, FileWritten, UnchangedKept
  <2>4. SettledKept
    BY <1>1, <1>10, <2>1 DEF Unroute, SettledKept, TypeOK
  <2> QED BY <1>10, <2>2, <2>3, <2>4, UnchangedKept, NamesKept DEF Unroute
<1>11. CASE RequestFails(h)
  <2>1. ReqKept(nm)
    BY <1>11 DEF RequestFails, End, ReqKept, TypeOK
  <2> QED BY <1>11, <2>1, UnchangedKept, NamesKept DEF RequestFails
<1> QED BY <1>2, <1>3, <1>4, <1>5, <1>6, <1>7, <1>8, <1>9, <1>10, <1>11 DEF Serve

LEMMA ExecuteNames ==
  ASSUME TypeOK, Known, NEW nm \in [Ids -> Names \cup {None}], Named(nm), NEW i \in Ids,
         DeleteApp(i) \/ Execute(i)
  PROVE  TypeOK' /\ Known' /\ Named(nm)'
<1> DEFINE r == deploy[i].copy
<1>1. deploy[i] # None => /\ deploy[i] \in Underway /\ r \in Row /\ r.name \in Names
                          /\ r.name = nm[i] /\ i < next
  BY DEF TypeOK, Known, Named, Ids
<1>2. ASSUME NEW n \in Names, req' = Disturb(n) PROVE ReqKept(nm)
  <2>1. \A g \in Handlers : /\ req'[g] \in Request \cup {None}
                            /\ req'[g] # None => /\ req[g] # None
                                                 /\ req'[g].id = req[g].id
                                                 /\ req'[g].copy = req[g].copy
    BY <1>2, DisturbFacts
  <2>2. req' = [g \in Handlers |-> req'[g]]
    BY <1>2 DEF Disturb
  <2> QED BY <2>1, <2>2 DEF ReqKept
<1>3. Exists(i) => app[i].name \in Names /\ app[i] \in Row /\ app[i].name = nm[i] /\ i < next
  BY DEF Exists, TypeOK, Named, Ids
<1>4. CASE DeleteApp(i)
  <2>1. ReqKept(nm)
    BY <1>2, <1>3, <1>4 DEF DeleteApp
  <2>2. AppKept(nm)
    BY <1>4 DEF DeleteApp, AppKept, TypeOK, Named, Exists
  <2>3. SettledKept
    BY <1>4 DEF DeleteApp, SettledKept, TypeOK
  <2> QED BY <1>4, <2>1, <2>2, <2>3, UnchangedKept, NamesKept DEF DeleteApp
<1>5. CASE Deploy(i)
  <2>1. ReqKept(nm)
    BY <1>2, <1>3, <1>5 DEF Deploy
  <2>2. DeployKept(nm)
    BY <1>3, <1>5 DEF Deploy, DeployKept, TypeOK
  <2>3. SettledKept
    BY <1>5 DEF Deploy, SettledKept, TypeOK
  <2> QED BY <1>5, <2>1, <2>2, <2>3, UnchangedKept, NamesKept DEF Deploy
<1>6. CASE UpdateRoute(i)
  <2>1. deploy[i] # None
    BY <1>6 DEF UpdateRoute, DeployAt
  <2>2. DeployKept(nm)
    BY <1>1, <1>6, <2>1 DEF UpdateRoute, DeployKept, TypeOK
  <2>3. FileKept(nm)
    <3>1. file' = file \/ file' = [file EXCEPT ![nm[i]] = RouteOf(i, r)]
      BY <1>1, <1>6, <2>1 DEF UpdateRoute
    <3> QED BY <1>1, <2>1, <3>1, RouteOfFacts, FileWritten, UnchangedKept
  <2> QED BY <1>6, <2>2, <2>3, UnchangedKept, NamesKept DEF UpdateRoute
<1>7. CASE SaveApp(i)
  <2>1. deploy[i] # None
    BY <1>7 DEF SaveApp, DeployAt
  <2>2. DeployKept(nm)
    BY <1>7, <2>1 DEF SaveApp, DeployKept, TypeOK
  <2>3. CASE UNCHANGED app
    BY <1>7, <2>2, <2>3, UnchangedKept, NamesKept DEF SaveApp
  <2>4. CASE UpdateApp(i, r)
    <3>1. AppKept(nm)
      BY <1>1, <2>1, <2>4, UpdateFacts DEF AppKept, Named, Exists
    <3> QED BY <1>7, <2>2, <3>1, UnchangedKept, NamesKept DEF SaveApp
  <2> QED BY <1>7, <2>3, <2>4 DEF SaveApp
<1>8. CASE DeployFails(i)
  <2>1. deploy[i] # None
    BY <1>8 DEF DeployFails, DeployAt
  <2>2. DeployKept(nm)
    BY <1>8 DEF DeployFails, DeployKept, TypeOK
  <2>3. FileKept(nm)
    <3>1. file' = file \/ file' = [file EXCEPT ![nm[i]] = Empty]
      BY <1>1, <1>8, <2>1 DEF DeployFails
    <3> QED BY <1>1, <2>1, <3>1, FileWritten, UnchangedKept
  <2> QED BY <1>8, <2>2, <2>3, UnchangedKept, NamesKept DEF DeployFails
<1> QED BY <1>4, <1>5, <1>6, <1>7, <1>8 DEF Execute

\* A step keeps types and names.
LEMMA NamesStep ==
  ASSUME TypeOK, Known, HaveNames, [Next]_vars
  PROVE  TypeOK' /\ Known' /\ HaveNames'
<1>1. PICK nm \in [Ids -> Names \cup {None}] : Named(nm)
  BY DEF HaveNames
<1>2. ASSUME NEW h \in Handlers, Serve(h) PROVE TypeOK' /\ Known' /\ HaveNames'
  <2>1. CASE Create(h)
    BY <1>1, <2>1, CreateNames
  <2>2. CASE ~Create(h)
    <3>1. TypeOK' /\ Known' /\ Named(nm)'
      BY <1>1, <1>2, <2>2, ServeNames
    <3> QED BY <1>1, <3>1 DEF HaveNames
  <2> QED BY <2>1, <2>2
<1>3. ASSUME NEW i \in Ids, DeleteApp(i) \/ Execute(i) PROVE TypeOK' /\ Known' /\ HaveNames'
  <2>1. TypeOK' /\ Known' /\ Named(nm)'
    BY <1>1, <1>3, ExecuteNames
  <2> QED BY <1>1, <2>1 DEF HaveNames
<1>4. CASE UNCHANGED vars
  <2>1. TypeOK' /\ Known' /\ Named(nm)'
    BY <1>1, <1>4, UnchangedKept, NamesKept DEF vars
  <2> QED BY <1>1, <2>1 DEF HaveNames
<1> QED BY <1>2, <1>3, <1>4 DEF Next

-----------------------------------------------------------------------------
LEMMA NamesInit == Init => NamesInv
<1> SUFFICES ASSUME Init PROVE NamesInv
  OBVIOUS
<1>1. TypeOK
  BY DEF Init, TypeOK
<1>2. Known
  BY DEF Init, Known
<1>3. HaveNames
  <2> DEFINE nm == [i \in Ids |-> None]
  <2>1. nm \in [Ids -> Names \cup {None}]
    OBVIOUS
  <2>2. Named(nm)
    BY DEF Init, Named, Exists
  <2> QED BY <2>1, <2>2 DEF HaveNames
<1> QED BY <1>1, <1>2, <1>3 DEF NamesInv

LEMMA NamesAlways == Spec => []NamesInv
<1>1. NamesInv /\ [Next]_vars => NamesInv'
  BY NamesStep DEF NamesInv
<1> QED BY NamesInit, <1>1, PTL DEF Spec

\* The tables, files and requests keep their types, ids are given out once, and no two rows
\* have one name (internal/store/app_repo.go).
THEOREM AppTypes == Spec => []TypeOK
<1>1. NamesInv => TypeOK
  BY DEF NamesInv
<1> QED BY NamesAlways, <1>1, PTL

\* A deploy or request writes late, but only over the application it has read.
THEOREM RowsKeepTheirNamesAlways == Spec => []RowsKeepTheirNames
<1>1. NamesInv => RowsKeepTheirNames
  <2> SUFFICES ASSUME NamesInv PROVE RowsKeepTheirNames
    OBVIOUS
  <2>1. PICK nm \in [Ids -> Names \cup {None}] : Named(nm)
    BY DEF NamesInv, HaveNames
  <2>2. \A h \in Handlers : req[h] # None => req[h].id \in Ids
    BY DEF NamesInv, TypeOK
  <2> QED BY <2>1, <2>2 DEF Named, RowsKeepTheirNames, Idle, Exists
<1> QED BY NamesAlways, <1>1, PTL

\* Whatever a step writes, an application that was deleted stays deleted.
LEMMA DeletedStep ==
  ASSUME TypeOK, [Next]_vars, NEW i \in Ids, i < next, ~Exists(i)
  PROVE  app'[i] = None
<1>1. app[i] = None
  BY DEF Exists
<1>2. ASSUME NEW j, NEW r, UpdateApp(j, r) PROVE app'[i] = None
  BY <1>1, <1>2 DEF UpdateApp, TypeOK
<1>3. ASSUME NEW h \in Handlers, Create(h) PROVE app'[i] = None
  <2>1. PICK r : app' = [app EXCEPT ![next] = r]
    BY <1>3 DEF Create, NextId
  <2>2. i # next
    BY DEF Ids, TypeOK
  <2> QED BY <1>1, <2>1, <2>2 DEF TypeOK
<1>4. ASSUME NEW h \in Handlers, SaveUpdate(h) PROVE app'[i] = None
  BY <1>1, <1>2, <1>4 DEF SaveUpdate
<1>5. ASSUME NEW h \in Handlers, WriteStatus(h) PROVE app'[i] = None
  BY <1>1, <1>2, <1>5 DEF WriteStatus
<1>6. ASSUME NEW h \in Handlers, DeleteRow(h) PROVE app'[i] = None
  BY <1>1, <1>6 DEF DeleteRow, TypeOK
<1>7. ASSUME NEW h \in Handlers, Serve(h), ~Create(h), ~SaveUpdate(h), ~WriteStatus(h), ~DeleteRow(h)
      PROVE  app'[i] = None
  BY <1>1, <1>7
     DEF Serve, GetForUpdate, SyncRoute, SyncFails, AppDetailPage, GetForDelete, Unroute, RequestFails
<1>8. ASSUME NEW j \in Ids, DeleteApp(j) PROVE app'[i] = None
  BY <1>1, <1>8 DEF DeleteApp, TypeOK
<1>9. ASSUME NEW j \in Ids, Execute(j) PROVE app'[i] = None
  <2>1. CASE SaveApp(j)
    BY <1>1, <1>2, <2>1 DEF SaveApp
  <2>2. CASE ~SaveApp(j)
    BY <1>1, <1>9, <2>2 DEF Execute, Deploy, UpdateRoute, DeployFails
  <2> QED BY <2>1, <2>2
<1>10. CASE UNCHANGED vars
  BY <1>1, <1>10 DEF vars
<1> QED BY <1>3, <1>4, <1>5, <1>6, <1>7, <1>8, <1>9, <1>10 DEF Next

\* Deploys and handlers that write a row they have read do not bring it back.
THEOREM DeletedStaysDeletedAlways == Spec => DeletedStaysDeleted
<1>1. TypeOK /\ [Next]_vars => [\A i \in Ids : i < next /\ ~Exists(i) => app'[i] = None]_vars
  BY DeletedStep
<1> QED BY AppTypes, <1>1, PTL DEF Spec, DeletedStaysDeleted

-----------------------------------------------------------------------------
(***************************************************************************)
(* Routes.                                                                 *)
(***************************************************************************)
HIDE DEF Row, Route, Request, Underway

LEMMA SyncRouteStep ==
  ASSUME NamesInv, NEW nm \in [Ids -> Names \cup {None}], Named(nm), RoutesInv,
         NEW h \in Handlers, SyncRoute(h)
  PROVE  RoutesInv'
<1> DEFINE i == req[h].id
           r == req[h].copy
<1>1. /\ req[h] # None /\ req[h] \in Request /\ i \in Ids /\ r \in Row /\ r.name \in Names
      /\ r.name = nm[i] /\ req[h].does \in {"create", "sync"}
  BY DEF SyncRoute, Does, NamesInv, TypeOK, Named, Row, Request
<1>2. UNCHANGED <<app, deploy>>
  BY DEF SyncRoute
<1>3. /\ \A g \in Handlers \ {h} : req'[g] = req[g]
      /\ \/ req'[h] = None
         \/ /\ req[h].does = "create" /\ req'[h] # None
            /\ req'[h].does = "status" /\ req'[h].id = i /\ req'[h].copy = r
            /\ req'[h].alone = req[h].alone
  <2>1. CASE End(h)
    BY <2>1 DEF End, NamesInv, TypeOK
  <2>2. CASE Does(h, "create") /\ Continue(h, "status")
    <3>1. req'[h] = [req[h] EXCEPT !.does = "status"] /\ \A g \in Handlers \ {h} : req'[g] = req[g]
      BY <2>2 DEF Continue, NamesInv, TypeOK
    <3>2. req'[h] \in Request
      BY <3>1, <1>1 DEF Request
    <3> QED BY <2>2, <1>1, <3>1, <3>2 DEF Does, Request
  <2> QED BY <2>1, <2>2 DEF SyncRoute
<1>4. AloneInv'
  <2> SUFFICES ASSUME NEW g \in Handlers, req'[g] # None, req'[g].alone PROVE Alone(g)'
    BY DEF AloneInv
  <2>1. req[g] # None /\ req[g].alone /\ req'[g].id = req[g].id /\ req'[g].copy = req[g].copy
    BY <1>1, <1>3
  <2>2. Alone(g)
    BY <2>1 DEF AloneInv, RoutesInv
  <2> QED BY <1>1, <1>2, <1>3, <2>1, <2>2 DEF Alone, Exists

<1>5. SettledInv'
  <2> SUFFICES ASSUME NEW k \in settled'
               PROVE  SettledAt(k)'
    BY DEF SettledInv
  <2>1. CASE k # i
    <3>1. k \in settled
      BY <2>1 DEF SyncRoute
    <3> QED BY <1>1, <1>2, <1>3, <2>1, <3>1 DEF RoutesInv, SettledInv, SettledAt, Exists
  <2>2. CASE k = i
    <3>1. Alone(h) /\ r.type # "managed"
      BY <1>1, <2>2 DEF SyncRoute, RoutesInv, AloneInv
    <3> QED BY <1>1, <1>2, <1>3, <2>2, <3>1 DEF Alone, Named, SettledAt, Exists
  <2> QED BY <2>1, <2>2
<1>6. RoutesFollowRows'
  <2> SUFFICES ASSUME NEW k \in settled'
               PROVE  IF Exists(k)' THEN file'[app'[k].name] = RouteOf(k, app'[k])
                      ELSE \A n \in Names : file'[n] \in Route => file'[n].to # k
    BY DEF RoutesFollowRows, RouteOf
  <2>1. CASE k # i
    <3>1. k \in settled
      BY <2>1 DEF SyncRoute
    <3> QED BY <1>1, <1>2, <2>1, <3>1, RouteOfFacts DEF SyncRoute, SyncNonManagedRoute, RoutesInv, SettledInv,
           SettledAt, RoutesFollowRows, Exists, NamesInv, TypeOK
  <2>2. CASE k = i
    <3>1. Alone(h) /\ r.type # "managed"
      BY <1>1, <2>2 DEF SyncRoute, RoutesInv, AloneInv
    <3> QED BY <1>1, <1>2, <2>2, <3>1 DEF Alone, Exists, SyncRoute, SyncNonManagedRoute, NamesInv, TypeOK
  <2> QED BY <2>1, <2>2
<1> QED BY <1>4, <1>5, <1>6 DEF RoutesInv

LEMMA SyncFailsStep ==
  ASSUME NamesInv, NEW nm \in [Ids -> Names \cup {None}], Named(nm), RoutesInv,
         NEW h \in Handlers, SyncFails(h)
  PROVE  RoutesInv'
<1> DEFINE i == req[h].id
           r == req[h].copy
<1>1. /\ req[h] # None /\ req[h] \in Request /\ i \in Ids /\ r \in Row /\ r.name \in Names
      /\ r.name = nm[i] /\ req[h].does \in {"create", "sync"}
  BY DEF SyncFails, Does, NamesInv, TypeOK, Named, Row, Request
<1>2. UNCHANGED <<app, deploy>> /\ req'[h] = None /\ \A g \in Handlers \ {h} : req'[g] = req[g]
  BY DEF SyncFails, End, NamesInv, TypeOK
<1>3. \A k \in settled' : k \in settled /\ k # i
  BY DEF SyncFails
<1>4. AloneInv'
  <2> SUFFICES ASSUME NEW g \in Handlers, req'[g] # None, req'[g].alone PROVE Alone(g)'
    BY DEF AloneInv
  <2>1. g # h /\ req'[g] = req[g] /\ Alone(g)
    BY <1>2 DEF AloneInv, RoutesInv
  <2> QED BY <1>2, <2>1 DEF Alone, Exists
<1>5. SettledInv'
  <2> SUFFICES ASSUME NEW k \in settled' PROVE SettledAt(k)'
    BY DEF SettledInv
  <2> QED BY <1>2, <1>3 DEF RoutesInv, SettledInv, SettledAt, Exists
<1>6. RoutesFollowRows'
  <2> SUFFICES ASSUME NEW k \in settled'
               PROVE  IF Exists(k)' THEN file'[app'[k].name] = RouteOf(k, app'[k])
                      ELSE \A n \in Names : file'[n] \in Route => file'[n].to # k
    BY DEF RoutesFollowRows, RouteOf
  <2>1. Exists(k) => app[k].name # r.name
    BY <1>1, <1>3 DEF RoutesInv, SettledInv, SettledAt
  <2>2. \A n \in Names : file'[n] = file[n] \/ (n = r.name /\ file'[n] = Empty)
    BY DEF SyncFails, NamesInv, TypeOK
  <2>3. k \in Ids /\ (Exists(k) => app[k].name \in Names)
    BY <1>3 DEF Exists, NamesInv, TypeOK, Row
  <2> QED BY <1>1, <1>2, <1>3, <2>1, <2>2, <2>3 DEF RoutesInv, RoutesFollowRows, Exists
<1> QED BY <1>4, <1>5, <1>6 DEF RoutesInv

LEMMA WriteStatusStep ==
  ASSUME NamesInv, NEW nm \in [Ids -> Names \cup {None}], Named(nm), RoutesInv,
         NEW h \in Handlers, WriteStatus(h)
  PROVE  RoutesInv'
<1> DEFINE i == req[h].id
           r == req[h].copy
<1>1. /\ req[h] # None /\ req[h] \in Request /\ i \in Ids /\ r \in Row /\ r.name \in Names
      /\ r.name = nm[i] /\ req[h].does = "status"
  BY DEF WriteStatus, Does, NamesInv, TypeOK, Named, Row, Request
<1>2. UNCHANGED <<file, deploy>> /\ req'[h] = None /\ \A g \in Handlers \ {h} : req'[g] = req[g]
  BY DEF WriteStatus, End, NamesInv, TypeOK
<1>3. \A j \in Ids : app'[j] = app[j] \/ (j = i /\ app[i] # None /\ app'[i] = r)
  <2>1. CASE UpdateApp(i, r)
    BY <1>1, <2>1, UpdateFacts DEF NamesInv
  <2> QED BY <2>1 DEF WriteStatus
<1>4. req[h].alone => app' = app
  <2> HAVE req[h].alone
  <2>1. app[i] = r
    BY <1>1 DEF Alone, AloneInv, RoutesInv
  <2>2. CASE UpdateApp(i, r)
    BY <1>1, <2>1, <2>2 DEF UpdateApp, NamesInv, TypeOK
  <2> QED BY <2>2 DEF WriteStatus
<1>5. \A k \in settled' : k \in settled /\ (k # i \/ app' = app)
  BY <1>4 DEF WriteStatus
<1>6. \A j \in Ids : Exists(j)' <=> Exists(j)
  BY <1>1, <1>3 DEF Exists, NamesInv, TypeOK
<1>7. AloneInv'
  <2> SUFFICES ASSUME NEW g \in Handlers, req'[g] # None, req'[g].alone PROVE Alone(g)'
    BY DEF AloneInv
  <2>1. g # h /\ req'[g] = req[g] /\ Alone(g)
    BY <1>2 DEF AloneInv, RoutesInv
  <2>2. req[g].copy.name # r.name
    BY <1>1, <1>2, <2>1 DEF Alone
  <2>3. req[g].id \in Ids /\ req[g].id # i
    BY <1>1, <1>2, <2>1, <2>2 DEF Named, NamesInv, TypeOK, Request
  <2> QED BY <1>2, <1>3, <1>6, <2>1, <2>3 DEF Alone
<1>8. SettledInv'
  <2> SUFFICES ASSUME NEW k \in settled' PROVE SettledAt(k)'
    BY DEF SettledInv
  <2>1. k \in settled /\ app'[k] = app[k] /\ SettledAt(k)
    BY <1>3, <1>5 DEF RoutesInv, SettledInv, NamesInv, TypeOK
  <2> QED BY <1>2, <2>1 DEF SettledAt, Exists
<1>9. RoutesFollowRows'
  <2> SUFFICES ASSUME NEW k \in settled'
               PROVE  IF Exists(k)' THEN file'[app'[k].name] = RouteOf(k, app'[k])
                      ELSE \A n \in Names : file'[n] \in Route => file'[n].to # k
    BY DEF RoutesFollowRows, RouteOf
  <2>1. k \in settled /\ app'[k] = app[k]
    BY <1>3, <1>5 DEF NamesInv, TypeOK
  <2> QED BY <1>2, <2>1 DEF RoutesInv, RoutesFollowRows, Exists
<1> QED BY <1>7, <1>8, <1>9 DEF RoutesInv

LEMMA SaveUpdateStep ==
  ASSUME NamesInv, NEW nm \in [Ids -> Names \cup {None}], Named(nm), RoutesInv,
         NEW h \in Handlers, SaveUpdate(h)
  PROVE  RoutesInv'
<1> DEFINE i == req[h].id
           r == req[h].copy
<1>1. /\ req[h] # None /\ req[h] \in Request /\ i \in Ids /\ r \in Row /\ r.name \in Names
      /\ r.name = nm[i] /\ req[h].does = "update"
  BY DEF SaveUpdate, Does, NamesInv, TypeOK, Named, Row, Request
<1>2. UNCHANGED <<file, deploy>> /\ \A g \in Handlers \ {h} : req'[g] = req[g]
  BY DEF SaveUpdate, End, Continue, NamesInv, TypeOK
<1>3. CASE End(h) /\ UNCHANGED <<app, settled>>
  <2>1. req'[h] = None
    BY <1>3 DEF End, NamesInv, TypeOK
  <2>2. AloneInv'
    BY <1>2, <1>3, <2>1 DEF AloneInv, Alone, RoutesInv, Exists
  <2>3. SettledInv'
    BY <1>2, <1>3, <2>1 DEF SettledInv, SettledAt, RoutesInv, Exists
  <2>4. RoutesFollowRows'
    BY <1>2, <1>3 DEF RoutesFollowRows, RoutesInv, RouteOf, Exists
  <2> QED BY <2>2, <2>3, <2>4 DEF RoutesInv
<1>4. CASE UpdateApp(i, r) /\ settled' = settled \ {i} /\ Continue(h, "sync")
  <2>1. /\ req'[h] # None /\ req'[h].does = "sync" /\ req'[h].id = i /\ req'[h].copy = r
        /\ req'[h].alone = req[h].alone
    <3>1. req'[h] = [req[h] EXCEPT !.does = "sync"]
      BY <1>4 DEF Continue, NamesInv, TypeOK
    <3>2. req'[h] \in Request
      BY <3>1, <1>1 DEF Request
    <3> QED BY <1>1, <3>1, <3>2 DEF Request
  <2>2. /\ \A j \in Ids \ {i} : app'[j] = app[j]
        /\ \A j \in Ids : Exists(j)' <=> Exists(j)
        /\ Exists(i) => app'[i] = r
    BY <1>1, <1>4, UpdateFacts DEF NamesInv, Exists
  <2>3. \A k \in settled' : k \in settled /\ k \in Ids /\ k # i /\ app'[k] = app[k]
    BY <1>4, <2>2 DEF NamesInv, TypeOK
  <2>4. AloneInv'
    <3> SUFFICES ASSUME NEW g \in Handlers, req'[g] # None, req'[g].alone PROVE Alone(g)'
      BY DEF AloneInv
    <3>1. CASE g = h
      <4>1. Alone(h)
        BY <1>1, <2>1, <3>1 DEF AloneInv, RoutesInv
      <4> QED BY <1>1, <1>2, <2>1, <2>2, <3>1, <4>1 DEF Alone
    <3>2. CASE g # h
      <4>1. req'[g] = req[g] /\ Alone(g)
        BY <1>2, <3>2 DEF AloneInv, RoutesInv
      <4>2. req[g].copy.name # r.name
        BY <1>1, <3>2, <4>1 DEF Alone
      <4>3. req[g].id \in Ids /\ req[g].id # i
        BY <1>1, <4>1, <4>2 DEF Named, NamesInv, TypeOK, Request
      <4> QED BY <1>1, <1>2, <2>1, <2>2, <4>1, <4>2, <4>3 DEF Alone
    <3> QED BY <3>1, <3>2
  <2>5. SettledInv'
    <3> SUFFICES ASSUME NEW k \in settled' PROVE SettledAt(k)'
      BY DEF SettledInv
    <3>1. SettledAt(k)
      BY <2>3 DEF RoutesInv, SettledInv
    <3> QED BY <1>1, <1>2, <2>1, <2>2, <2>3, <3>1 DEF SettledAt, Exists
  <2>6. RoutesFollowRows'
    BY <1>2, <2>3 DEF RoutesFollowRows, RoutesInv, RouteOf, Exists
  <2> QED BY <2>4, <2>5, <2>6 DEF RoutesInv
<1> QED BY <1>3, <1>4 DEF SaveUpdate

LEMMA BeginStep ==
  ASSUME NamesInv, NEW nm \in [Ids -> Names \cup {None}], Named(nm), RoutesInv,
         NEW h \in Handlers, NEW what \in {"update", "status", "delete"}, NEW i \in Ids, Exists(i),
         NEW c \in Row, c.name = app[i].name, what = "status" => c = app[i],
         Idle(h), Begin(h, what, i, c), UNCHANGED <<app, next, file, deploy, settled>>
  PROVE  RoutesInv'
<1>1. Begun(h, what, i, c)
  BY BeginFacts DEF NamesInv
<1>2. AloneInv'
  <2> SUFFICES ASSUME NEW g \in Handlers, req'[g] # None, req'[g].alone PROVE Alone(g)'
    BY DEF AloneInv
  <2>1. CASE g = h
    <3>1. Using(c.name) = {} /\ ~Deploying(c.name)
      BY <1>1, <2>1 DEF Begun
    <3>2. \A f \in Handlers \ {h} : req'[f] # None => req'[f].copy.name # c.name
      BY <1>1, <3>1 DEF Begun, Using
    <3> QED BY <1>1, <2>1, <3>1, <3>2 DEF Begun, Deploying, Alone, Exists
  <2>2. CASE g # h
    <3>1. req[g] # None /\ req[g].copy.name # c.name /\ Alone(g)
      BY <1>1, <2>2 DEF Begun, AloneInv, RoutesInv
    <3> QED BY <1>1, <2>2, <3>1 DEF Begun, Alone, Exists
  <2> QED BY <2>1, <2>2
<1>3. SettledInv'
  <2> SUFFICES ASSUME NEW k \in settled' PROVE SettledAt(k)'
    BY DEF SettledInv
  <2>1. SettledAt(k) /\ k \in Ids
    BY DEF RoutesInv, SettledInv, NamesInv, TypeOK
  <2>2. Exists(k) /\ app[k].name = c.name => k = i
    BY <2>1 DEF Exists, NamesInv, TypeOK
  <2> QED BY <1>1, <2>1, <2>2 DEF Begun, SettledAt, Exists
<1>4. RoutesFollowRows'
  BY DEF RoutesFollowRows, RoutesInv, RouteOf, Exists
<1> QED BY <1>2, <1>3, <1>4 DEF RoutesInv

LEMMA CreateStep ==
  ASSUME NamesInv, RoutesInv, NEW h \in Handlers, Create(h)
  PROVE  RoutesInv'
<1>1. PICK r \in Row : /\ \A j \in Ids : Exists(j) => app[j].name # r.name
                       /\ app' = [app EXCEPT ![next] = r]
                       /\ Begin(h, "create", next, r)
  <2>1. PICK n \in Names, t \in Types, d \in Domains \cup {None} :
          LET r == [name |-> n, type |-> t, domain |-> d]
          IN  ~NameTaken(n) /\ app' = [app EXCEPT ![next] = r] /\ Begin(h, "create", next, r)
    BY DEF Create, NextId
  <2>2. [name |-> n, type |-> t, domain |-> d] \in Row
    BY DEF Row
  <2> QED BY <2>1, <2>2 DEF NameTaken
<1>2. next \in Ids /\ next \in Nat /\ UNCHANGED <<file, deploy, settled>> /\ r # None
  BY DEF Create, NextId, NamesInv, TypeOK, Ids
<1>3. Begun(h, "create", next, r)
  BY <1>1, <1>2, BeginFacts DEF NamesInv
<1>4. app'[next] = r /\ \A j \in Ids \ {next} : app'[j] = app[j]
  BY <1>1, <1>2 DEF NamesInv, TypeOK
<1>5. \A g \in Handlers : req[g] # None => req[g].id \in Ids \ {next}
  BY <1>2 DEF NamesInv, TypeOK, Known, Request, Ids
<1>6. \A k \in settled : k \in Ids \ {next} /\ app'[k] = app[k]
  <2>1. settled \subseteq Ids /\ ~(next < next)
    BY <1>2 DEF NamesInv, TypeOK
  <2>2. \A k \in settled : ~(k >= next)
    BY <2>1 DEF NamesInv, Known
  <2>3. next >= next
    BY <1>2
  <2> QED BY <1>4, <2>1, <2>2, <2>3
<1>7. AloneInv'
  <2> SUFFICES ASSUME NEW g \in Handlers, req'[g] # None, req'[g].alone PROVE Alone(g)'
    BY DEF AloneInv
  <2>1. CASE g = h
    <3>1. Using(r.name) = {} /\ ~Deploying(r.name)
      BY <1>3, <2>1 DEF Begun
    <3>2. \A f \in Handlers \ {h} : req'[f] # None => req'[f].copy.name # r.name
      BY <1>3, <3>1 DEF Begun, Using
    <3> QED BY <1>2, <1>3, <1>4, <2>1, <3>1, <3>2 DEF Begun, Deploying, Alone, Exists
  <2>2. CASE g # h
    <3>1. req[g] # None /\ req[g].copy.name # r.name /\ Alone(g)
      BY <1>3, <2>2 DEF Begun, AloneInv, RoutesInv
    <3>2. /\ req'[g].does = req[g].does /\ req'[g].id = req[g].id /\ req'[g].copy = req[g].copy
          /\ app'[req'[g].id] = app[req[g].id]
      BY <1>3, <1>4, <1>5, <2>2, <3>1 DEF Begun
    <3>3. \A f \in Handlers : req'[f] # None /\ req'[f].copy.name = req[g].copy.name => f = g
      BY <1>3, <2>2, <3>1 DEF Begun, Alone
    <3> QED BY <1>2, <3>1, <3>2, <3>3 DEF Alone, Exists
  <2> QED BY <2>1, <2>2
<1>8. SettledInv'
  <2> SUFFICES ASSUME NEW k \in settled' PROVE SettledAt(k)'
    BY DEF SettledInv
  <2>1. SettledAt(k) /\ k \in settled /\ k # next /\ app'[k] = app[k]
    BY <1>2, <1>6 DEF RoutesInv, SettledInv
  <2>2. Exists(k) => app[k].name # r.name
    BY <1>1, <1>6, <2>1
  <2> QED BY <1>2, <1>3, <2>1, <2>2 DEF Begun, SettledAt, Exists
<1>9. RoutesFollowRows'
  BY <1>2, <1>6 DEF RoutesFollowRows, RoutesInv, RouteOf, Exists
<1> QED BY <1>7, <1>8, <1>9 DEF RoutesInv

LEMMA DeleteRowStep ==
  ASSUME NamesInv, NEW nm \in [Ids -> Names \cup {None}], Named(nm), RoutesInv,
         NEW h \in Handlers, DeleteRow(h)
  PROVE  RoutesInv'
<1> DEFINE i == req[h].id
           r == req[h].copy
<1>1. /\ req[h] # None /\ req[h] \in Request /\ i \in Ids /\ r \in Row /\ r.name \in Names
      /\ r.name = nm[i] /\ req[h].does = "delete"
  BY DEF DeleteRow, Does, NamesInv, TypeOK, Named, Row, Request
<1>2. /\ UNCHANGED <<file, deploy>> /\ \A g \in Handlers \ {h} : req'[g] = req[g]
      /\ req'[h] # None /\ req'[h].does = "unroute" /\ req'[h].id = i /\ req'[h].copy = r
      /\ req'[h].alone = req[h].alone
  <2>1. req'[h] = [req[h] EXCEPT !.does = "unroute"]
    BY DEF DeleteRow, Continue, NamesInv, TypeOK
  <2>2. req'[h] \in Request
    BY <2>1, <1>1 DEF Request
  <2> QED BY <1>1, <2>1, <2>2 DEF DeleteRow, Continue, NamesInv, TypeOK, Request
<1>3. app'[i] = None /\ \A j \in Ids \ {i} : app'[j] = app[j]
  BY <1>1 DEF DeleteRow, NamesInv, TypeOK
<1>4. \A k \in settled' : k \in settled /\ k \in Ids /\ k # i /\ app'[k] = app[k]
  BY <1>3 DEF DeleteRow, NamesInv, TypeOK
<1>5. AloneInv'
  <2> SUFFICES ASSUME NEW g \in Handlers, req'[g] # None, req'[g].alone PROVE Alone(g)'
    BY DEF AloneInv
  <2>1. CASE g = h
    <3>1. Alone(h)
      BY <1>1, <1>2, <2>1 DEF AloneInv, RoutesInv
    <3> QED BY <1>1, <1>2, <1>3, <2>1, <3>1 DEF Alone, Exists
  <2>2. CASE g # h
    <3>1. req'[g] = req[g] /\ Alone(g)
      BY <1>2, <2>2 DEF AloneInv, RoutesInv
    <3>2. req[g].copy.name # r.name
      BY <1>1, <2>2, <3>1 DEF Alone
    <3>3. req[g].id \in Ids /\ req[g].id # i
      BY <1>1, <3>1, <3>2 DEF Named, NamesInv, TypeOK, Request
    <3> QED BY <1>1, <1>2, <1>3, <3>1, <3>2, <3>3 DEF Alone, Exists
  <2> QED BY <2>1, <2>2
<1>6. SettledInv'
  <2> SUFFICES ASSUME NEW k \in settled' PROVE SettledAt(k)'
    BY DEF SettledInv
  <2>1. SettledAt(k)
    BY <1>4 DEF RoutesInv, SettledInv
  <2> QED BY <1>1, <1>2, <1>4, <2>1 DEF SettledAt, Exists
<1>7. RoutesFollowRows'
  BY <1>2, <1>4 DEF RoutesFollowRows, RoutesInv, RouteOf, Exists
<1> QED BY <1>5, <1>6, <1>7 DEF RoutesInv

LEMMA UnrouteStep ==
  ASSUME NamesInv, NEW nm \in [Ids -> Names \cup {None}], Named(nm), RoutesInv,
         NEW h \in Handlers, Unroute(h)
  PROVE  RoutesInv'
<1> DEFINE i == req[h].id
           r == req[h].copy
<1>1. /\ req[h] # None /\ req[h] \in Request /\ i \in Ids /\ r \in Row /\ r.name \in Names
      /\ r.name = nm[i] /\ req[h].does = "unroute"
  BY DEF Unroute, Does, NamesInv, TypeOK, Named, Row, Request
<1>2. UNCHANGED <<app, deploy>> /\ req'[h] = None /\ \A g \in Handlers \ {h} : req'[g] = req[g]
  BY DEF Unroute, End, NamesInv, TypeOK
<1>3. \A k \in settled' : k \in settled \/ (k = i /\ Alone(h) /\ file' = RemoveRoute(r.name))
  BY <1>1 DEF Unroute, AloneInv, RoutesInv
<1>4. \A n \in Names : file'[n] = IF n = r.name /\ file' # file THEN None ELSE file[n]
  BY DEF Unroute, RemoveRoute, NamesInv, TypeOK
<1>5. \A k \in settled : SettledAt(k) /\ k \in Ids /\ (Exists(k) => app[k].name # r.name)
  BY <1>1 DEF RoutesInv, SettledInv, SettledAt, NamesInv, TypeOK
<1>6. Alone(h) => /\ ~Exists(i) /\ deploy[i] = None
                  /\ \A g \in Handlers \ {h} : req[g] # None => req[g].id # i
  BY <1>1 DEF Alone, Named
<1>7. AloneInv'
  <2> SUFFICES ASSUME NEW g \in Handlers, req'[g] # None, req'[g].alone PROVE Alone(g)'
    BY DEF AloneInv
  <2>1. g # h /\ req'[g] = req[g] /\ Alone(g)
    BY <1>2 DEF AloneInv, RoutesInv
  <2> QED BY <1>2, <2>1 DEF Alone, Exists
<1>8. SettledInv'
  <2> SUFFICES ASSUME NEW k \in settled' PROVE SettledAt(k)'
    BY DEF SettledInv
  <2>1. CASE k \in settled
    BY <1>2, <1>5, <2>1 DEF SettledAt, Exists
  <2>2. CASE k = i /\ Alone(h)
    BY <1>2, <1>6, <2>2 DEF SettledAt, Exists
  <2> QED BY <1>3, <2>1, <2>2
<1>9. RoutesFollowRows'
  <2> SUFFICES ASSUME NEW k \in settled'
               PROVE  IF Exists(k)' THEN file'[app'[k].name] = RouteOf(k, app'[k])
                      ELSE \A n \in Names : file'[n] \in Route => file'[n].to # k
    BY DEF RoutesFollowRows, RouteOf
  <2>1. CASE k \in settled
    <3>1. Exists(k) => app[k].name \in Names
      BY <1>5, <2>1 DEF Exists, NamesInv, TypeOK, Row
    <3>2. None \notin Route
      BY LifecycleAssumption
    <3> QED BY <1>2, <1>4, <1>5, <2>1, <3>1, <3>2 DEF RoutesInv, RoutesFollowRows, Exists
  <2>2. CASE k = i /\ Alone(h) /\ file' = RemoveRoute(r.name)
    <3>1. \A n \in Names : file'[n] = IF n = r.name THEN None ELSE file[n]
      BY <2>2 DEF RemoveRoute, NamesInv, TypeOK
    <3>2. None \notin Route
      BY LifecycleAssumption
    <3>3. \A n \in Names : file[n] \in Route => nm[file[n].to] = n
      BY DEF Named
    <3> QED BY <1>1, <1>2, <1>6, <2>2, <3>1, <3>2, <3>3 DEF Exists
  <2> QED BY <1>3, <2>1, <2>2
<1> QED BY <1>7, <1>8, <1>9 DEF RoutesInv

LEMMA RequestFailsStep ==
  ASSUME NamesInv, RoutesInv, NEW h \in Handlers, RequestFails(h)
  PROVE  RoutesInv'
<1>1. /\ UNCHANGED <<app, file, deploy, settled>>
      /\ req'[h] = None /\ \A g \in Handlers \ {h} : req'[g] = req[g]
  BY DEF RequestFails, End, NamesInv, TypeOK
<1>2. AloneInv'
  BY <1>1 DEF AloneInv, Alone, RoutesInv, Exists
<1>3. SettledInv'
  BY <1>1 DEF SettledInv, SettledAt, RoutesInv, Exists
<1>4. RoutesFollowRows'
  BY <1>1 DEF RoutesFollowRows, RoutesInv, RouteOf, Exists
<1> QED BY <1>2, <1>3, <1>4 DEF RoutesInv

LEMMA DeleteAppStep ==
  ASSUME NamesInv, NEW nm \in [Ids -> Names \cup {None}], Named(nm), RoutesInv,
         NEW i \in Ids, DeleteApp(i)
  PROVE  RoutesInv'
<1>1. /\ Exists(i) /\ req' = Disturb(app[i].name) /\ UNCHANGED <<file, deploy>>
      /\ app'[i] = None /\ \A j \in Ids \ {i} : app'[j] = app[j]
      /\ settled' = settled \ {i} /\ app[i].name = nm[i]
  BY DEF DeleteApp, NamesInv, TypeOK, Named
<1>2. \A g \in Handlers :
        /\ req'[g] = None <=> req[g] = None
        /\ req'[g] # None =>
             /\ req'[g].does = req[g].does /\ req'[g].id = req[g].id /\ req'[g].copy = req[g].copy
             /\ req'[g].alone => req[g].alone /\ req[g].copy.name # app[i].name
  BY <1>1, DisturbFacts DEF NamesInv
<1>3. \A k \in settled' : k \in settled /\ k \in Ids /\ k # i /\ app'[k] = app[k]
  BY <1>1 DEF NamesInv, TypeOK
<1>4. AloneInv'
  <2> SUFFICES ASSUME NEW g \in Handlers, req'[g] # None, req'[g].alone PROVE Alone(g)'
    BY DEF AloneInv
  <2>1. req[g] # None /\ Alone(g) /\ req[g].copy.name # nm[i]
    BY <1>1, <1>2 DEF AloneInv, RoutesInv
  <2>2. req[g].id \in Ids /\ req[g].id # i
    BY <2>1 DEF Named, NamesInv, TypeOK, Request
  <2> QED BY <1>1, <1>2, <2>1, <2>2 DEF Alone, Exists
<1>5. SettledInv'
  <2> SUFFICES ASSUME NEW k \in settled' PROVE SettledAt(k)'
    BY DEF SettledInv
  <2>1. SettledAt(k)
    BY <1>3 DEF RoutesInv, SettledInv
  <2> QED BY <1>1, <1>2, <1>3, <2>1 DEF SettledAt, Exists
<1>6. RoutesFollowRows'
  BY <1>1, <1>3 DEF RoutesFollowRows, RoutesInv, RouteOf, Exists
<1> QED BY <1>4, <1>5, <1>6 DEF RoutesInv

LEMMA DeployStep ==
  ASSUME NamesInv, NEW nm \in [Ids -> Names \cup {None}], Named(nm), RoutesInv,
         NEW i \in Ids, Deploy(i)
  PROVE  RoutesInv'
<1>1. /\ Exists(i) /\ req' = Disturb(app[i].name) /\ UNCHANGED <<app, file>>
      /\ settled' = settled \ {i}
      /\ deploy'[i].copy = app[i] /\ \A j \in Ids \ {i} : deploy'[j] = deploy[j]
  BY DEF Deploy, NamesInv, TypeOK
<1>2. \A g \in Handlers :
        /\ req'[g] = None <=> req[g] = None
        /\ req'[g] # None =>
             /\ req'[g].does = req[g].does /\ req'[g].id = req[g].id /\ req'[g].copy = req[g].copy
             /\ req'[g].alone => req[g].alone /\ req[g].copy.name # app[i].name
  BY <1>1, DisturbFacts DEF NamesInv
<1>3. \A k \in settled' : k \in settled /\ k \in Ids /\ k # i
  BY <1>1 DEF NamesInv, TypeOK
<1>4. AloneInv'
  <2> SUFFICES ASSUME NEW g \in Handlers, req'[g] # None, req'[g].alone PROVE Alone(g)'
    BY DEF AloneInv
  <2>1. req[g] # None /\ Alone(g) /\ req[g].copy.name # app[i].name
    BY <1>2 DEF AloneInv, RoutesInv
  <2> QED BY <1>1, <1>2, <2>1 DEF Alone, Exists
<1>5. SettledInv'
  <2> SUFFICES ASSUME NEW k \in settled' PROVE SettledAt(k)'
    BY DEF SettledInv
  <2>1. SettledAt(k)
    BY <1>3 DEF RoutesInv, SettledInv
  <2>2. Exists(k) => app[k].name # app[i].name
    BY <1>1, <1>3 DEF Exists, NamesInv, TypeOK
  <2> QED BY <1>1, <1>2, <1>3, <2>1, <2>2 DEF SettledAt, Exists
<1>6. RoutesFollowRows'
  BY <1>1, <1>3 DEF RoutesFollowRows, RoutesInv, RouteOf, Exists
<1> QED BY <1>4, <1>5, <1>6 DEF RoutesInv

LEMMA UpdateRouteStep ==
  ASSUME NamesInv, NEW nm \in [Ids -> Names \cup {None}], Named(nm), RoutesInv,
         NEW i \in Ids, UpdateRoute(i)
  PROVE  RoutesInv'
<1> DEFINE r == deploy[i].copy
<1>1. /\ deploy[i] # None /\ r \in Row /\ r.name \in Names
      /\ UNCHANGED <<app, req, settled>>
  BY DEF UpdateRoute, DeployAt, NamesInv, TypeOK, Underway, Row
<1>2. \A j \in Ids : deploy'[j] # None => deploy[j] # None /\ deploy'[j].copy = deploy[j].copy
  BY <1>1 DEF UpdateRoute, NamesInv, TypeOK, Underway
<1>3. \A n \in Names : file'[n] = file[n] \/ (n = r.name /\ file'[n] = RouteOf(i, r))
  BY DEF UpdateRoute, NamesInv, TypeOK
<1>4. \A k \in settled : SettledAt(k) /\ k \in Ids /\ k # i /\ (Exists(k) => app[k].name # r.name)
  BY <1>1 DEF RoutesInv, SettledInv, SettledAt, NamesInv, TypeOK
<1>5. \A k \in settled : deploy'[k] = None
  BY <1>4 DEF UpdateRoute, SettledAt, NamesInv, TypeOK
<1>6. AloneInv'
  BY <1>1, <1>2 DEF AloneInv, Alone, RoutesInv, Exists
<1>7. SettledInv'
  <2> SUFFICES ASSUME NEW k \in settled' PROVE SettledAt(k)'
    BY DEF SettledInv
  <2> QED BY <1>1, <1>2, <1>4, <1>5 DEF SettledAt, Exists
<1>8. RoutesFollowRows'
  <2> SUFFICES ASSUME NEW k \in settled'
               PROVE  IF Exists(k)' THEN file'[app'[k].name] = RouteOf(k, app'[k])
                      ELSE \A n \in Names : file'[n] \in Route => file'[n].to # k
    BY DEF RoutesFollowRows, RouteOf
  <2>1. Exists(k) => app[k].name \in Names
    BY <1>1, <1>4 DEF Exists, NamesInv, TypeOK, Row
  <2>2. RouteOf(i, r) \in Route => RouteOf(i, r).to = i
    BY <1>1, RouteOfFacts
  <2> QED BY <1>1, <1>3, <1>4, <2>1, <2>2 DEF RoutesInv, RoutesFollowRows, Exists
<1> QED BY <1>6, <1>7, <1>8 DEF RoutesInv

LEMMA SaveAppStep ==
  ASSUME NamesInv, NEW nm \in [Ids -> Names \cup {None}], Named(nm), RoutesInv,
         NEW i \in Ids, SaveApp(i)
  PROVE  RoutesInv'
<1> DEFINE r == deploy[i].copy
<1>1. /\ deploy[i] # None /\ r \in Row /\ r.name = nm[i] /\ UNCHANGED <<file, req, settled>>
      /\ deploy'[i] = None /\ \A j \in Ids \ {i} : deploy'[j] = deploy[j]
  BY DEF SaveApp, DeployAt, NamesInv, TypeOK, Underway, Named
<1>2. /\ \A j \in Ids \ {i} : app'[j] = app[j]
      /\ \A j \in Ids : Exists(j)' <=> Exists(j)
  <2>1. CASE UNCHANGED app
    BY <2>1 DEF Exists
  <2>2. CASE UpdateApp(i, r)
    BY <1>1, <2>2, UpdateFacts DEF NamesInv
  <2> QED BY <2>1, <2>2 DEF SaveApp
<1>3. \A k \in settled : SettledAt(k) /\ k \in Ids /\ k # i
  BY <1>1 DEF RoutesInv, SettledInv, SettledAt, NamesInv, TypeOK
<1>4. AloneInv'
  <2> SUFFICES ASSUME NEW g \in Handlers, req'[g] # None, req'[g].alone PROVE Alone(g)'
    BY DEF AloneInv
  <2>1. Alone(g) /\ req[g].copy.name # nm[i]
    BY <1>1 DEF AloneInv, RoutesInv, Alone
  <2>2. req[g].id \in Ids /\ req[g].id # i
    BY <1>1, <2>1 DEF Named, NamesInv, TypeOK, Request
  <2> QED BY <1>1, <1>2, <2>1, <2>2 DEF Alone
<1>5. SettledInv'
  <2> SUFFICES ASSUME NEW k \in settled' PROVE SettledAt(k)'
    BY DEF SettledInv
  <2> QED BY <1>1, <1>2, <1>3 DEF SettledAt, Exists
<1>6. RoutesFollowRows'
  BY <1>1, <1>2, <1>3 DEF RoutesFollowRows, RoutesInv, RouteOf, Exists
<1> QED BY <1>4, <1>5, <1>6 DEF RoutesInv

LEMMA DeployFailsStep ==
  ASSUME NamesInv, RoutesInv, NEW i \in Ids, DeployFails(i)
  PROVE  RoutesInv'
<1> DEFINE r == deploy[i].copy
<1>1. /\ UNCHANGED <<app, req, settled>> /\ deploy[i] # None
      /\ deploy'[i] = None /\ \A j \in Ids \ {i} : deploy'[j] = deploy[j]
      /\ \A n \in Names : file'[n] = file[n] \/ (n = r.name /\ file'[n] = Empty)
  BY DEF DeployFails, DeployAt, NamesInv, TypeOK
<1>2. settled \subseteq Ids
  BY DEF NamesInv, TypeOK
<1>3. AloneInv'
  BY <1>1 DEF AloneInv, Alone, RoutesInv, Exists
<1>4. SettledInv'
  BY <1>1, <1>2 DEF SettledInv, SettledAt, RoutesInv, Exists
<1>5. RoutesFollowRows'
  <2> SUFFICES ASSUME NEW k \in settled'
               PROVE  IF Exists(k)' THEN file'[app'[k].name] = RouteOf(k, app'[k])
                      ELSE \A n \in Names : file'[n] \in Route => file'[n].to # k
    BY DEF RoutesFollowRows, RouteOf
  <2>1. SettledAt(k) /\ (Exists(k) => app[k].name \in Names)
    BY <1>1, <1>2 DEF Exists, NamesInv, TypeOK, Row, RoutesInv, SettledInv
  <2>2. Exists(k) => app[k].name # r.name
    BY <1>1, <2>1 DEF SettledAt
  <2> QED BY <1>1, <2>1, <2>2, LifecycleAssumption DEF RoutesInv, RoutesFollowRows, Exists
<1> QED BY <1>3, <1>4, <1>5 DEF RoutesInv

LEMMA ServeRoutes ==
  ASSUME NamesInv, NEW nm \in [Ids -> Names \cup {None}], Named(nm), RoutesInv,
         NEW h \in Handlers, Serve(h)
  PROVE  RoutesInv'
<1>1. CASE GetForUpdate(h)
  <2>1. PICK j \in Ids, t \in Types, d \in Domains \cup {None} :
          Exists(j) /\ Begin(h, "update", j, [app[j] EXCEPT !.type = t, !.domain = d])
    BY <1>1 DEF GetForUpdate
  <2> DEFINE c == [app[j] EXCEPT !.type = t, !.domain = d]
  <2>2. c \in Row /\ c.name = app[j].name
    <3>1. app[j] \in Row
      BY <2>1 DEF Exists, NamesInv, TypeOK
    <3> QED BY <3>1 DEF Row
  <2> HIDE DEF c
  <2>3. Begin(h, "update", j, c)
    BY <2>1 DEF c
  <2> QED BY <1>1, <2>1, <2>2, <2>3, BeginStep DEF GetForUpdate
<1>2. CASE AppDetailPage(h)
  <2>1. PICK j \in Ids : Exists(j) /\ Begin(h, "status", j, app[j])
    BY <1>2 DEF AppDetailPage
  <2>2. app[j] \in Row
    BY <2>1 DEF Exists, NamesInv, TypeOK
  <2> QED BY <1>2, <2>1, <2>2, BeginStep DEF AppDetailPage
<1>3. CASE GetForDelete(h)
  <2>1. PICK j \in Ids : Exists(j) /\ Begin(h, "delete", j, app[j])
    BY <1>3 DEF GetForDelete
  <2>2. app[j] \in Row
    BY <2>1 DEF Exists, NamesInv, TypeOK
  <2> QED BY <1>3, <2>1, <2>2, BeginStep DEF GetForDelete
<1> QED
  BY <1>1, <1>2, <1>3, CreateStep, SaveUpdateStep, SyncRouteStep, SyncFailsStep,
     WriteStatusStep, DeleteRowStep, UnrouteStep, RequestFailsStep DEF Serve

LEMMA RoutesStep ==
  ASSUME NamesInv, RoutesInv, [Next]_vars
  PROVE  RoutesInv'
<1>1. PICK nm \in [Ids -> Names \cup {None}] : Named(nm)
  BY DEF NamesInv, HaveNames
<1>2. ASSUME NEW h \in Handlers, Serve(h) PROVE RoutesInv'
  BY <1>1, <1>2, ServeRoutes
<1>3. ASSUME NEW i \in Ids, DeleteApp(i) \/ Execute(i) PROVE RoutesInv'
  BY <1>1, <1>3, DeleteAppStep, DeployStep, UpdateRouteStep, SaveAppStep, DeployFailsStep DEF Execute
<1>4. CASE UNCHANGED vars
  <2>1. AloneInv'
    BY <1>4 DEF vars, AloneInv, Alone, RoutesInv, Exists
  <2>2. SettledInv'
    BY <1>4 DEF vars, SettledInv, SettledAt, RoutesInv, Exists
  <2>3. RoutesFollowRows'
    BY <1>4 DEF vars, RoutesFollowRows, RoutesInv, RouteOf, Exists
  <2> QED BY <2>1, <2>2, <2>3 DEF RoutesInv
<1> QED BY <1>2, <1>3, <1>4 DEF Next

\* Whatever was left by requests and deploys that met on a name, and by writes that failed, the
\* next request that has the name to itself leaves the route file as the row says.
THEOREM RoutesFollowRowsAlways == Spec => []RoutesFollowRows
<1>1. Init => RoutesInv
  BY DEF Init, RoutesInv, AloneInv, SettledInv, RoutesFollowRows
<1>2. NamesInv /\ RoutesInv /\ [Next]_vars => RoutesInv'
  BY RoutesStep
<1>3. RoutesInv => RoutesFollowRows
  BY DEF RoutesInv
<1> QED BY NamesAlways, <1>1, <1>2, <1>3, PTL DEF Spec
=============================================================================
