-------------------------- MODULE MigrationProofs --------------------------
(***************************************************************************)
(* That racing calls of migrate-up and migrate-down keep the schema, the   *)
(* list of migrations and the transactions, for any number of callers.     *)
(***************************************************************************)
EXTENDS Migrations, TLAPS

\* The first five migrations are all in a list or none is, and the fifth came
\* after the others: it is the oldest that can be the one to undo.
LateFifth(list) ==
  \/ list = {}
  \/ /\ 1..5 \subseteq Names(list)
     /\ \E r \in list : /\ r.name = 5
                        /\ \A q \in list : q.name < 5 => q.id < r.id

MigrationsInv == /\ MigrationsTypeOK
                 /\ SchemaIsOfDone
                 /\ OnlyTheSeventhTwice
                 /\ LateFifth(executed)
                 /\ \A j \in Jobs : /\ LateFifth(job[j].seen)
                                    /\ job[j].seen # {} => executed # {}

\* The schema of a list that has the first five migrations.
Built(S) ==
  {"tables", "source index", "product", "product index", "zoned dates"}
    \cup (IF 6 \in S THEN {"user index"} ELSE {})
    \cup (IF 7 \in S THEN {} ELSE {"source required"})

LEMMA SevenMigrations ==
  /\ Migration = {1, 2, 3, 4, 5, 6, 7}
  /\ 1..5 = {1, 2, 3, 4, 5}
  BY DEF Migration, Last

LEMMA WhatTheyMake ==
  /\ Makes[1] = {"tables", "local dates", "source required"}
  /\ Makes[2] = {"source index"} /\ Makes[3] = {"product"}
  /\ Makes[4] = {"product index"} /\ Makes[5] = {"zoned dates"}
  /\ Makes[6] = {"user index"} /\ Makes[7] = {}
  BY DEF Makes, FirstTables, SourceIndex, Product, ProductIndex, ZonedDates, UserIndex

LEMMA SchemaOfNone == SchemaOf({}) = {}
  BY DEF SchemaOf

LEMMA SchemaOfAll ==
  ASSUME NEW S \in SUBSET Migration, 1..5 \subseteq S
  PROVE  SchemaOf(S) = Built(S)
  <1>1. S = {1, 2, 3, 4, 5} \cup (S \cap {6, 7})
    BY SevenMigrations
  <1>2. \A p : p \in SchemaOf(S) <=>
          /\ \E m \in S : p \in Makes[m]
          /\ ~\E m \in S : p \in Removes[m]
    <2>1. \A p : p \in UNION {Makes[m] : m \in S} <=> \E m \in S : p \in Makes[m]
      BY Zenon
    <2>2. \A p : p \in UNION {Removes[m] : m \in S} <=> \E m \in S : p \in Removes[m]
      BY Zenon
    <2> DEFINE made == UNION {Makes[m] : m \in S}
               removed == UNION {Removes[m] : m \in S}
    <2>3. SchemaOf(S) = made \ removed
      BY DEF SchemaOf
    <2>4. \A p : (p \in made <=> \E m \in S : p \in Makes[m])
      BY <2>1
    <2>5. \A p : (p \in removed <=> \E m \in S : p \in Removes[m])
      BY <2>2
    <2> HIDE DEF made, removed
    <2>6. \A p : (p \in SchemaOf(S) <=> p \in made /\ p \notin removed)
      BY <2>3
    <2> QED BY <2>4, <2>5, <2>6
  <1>4. /\ Removes[1] = {} /\ Removes[2] = {} /\ Removes[3] = {} /\ Removes[4] = {}
        /\ Removes[5] = {"local dates"} /\ Removes[6] = {}
        /\ Removes[7] = {"source required"}
    BY DEF Removes
  <1>5. \A p : (\E m \in S : p \in Makes[m]) <=>
          \/ p \in {"tables", "local dates", "source required", "source index",
                    "product", "product index", "zoned dates"}
          \/ 6 \in S /\ p = "user index"
    BY <1>1, WhatTheyMake
  <1>6. \A p : (\E m \in S : p \in Removes[m]) <=>
          \/ p = "local dates"
          \/ 7 \in S /\ p = "source required"
    BY <1>1, <1>4
  <1>7. \A p : p \in Built(S) <=>
          \/ p \in {"tables", "source index", "product", "product index", "zoned dates"}
          \/ 6 \in S /\ p = "user index"
          \/ 7 \notin S /\ p = "source required"
    BY DEF Built
  <1>8. \A p : p \in SchemaOf(S) <=> p \in Built(S)
    BY <1>2, <1>5, <1>6, <1>7
  <1> QED BY <1>8

\* What a run of all migrations makes of an empty database.
LEMMA UpFromNothing ==
  ASSUME AllUp({}, Migration) # Failed
  PROVE  AllUp({}, Migration) = Built(Migration)
  <1> DEFINE r1 == Then(1, {}, Migration)
             r2 == Then(2, r1, Migration)
             r3 == Then(3, r2, Migration)
             r4 == Then(4, r3, Migration)
             r5 == Then(5, r4, Migration)
             r6 == Then(6, r5, Migration)
             r7 == Then(7, r6, Migration)
  <1>0. Migration = {1, 2, 3, 4, 5, 6, 7}
    BY SevenMigrations
  <1>a. \A s : \A m \in Migration : Then(m, s, Migration) # Failed =>
          s # Failed /\ Then(m, s, Migration) = (s \ Removes[m]) \cup Makes[m]
    BY DEF Then, Up
  <1>7. r7 # Failed /\ r7 = AllUp({}, Migration)
    BY DEF AllUp
  <1> HIDE DEF r7
  <1>8. /\ r6 # Failed /\ r5 # Failed /\ r4 # Failed /\ r3 # Failed
        /\ r2 # Failed /\ r1 # Failed
    BY <1>0, <1>7, <1>a DEF r7
  <1>9. /\ r7 = (r6 \ Removes[7]) \cup Makes[7]
        /\ r6 = (r5 \ Removes[6]) \cup Makes[6]
        /\ r5 = (r4 \ Removes[5]) \cup Makes[5]
        /\ r4 = (r3 \ Removes[4]) \cup Makes[4]
        /\ r3 = (r2 \ Removes[3]) \cup Makes[3]
        /\ r2 = (r1 \ Removes[2]) \cup Makes[2]
        /\ r1 = ({} \ Removes[1]) \cup Makes[1]
    BY <1>0, <1>7, <1>8, <1>a DEF r7
  <1> HIDE DEF r1, r2, r3, r4, r5, r6
  <1>10. r5 = {"tables", "source required", "source index", "product",
               "product index", "zoned dates"}
    BY <1>9, WhatTheyMake DEF Removes
  <1>11. r7 = Built(Migration)
    BY <1>0, <1>9, <1>10, WhatTheyMake DEF Removes, Built
  <1> QED BY <1>7, <1>11

\* It cannot run on a database that has the tables, and on one that has the
\* first five migrations the others add what they make.
LEMMA UpFromFifth ==
  ASSUME NEW S \in SUBSET Migration, 1..5 \subseteq S,
         NEW todo \in SUBSET Migration,
         todo = Migration \/ todo \subseteq {6, 7},
         AllUp(Built(S), todo) # Failed
  PROVE  /\ todo \subseteq {6, 7}
         /\ 6 \in todo => 6 \notin S
         /\ AllUp(Built(S), todo) = Built(S \cup todo)
  <1> DEFINE s == Built(S)
  <1>0. Migration = {1, 2, 3, 4, 5, 6, 7}
    BY SevenMigrations
  <1> HIDE DEF s
  <1>1. /\ \A m \in Migration : Then(m, Failed, todo) = Failed
        /\ \A m, r : m \notin todo => Then(m, r, todo) = r
        /\ \A m, r : m \in todo /\ Then(m, r, todo) # Failed =>
             UpWorks(m, r) /\ Then(m, r, todo) = (r \ Removes[m]) \cup Makes[m]
    BY DEF Then, Up
  <1>2. todo # Migration
    <2> SUFFICES ASSUME todo = Migration PROVE FALSE
      OBVIOUS
    <2>1. "tables" \in s
      BY DEF Built, s
    <2>2. ~UpWorks(1, s)
      BY <2>1 DEF UpWorks
    <2>3. Then(1, s, todo) = Failed
      BY <1>0, <1>1, <2>2
    <2> QED BY <1>0, <1>1, <2>3 DEF AllUp, s
  <1>3. todo \subseteq {6, 7}
    BY <1>2
  <1>4. AllUp(s, todo) = Then(7, Then(6, s, todo), todo)
    <2>1. /\ 1 \notin todo /\ 2 \notin todo /\ 3 \notin todo /\ 4 \notin todo
          /\ 5 \notin todo
      BY <1>3
    <2>2. /\ Then(1, s, todo) = s /\ Then(2, s, todo) = s /\ Then(3, s, todo) = s
          /\ Then(4, s, todo) = s /\ Then(5, s, todo) = s
      BY <1>1, <2>1
    <2> QED BY <2>2 DEF AllUp
  <1>5. Then(6, s, todo) # Failed
    BY <1>0, <1>1, <1>4 DEF s
  <1>6. 6 \in todo => 6 \notin S /\ Then(6, s, todo) = s \cup {"user index"}
    <2> SUFFICES ASSUME 6 \in todo
                 PROVE  6 \notin S /\ Then(6, s, todo) = s \cup {"user index"}
      OBVIOUS
    <2>1. UpWorks(6, s) /\ Then(6, s, todo) = (s \ Removes[6]) \cup Makes[6]
      BY <1>1, <1>5
    <2>2. Makes[6] = {"user index"} /\ Removes[6] = {}
      BY WhatTheyMake DEF Removes
    <2>3. Makes[6] \cap s = {}
      BY <2>1 DEF UpWorks
    <2> QED BY <2>1, <2>2, <2>3 DEF s, Built
  <1>7. 6 \notin todo => Then(6, s, todo) = s
    BY <1>1
  <1>8. Then(6, s, todo) = Built(S \cup (todo \cap {6}))
    <2>1. CASE 6 \in todo
      <3>1. Built(S \cup (todo \cap {6})) = s \cup {"user index"}
        <4>1. 6 \notin S
          BY <1>6, <2>1
        <4> DEFINE S6 == S \cup (todo \cap {6})
        <4>2. 6 \in S6 /\ (7 \in S6 <=> 7 \in S)
          <5>1. 7 \notin {6}
            OBVIOUS
          <5> QED BY <2>1, <5>1
        <4> HIDE DEF S6
        <4>3. Built(S6) = Built(S) \cup {"user index"}
          BY <4>1, <4>2 DEF Built
        <4> QED BY <4>3 DEF s, S6
      <3> QED BY <1>6, <2>1, <3>1
    <2>2. CASE 6 \notin todo
      <3>1. S \cup (todo \cap {6}) = S
        BY <2>2
      <3> QED BY <1>7, <2>2, <3>1 DEF s
    <2> QED BY <2>1, <2>2
  <1>9. Then(7, Built(S \cup (todo \cap {6})), todo) = Built(S \cup todo)
    <2>1. CASE 7 \in todo
      <3>1. Then(7, Then(6, s, todo), todo) = Then(6, s, todo) \ {"source required"}
        <4>1. Makes[7] = {} /\ Removes[7] = {"source required"}
          BY WhatTheyMake DEF Removes
        <4>2. Then(7, Then(6, s, todo), todo) # Failed
          BY <1>4 DEF s
        <4>3. Then(7, Then(6, s, todo), todo)
                = (Then(6, s, todo) \ Removes[7]) \cup Makes[7]
          BY <1>1, <2>1, <4>2
        <4> QED BY <4>1, <4>3
      <3> QED BY <1>3, <1>8, <2>1, <3>1 DEF Built
    <2>2. CASE 7 \notin todo
      BY <1>3, <2>2 DEF Then, Built
    <2> QED BY <2>1, <2>2
  <1> QED BY <1>3, <1>4, <1>6, <1>8, <1>9 DEF s

\* Every list that LateFifth allows is empty or has the first five.
LEMMA NamesOfLate ==
  ASSUME NEW list \in SUBSET Row, LateFifth(list)
  PROVE  /\ Names(list) \in SUBSET Migration
         /\ list = {} => Names(list) = {}
         /\ list # {} => 1..5 \subseteq Names(list)
  <1>1. Names(list) \in SUBSET Migration
    BY DEF Names, Row
  <1>2. list = {} => Names(list) = {}
    BY DEF Names
  <1> QED BY <1>1, <1>2 DEF LateFifth

LEMMA PendingOfLate ==
  ASSUME NEW list \in SUBSET Row, LateFifth(list)
  PROVE  /\ Pending(list) \in SUBSET Migration
         /\ Pending(list) = Migration \/ Pending(list) \subseteq {6, 7}
  BY NamesOfLate, SevenMigrations DEF Pending

\* The one to undo is never older than the fifth.
LEMMA LatestIsLate ==
  ASSUME NEW list \in SUBSET Row, LateFifth(list), NEW m \in Latest(list)
  PROVE  m \in {5, 6, 7} /\ list # {}
  <1>1. PICK p \in list : p.name = m /\ \A q \in list : q.id <= p.id
    BY DEF Latest
  <1>2. PICK r \in list : r.name = 5 /\ \A q \in list : q.name < 5 => q.id < r.id
    BY <1>1 DEF LateFifth
  <1>3. /\ p.name \in {1, 2, 3, 4, 5, 6, 7} /\ p.id \in Nat /\ r.id \in Nat
    BY SevenMigrations DEF Row
  <1>4. r.id <= p.id
    BY <1>1
  <1>5. ~(p.name < 5)
    <2> SUFFICES ASSUME p.name < 5 PROVE FALSE
      OBVIOUS
    <2>1. p.id < r.id
      BY <1>2
    <2> QED BY <2>1, <1>3, <1>4
  <1> QED BY <1>1, <1>3, <1>5

LEMMA BuiltParts ==
  ASSUME NEW S PROVE Built(S) \in SUBSET Part /\ "foo" \notin Built(S)
  BY DEF Built, Part

\* The schema of a list that LateFifth allows.
LEMMA SchemaOfLate ==
  ASSUME NEW list \in SUBSET Row, LateFifth(list)
  PROVE  SchemaOf(Names(list)) = IF list = {} THEN {} ELSE Built(Names(list))
  BY NamesOfLate, SchemaOfNone, SchemaOfAll

LEMMA InitMigrations == Init => MigrationsInv
  <1> SUFFICES ASSUME Init PROVE MigrationsInv
    OBVIOUS
  <1> USE DEF Init
  <1>1. PICK d \in Deployed :
          /\ executed = {[id |-> m, name |-> m] : m \in 1..d}
          /\ schema = SchemaOf(1..d)
          /\ rows \in (IF d = 0 THEN {FALSE} ELSE BOOLEAN)
          /\ unpaid \in (IF d = Last /\ rows THEN BOOLEAN ELSE {FALSE})
    OBVIOUS
  <1>2. d \in {0, 5, 6, 7} /\ d \in Nat
    BY DeployedAssumption
  <1>3. 1..d \subseteq Migration
    BY <1>2 DEF Migration, Last
  <1>4. executed \in SUBSET Row
    BY <1>1, <1>3 DEF Row, Migration, Last
  <1>5. Names(executed) = 1..d
    <2>1. \A m \in 1..d : [id |-> m, name |-> m] \in executed
      BY <1>1
    <2>2. \A r \in executed : r.name \in 1..d
      BY <1>1
    <2>3. \A m \in 1..d : \E r \in executed : r.name = m
      <3> SUFFICES ASSUME NEW m \in 1..d PROVE \E r \in executed : r.name = m
        OBVIOUS
      <3>1. [id |-> m, name |-> m] \in executed
        BY <2>1
      <3> QED BY <3>1
    <2> QED BY <2>2, <2>3 DEF Names
  <1>6. LateFifth(executed)
    <2>1. CASE d = 0
      BY <1>1, <2>1 DEF LateFifth
    <2>2. CASE d # 0
      <3>1. 1..5 \subseteq 1..d /\ 5 \in 1..d
        BY <1>2, <2>2
      <3> DEFINE r == [id |-> 5, name |-> 5]
      <3>2. r \in executed /\ r.name = 5
        BY <1>1, <3>1
      <3>3. \A q \in executed : q.name < 5 => q.id < r.id
        BY <1>1
      <3> QED BY <1>5, <3>1, <3>2, <3>3 DEF LateFifth
    <2> QED BY <2>1, <2>2
  <1>7. schema \in SUBSET Part
    BY <1>1, <1>4, <1>5, <1>6, SchemaOfLate, BuiltParts
  <1>8. rows \in BOOLEAN /\ unpaid \in BOOLEAN
    BY <1>1
  <1>9. job \in [Jobs -> Job] /\ \A j \in Jobs : job[j].seen = {}
    BY DEF Job
  <1>10. MigrationsTypeOK
    BY <1>4, <1>7, <1>8, <1>9 DEF MigrationsTypeOK, Last
  <1>11. SchemaIsOfDone
    BY <1>1, <1>5 DEF SchemaIsOfDone
  <1>12. OnlyTheSeventhTwice
    BY <1>1 DEF OnlyTheSeventhTwice
  <1>13. LateFifth({})
    BY DEF LateFifth
  <1> QED BY <1>6, <1>9, <1>10, <1>11, <1>12, <1>13 DEF MigrationsInv

\* A run of the pending migrations.
LEMMA RunKeeps ==
  ASSUME MigrationsInv, NEW j \in Jobs, RunMigrations(j)
  PROVE  MigrationsInv'
  <1> DEFINE todo == Pending(job[j].seen)
             S == Names(executed)
             fresh == {[id |-> nextId + m, name |-> m] : m \in todo}
  <1>0. /\ executed \in SUBSET Row /\ nextId \in Nat /\ job \in [Jobs -> Job]
        /\ job[j].seen \in SUBSET Row
        /\ LateFifth(executed) /\ LateFifth(job[j].seen)
    BY DEF MigrationsInv, MigrationsTypeOK, Job
  <1>1. /\ todo \in SUBSET Migration
        /\ todo = Migration \/ todo \subseteq {6, 7}
    BY <1>0, PendingOfLate
  <1>2. /\ AllUp(schema, todo) # Failed
        /\ schema' = AllUp(schema, todo)
        /\ executed' = executed \cup fresh
        /\ nextId' = nextId + Last
        /\ job' = [job EXCEPT ![j].pc = "close", ![j].seen = {}]
        /\ UNCHANGED <<rows, unpaid, pools>>
    BY DEF RunMigrations
  <1>3. schema = IF executed = {} THEN {} ELSE Built(S)
    BY <1>0, SchemaOfLate DEF MigrationsInv, SchemaIsOfDone
  <1>4. fresh \in SUBSET Row /\ Names(fresh) = todo
    <2>1. \A m \in todo : nextId + m \in Nat
      BY <1>0, <1>1, SevenMigrations
    <2>2. fresh \in SUBSET Row
      BY <1>1, <2>1 DEF Row
    <2>3. Names(fresh) = todo
      <3>1. \A m \in todo : \E r \in fresh : r.name = m
        <4> TAKE m \in todo
        <4>1. [id |-> nextId + m, name |-> m] \in fresh
          OBVIOUS
        <4> WITNESS [id |-> nextId + m, name |-> m] \in fresh
        <4> QED OBVIOUS
      <3>2. \A r \in fresh : r.name \in todo
        OBVIOUS
      <3> HIDE DEF fresh, todo
      <3> QED BY <3>1, <3>2 DEF Names
    <2> QED BY <2>2, <2>3
  <1>5. Names(executed') = S \cup todo
    BY <1>2, <1>4 DEF Names
  <1>6. CASE executed = {}
    <2>1. todo = Migration
      <3>1. job[j].seen = {}
        BY <1>6 DEF MigrationsInv
      <3> QED BY <1>0, <3>1, NamesOfLate DEF Pending
    <2>2. schema' = Built(Migration)
      BY <1>2, <1>3, <1>6, <2>1, UpFromNothing
    <2>3. executed' = fresh /\ Names(executed') = Migration
      BY <1>2, <1>4, <1>6, <2>1
    <2>4. LateFifth(executed')
      <3> DEFINE r == [id |-> nextId + 5, name |-> 5]
      <3>1. r \in fresh /\ r.name = 5
        BY <2>1, SevenMigrations
      <3>2. \A q \in fresh : q.name < 5 => q.id < r.id
        BY <1>0, <2>1, SevenMigrations
      <3>3. 1..5 \subseteq Names(executed')
        BY <2>3, SevenMigrations
      <3> QED BY <2>3, <3>1, <3>2, <3>3 DEF LateFifth
    <2>5. SchemaIsOfDone' /\ schema' \in SUBSET Part
      <3>1. SchemaOf(Migration) = Built(Migration)
        BY SchemaOfAll, SevenMigrations
      <3> QED BY <2>2, <2>3, <3>1, BuiltParts DEF SchemaIsOfDone, Names
    <2>6. OnlyTheSeventhTwice'
      BY <2>3 DEF OnlyTheSeventhTwice
    <2>7. executed' # {}
      <3>1. 1 \in Names(executed')
        BY <2>3, SevenMigrations
      <3> QED BY <3>1 DEF Names
    <2>8. MigrationsTypeOK'
      <3>1. job' \in [Jobs -> Job]
        BY <1>0, <1>2 DEF Job
      <3> QED BY <1>0, <1>2, <1>4, <2>3, <2>5, <3>1
              DEF MigrationsInv, MigrationsTypeOK, Last
    <2>9. \A i \in Jobs : LateFifth(job'[i].seen)
      BY <1>0, <1>2 DEF MigrationsInv, LateFifth
    <2> QED BY <2>4, <2>5, <2>6, <2>7, <2>8, <2>9 DEF MigrationsInv
  <1>7. CASE executed # {}
    <2>1. S \in SUBSET Migration /\ 1..5 \subseteq S
      BY <1>0, <1>7, NamesOfLate
    <2>2. /\ todo \subseteq {6, 7}
          /\ 6 \in todo => 6 \notin S
          /\ schema' = Built(S \cup todo)
      BY <1>1, <1>2, <1>3, <1>7, <2>1, UpFromFifth
    <2>3. \A q \in fresh : q.name \in {6, 7}
      BY <2>2
    <2>4. LateFifth(executed')
      <3>1. PICK r \in executed : /\ r.name = 5
                                 /\ \A q \in executed : q.name < 5 => q.id < r.id
        BY <1>0, <1>7 DEF LateFifth
      <3>2. \A q \in executed' : q.name < 5 => q.id < r.id
        BY <1>2, <2>3, <3>1
      <3>3. 1..5 \subseteq Names(executed')
        BY <1>5, <2>1
      <3> QED BY <1>2, <3>1, <3>2, <3>3 DEF LateFifth
    <2>5. SchemaIsOfDone' /\ schema' \in SUBSET Part
      <3>1. SchemaOf(S \cup todo) = Built(S \cup todo)
        BY <1>1, <2>1, SchemaOfAll
      <3> QED BY <1>5, <2>2, <3>1, BuiltParts DEF SchemaIsOfDone, Names
    <2>6. OnlyTheSeventhTwice'
      <3>1. ASSUME NEW r \in executed', NEW q \in executed', r.name = q.name, r.id # q.id
            PROVE  r.name = 7
        <4>1. CASE r \in executed /\ q \in executed
          BY <3>1, <4>1 DEF MigrationsInv, OnlyTheSeventhTwice
        <4>2. CASE r \in fresh /\ q \in fresh
          BY <3>1, <4>2
        <4>3. CASE r \in executed /\ q \in fresh
          <5>1. r.name \in S
            BY <4>3 DEF Names
          <5>2. r.name \in todo
            BY <3>1, <4>3
          <5> QED BY <2>2, <5>1, <5>2
        <4>4. CASE r \in fresh /\ q \in executed
          <5>1. q.name \in S
            BY <4>4 DEF Names
          <5>2. q.name \in todo
            BY <3>1, <4>4
          <5> QED BY <2>2, <3>1, <5>1, <5>2
        <4> QED BY <1>2, <4>1, <4>2, <4>3, <4>4
      <3> QED BY <3>1 DEF OnlyTheSeventhTwice
    <2>7. executed' # {}
      BY <1>2, <1>7
    <2>8. MigrationsTypeOK'
      <3>1. job' \in [Jobs -> Job]
        BY <1>0, <1>2 DEF Job
      <3> QED BY <1>0, <1>2, <1>4, <2>5, <3>1
              DEF MigrationsInv, MigrationsTypeOK, Last
    <2>9. \A i \in Jobs : LateFifth(job'[i].seen)
      BY <1>0, <1>2 DEF MigrationsInv, LateFifth
    <2> QED BY <2>4, <2>5, <2>6, <2>7, <2>8, <2>9 DEF MigrationsInv
  <1> QED BY <1>6, <1>7

\* Only the sixth and the seventh migration are ever undone.
LEMMA UndoneIsLate ==
  ASSUME MigrationsInv, NEW j \in Jobs, NEW m \in Latest(job[j].seen),
         DownWorks(m, schema)
  PROVE  m \in {6, 7} /\ executed # {}
  <1>0. /\ executed \in SUBSET Row /\ job[j].seen \in SUBSET Row
        /\ LateFifth(executed) /\ LateFifth(job[j].seen)
    BY DEF MigrationsInv, MigrationsTypeOK, Job
  <1>1. m \in {5, 6, 7} /\ job[j].seen # {}
    BY <1>0, LatestIsLate
  <1>2. "foo" \notin schema
    BY <1>0, SchemaOfLate, BuiltParts DEF MigrationsInv, SchemaIsOfDone
  <1>3. m # 5
    BY <1>2 DEF DownWorks
  <1> QED BY <1>1, <1>3 DEF MigrationsInv

LEMMA UndoKeeps ==
  ASSUME MigrationsInv, NEW j \in Jobs, UndoLastMigration(j)
  PROVE  MigrationsInv'
  <1> DEFINE S == Names(executed)
  <1>0. /\ executed \in SUBSET Row /\ job \in [Jobs -> Job]
        /\ LateFifth(executed) /\ LateFifth(job[j].seen)
    BY DEF MigrationsInv, MigrationsTypeOK
  <1>1. PICK m \in Latest(job[j].seen) :
          /\ DownWorks(m, schema)
          /\ schema' = Down(m, schema)
          /\ executed' = {r \in executed : r.name # m}
          /\ rows' = (rows /\ m # 1)
          /\ unpaid' = (unpaid /\ m # 1)
          /\ job' = [job EXCEPT ![j].pc = "close", ![j].seen = {}]
          /\ UNCHANGED <<nextId, pools>>
    BY DEF UndoLastMigration
  <1>2. m \in {6, 7} /\ executed # {}
    BY <1>1, UndoneIsLate
  <1>3. S \in SUBSET Migration /\ 1..5 \subseteq S /\ schema = Built(S)
    BY <1>0, <1>2, NamesOfLate, SchemaOfLate DEF MigrationsInv, SchemaIsOfDone
  <1>4. Names(executed') = S \ {m}
    BY <1>1 DEF Names
  <1>5. 1..5 \subseteq S \ {m} /\ S \ {m} \in SUBSET Migration
    BY <1>2, <1>3, SevenMigrations
  <1>6. schema' = Built(S \ {m})
    <2>1. CASE m = 6
      <3>1. Down(6, schema) = schema \ {"user index"}
        BY WhatTheyMake DEF Down
      <3> DEFINE T == S \ {m}
      <3>2. 6 \notin T /\ (7 \in T <=> 7 \in S)
        BY <2>1
      <3> HIDE DEF T
      <3>3. Built(T) = Built(S) \ {"user index"}
        BY <3>2 DEF Built
      <3> QED BY <1>1, <1>3, <2>1, <3>1, <3>3 DEF T
    <2>2. CASE m = 7
      <3>1. Down(7, schema) = schema \cup {"source required"}
        BY DEF Down
      <3> DEFINE T == S \ {m}
      <3>2. 7 \notin T /\ (6 \in T <=> 6 \in S)
        BY <2>2
      <3> HIDE DEF T
      <3>3. Built(T) = Built(S) \cup {"source required"}
        BY <3>2 DEF Built
      <3> QED BY <1>1, <1>3, <2>2, <3>1, <3>3 DEF T
    <2> QED BY <1>2, <2>1, <2>2
  <1>7. LateFifth(executed')
    <2>1. PICK r \in executed : /\ r.name = 5
                               /\ \A q \in executed : q.name < 5 => q.id < r.id
      BY <1>0, <1>2 DEF LateFifth
    <2>2. r \in executed' /\ \A q \in executed' : q.name < 5 => q.id < r.id
      BY <1>1, <1>2, <2>1
    <2> QED BY <1>4, <1>5, <2>1, <2>2 DEF LateFifth
  <1>8. executed' # {}
    <2>1. 5 \in Names(executed')
      BY <1>4, <1>5, SevenMigrations
    <2> QED BY <2>1 DEF Names
  <1>9. SchemaIsOfDone' /\ schema' \in SUBSET Part
    <2>1. SchemaOf(S \ {m}) = Built(S \ {m})
      BY <1>5, SchemaOfAll
    <2> QED BY <1>4, <1>6, <2>1, BuiltParts DEF SchemaIsOfDone, Names
  <1>10. OnlyTheSeventhTwice'
    BY <1>1 DEF MigrationsInv, OnlyTheSeventhTwice
  <1>11. MigrationsTypeOK'
    <2>1. job' \in [Jobs -> Job]
      BY <1>0, <1>1 DEF Job
    <2>2. rows' \in BOOLEAN /\ unpaid' \in BOOLEAN
      BY <1>1
    <2> QED BY <1>0, <1>1, <1>9, <2>1, <2>2 DEF MigrationsInv, MigrationsTypeOK
  <1>12. \A i \in Jobs : LateFifth(job'[i].seen)
    BY <1>0, <1>1 DEF MigrationsInv, LateFifth
  <1> QED BY <1>7, <1>8, <1>9, <1>10, <1>11, <1>12 DEF MigrationsInv

LEMMA NextMigrations == MigrationsInv /\ [Next]_migrationVars => MigrationsInv'
  <1> SUFFICES ASSUME MigrationsInv, [Next]_migrationVars PROVE MigrationsInv'
    OBVIOUS
  <1>0. /\ MigrationsTypeOK /\ job \in [Jobs -> Job]
        /\ LateFifth(executed) /\ LateFifth({})
        /\ \A i \in Jobs : /\ LateFifth(job[i].seen)
                           /\ job[i].seen # {} => executed # {}
    BY DEF MigrationsInv, MigrationsTypeOK, LateFifth
  <1>a. ASSUME UNCHANGED <<schema, executed, nextId>>,
               rows' \in BOOLEAN, unpaid' \in BOOLEAN,
               pools' \in SUBSET Jobs, job' \in [Jobs -> Job],
               \A i \in Jobs : job'[i].seen \in {{}, executed, job[i].seen}
        PROVE  MigrationsInv'
    <2>1. MigrationsTypeOK'
      BY <1>a, <1>0 DEF MigrationsTypeOK
    <2>2. \A i \in Jobs : LateFifth(job'[i].seen) /\ (job'[i].seen # {} => executed # {})
      <3> SUFFICES ASSUME NEW i \in Jobs
                   PROVE  LateFifth(job'[i].seen) /\ (job'[i].seen # {} => executed # {})
        OBVIOUS
      <3>1. CASE job'[i].seen = {}
        BY <1>0, <3>1
      <3>2. CASE job'[i].seen = executed
        BY <1>0, <3>2
      <3>3. CASE job'[i].seen = job[i].seen
        BY <1>0, <3>3
      <3> QED BY <1>a, <3>1, <3>2, <3>3
    <2> QED BY <1>a, <2>1, <2>2
            DEF MigrationsInv, SchemaIsOfDone, OnlyTheSeventhTwice, LateFifth, Names
  <1>1. ASSUME NEW j \in Jobs, NEW op \in {"up", "down"}, GetOrm(j, op)
        PROVE  MigrationsInv'
    <2>1. job' \in [Jobs -> Job] /\ \A i \in Jobs : job'[i].seen \in {{}, job[i].seen}
      BY <1>0, <1>1 DEF GetOrm, Job
    <2>2. rows' \in BOOLEAN /\ unpaid' \in BOOLEAN /\ pools' \in SUBSET Jobs
      BY <1>0, <1>1 DEF GetOrm, MigrationsTypeOK
    <2> QED BY <1>a, <1>1, <2>1, <2>2 DEF GetOrm
  <1>2. ASSUME NEW j \in Jobs, LoadExecuted(j)
        PROVE  MigrationsInv'
    <2>1. /\ job' \in [Jobs -> Job]
          /\ \A i \in Jobs : job'[i].seen \in {executed, job[i].seen}
      BY <1>0, <1>2 DEF LoadExecuted, Job, MigrationsTypeOK
    <2>2. rows' \in BOOLEAN /\ unpaid' \in BOOLEAN /\ pools' \in SUBSET Jobs
      BY <1>0, <1>2 DEF LoadExecuted, MigrationsTypeOK
    <2> QED BY <1>a, <1>2, <2>1, <2>2 DEF LoadExecuted
  <1>3. ASSUME NEW j \in Jobs, NothingToUndo(j) \/ RollBack(j) \/ Destroy(j)
        PROVE  MigrationsInv'
    <2>1. job' \in [Jobs -> Job] /\ \A i \in Jobs : job'[i].seen \in {{}, job[i].seen}
      BY <1>0, <1>3 DEF NothingToUndo, RollBack, Destroy, Job
    <2>2. rows' \in BOOLEAN /\ unpaid' \in BOOLEAN /\ pools' \in SUBSET Jobs
      BY <1>0, <1>3 DEF NothingToUndo, RollBack, Destroy, MigrationsTypeOK
    <2> QED BY <1>a, <1>3, <2>1, <2>2 DEF NothingToUndo, RollBack, Destroy
  <1>4. ASSUME Pay \/ Charge \/ UNCHANGED migrationVars
        PROVE  MigrationsInv'
    <2>1. /\ UNCHANGED <<schema, executed, nextId, pools, job>>
          /\ rows' \in BOOLEAN /\ unpaid' \in BOOLEAN
      BY <1>0, <1>4 DEF Pay, Charge, MigrationsTypeOK, migrationVars
    <2> QED BY <1>0, <1>a, <2>1 DEF MigrationsTypeOK
  <1> QED BY <1>1, <1>2, <1>3, <1>4, RunKeeps, UndoKeeps DEF Next, Call

THEOREM InductiveMigrations == Spec => []MigrationsInv
  BY InitMigrations, NextMigrations, PTL DEF Spec

\* The state of the migrations endpoints stays in its types.
THEOREM MigrationsTypeCorrect == Spec => []MigrationsTypeOK
  <1>1. MigrationsInv => MigrationsTypeOK
    BY DEF MigrationsInv
  <1> QED BY <1>1, InductiveMigrations, PTL

\* Whatever calls of migrate-up and migrate-down race, the tables are as the
\* list of executed migrations says.
THEOREM SchemaFollowsList == Spec => []SchemaIsOfDone
  <1>1. MigrationsInv => SchemaIsOfDone
    BY DEF MigrationsInv
  <1> QED BY <1>1, InductiveMigrations, PTL

\* Two calls of migrate-up never both run one of the first six migrations.
THEOREM SeventhOnly == Spec => []OnlyTheSeventhTwice
  <1>1. MigrationsInv => OnlyTheSeventhTwice
    BY DEF MigrationsInv
  <1> QED BY <1>1, InductiveMigrations, PTL

\* No number of calls of migrate-down takes the transactions away.
THEOREM RowsAreKept == Spec => RowsSurvive
  <1>1. MigrationsInv /\ [Next]_migrationVars => [rows => rows']_migrationVars
    <2> SUFFICES ASSUME MigrationsInv, Next, rows PROVE rows'
      BY DEF migrationVars
    <2>1. ASSUME NEW j \in Jobs, UndoLastMigration(j) PROVE rows'
      <3>1. PICK m \in Latest(job[j].seen) : DownWorks(m, schema) /\ rows' = (rows /\ m # 1)
        BY <2>1 DEF UndoLastMigration
      <3>2. m # 1
        BY <3>1, UndoneIsLate
      <3> QED BY <3>1, <3>2
    <2>2. ASSUME NEW j \in Jobs,
                 \/ \E op \in {"up", "down"} : GetOrm(j, op)
                 \/ LoadExecuted(j) \/ RunMigrations(j)
                 \/ NothingToUndo(j) \/ RollBack(j) \/ Destroy(j)
          PROVE rows'
      BY <2>2 DEF GetOrm, LoadExecuted, RunMigrations, NothingToUndo, RollBack, Destroy
    <2>3. ASSUME Pay \/ Charge PROVE rows'
      BY <2>3 DEF Pay, Charge
    <2> QED BY <2>1, <2>2, <2>3 DEF Next, Call
  <1> QED BY <1>1, InductiveMigrations, PTL DEF Spec, RowsSurvive

----------------------------------------------------------------------------
(* The calls implement the history: a step of theirs is one of its steps,   *)
(* or changes nothing that it speaks of.                                    *)

\* The list and what it says of the schema.
LEMMA ListOfInv ==
  ASSUME MigrationsInv
  PROVE  /\ executed = {} => Names(executed) = {} /\ schema = {}
         /\ executed # {} => /\ Names(executed) # {}
                             /\ schema = Built(Names(executed))
  <1>1. executed \in SUBSET Row /\ LateFifth(executed)
    BY DEF MigrationsInv, MigrationsTypeOK
  <1> QED BY <1>1, NamesOfLate, SchemaOfLate, SevenMigrations DEF MigrationsInv, SchemaIsOfDone

LEMMA InitHistory == Init => History!HistoryInit
  <1> SUFFICES ASSUME Init PROVE History!HistoryInit
    OBVIOUS
  <1>1. PICK d \in Deployed :
          /\ executed = {[id |-> m, name |-> m] : m \in 1..d}
          /\ rows \in (IF d = 0 THEN {FALSE} ELSE BOOLEAN)
          /\ unpaid \in (IF d = Last /\ rows THEN BOOLEAN ELSE {FALSE})
    BY DEF Init
  <1>2. d \in {0, 5, 6, 7}
    BY DeployedAssumption
  <1>3. Names(executed) = 1..d
    <2>1. \A m \in 1..d : \E r \in executed : r.name = m
      <3> SUFFICES ASSUME NEW m \in 1..d PROVE \E r \in executed : r.name = m
        OBVIOUS
      <3>1. [id |-> m, name |-> m] \in executed
        BY <1>1
      <3> QED BY <3>1
    <2>2. \A r \in executed : r.name \in 1..d
      BY <1>1
    <2> QED BY <2>1, <2>2 DEF Names
  <1>4. 1..0 = {} /\ 1 \in 1..5 /\ 1 \in 1..6 /\ 1 \in 1..7 /\ 7 \in 1..7
    OBVIOUS
  <1>5. Names(executed) \in {{}, 1..5, 1..6, 1..7} /\ (d # 0 => Names(executed) # {})
    BY <1>2, <1>3, <1>4
  <1>6. d = Last => 7 \in Names(executed)
    BY <1>3, <1>4 DEF Last
  <1> QED BY <1>1, <1>5, <1>6 DEF History!HistoryInit

\* A run installs all, or adds what a list with the first five can take.
LEMMA RunIsHistory ==
  ASSUME MigrationsInv, NEW j \in Jobs, RunMigrations(j)
  PROVE  History!Install \/ History!Advance
  <1> DEFINE todo == Pending(job[j].seen)
             fresh == {[id |-> nextId + m, name |-> m] : m \in todo}
  <1>1. /\ executed' = executed \cup fresh /\ UNCHANGED <<rows, unpaid>>
        /\ AllUp(schema, todo) # Failed
    BY DEF RunMigrations
  <1>2. Names(executed') = Names(executed) \cup todo
    <2>1. \A m \in todo : \E r \in fresh : r.name = m
      <3> TAKE m \in todo
      <3> WITNESS [id |-> nextId + m, name |-> m] \in fresh
      <3> QED OBVIOUS
    <2>2. \A r \in fresh : r.name \in todo
      OBVIOUS
    <2> HIDE DEF fresh, todo
    <2> QED BY <1>1, <2>1, <2>2 DEF Names
  <1>3. /\ job[j].seen \in SUBSET Row /\ LateFifth(job[j].seen)
        /\ executed \in SUBSET Row /\ LateFifth(executed)
    BY DEF MigrationsInv, MigrationsTypeOK, Job
  <1>4. CASE executed = {}
    <2>1. job[j].seen = {}
      BY <1>4 DEF MigrationsInv
    <2>2. todo = Migration
      BY <1>3, <2>1, NamesOfLate DEF Pending
    <2>3. Names(executed) = {}
      BY <1>4, ListOfInv
    <2> QED BY <1>1, <1>2, <2>2, <2>3 DEF History!Install, Migration, Last, Names
  <1>5. CASE executed # {}
    <2>1. todo \subseteq {6, 7}
      <3>1. /\ Names(executed) \in SUBSET Migration /\ 1..5 \subseteq Names(executed)
            /\ todo \in SUBSET Migration /\ (todo = Migration \/ todo \subseteq {6, 7})
        BY <1>3, <1>5, NamesOfLate, PendingOfLate
      <3>2. AllUp(Built(Names(executed)), todo) # Failed
        BY <1>1, <1>5, ListOfInv
      <3> HIDE DEF todo
      <3> QED BY <3>1, <3>2, UpFromFifth
    <2>2. Names(executed) # {}
      BY <1>5, ListOfInv
    <2> HIDE DEF todo
    <2> QED BY <1>1, <1>2, <2>1, <2>2 DEF History!Advance, Names
  <1> QED BY <1>4, <1>5

LEMMA UndoIsHistory ==
  ASSUME MigrationsInv, NEW j \in Jobs, UndoLastMigration(j)
  PROVE  History!Retreat
  <1>1. PICK m \in Latest(job[j].seen) :
          /\ DownWorks(m, schema)
          /\ executed' = {r \in executed : r.name # m}
          /\ rows' = (rows /\ m # 1) /\ unpaid' = (unpaid /\ m # 1)
    BY DEF UndoLastMigration
  <1>2. m \in {6, 7} /\ executed # {}
    BY <1>1, UndoneIsLate
  <1>3. m = 7 => ~unpaid
    BY <1>1 DEF DownWorks
  <1>4. Names(executed') = Names(executed) \ {m} /\ Names(executed) # {}
    BY <1>1, <1>2, ListOfInv DEF Names
  <1>5. rows' = rows /\ unpaid' = unpaid
    BY <1>1, <1>2 DEF MigrationsInv, MigrationsTypeOK
  <1> QED BY <1>2, <1>3, <1>4, <1>5 DEF History!Retreat, Names

LEMMA StepHistory ==
  ASSUME MigrationsInv, [Next]_migrationVars
  PROVE  [History!HistoryNext]_(History!historyVars)
  <1> USE DEF History!HistoryNext
  <1>1. ASSUME NEW j \in Jobs,
               \/ \E op \in {"up", "down"} : GetOrm(j, op)
               \/ LoadExecuted(j) \/ NothingToUndo(j) \/ RollBack(j) \/ Destroy(j)
        PROVE  UNCHANGED History!historyVars
    BY <1>1 DEF GetOrm, LoadExecuted, NothingToUndo, RollBack, Destroy,
       History!historyVars, Names
  <1>2. ASSUME Pay PROVE History!Insert
    <2>1. /\ "product" \in schema /\ "source required" \notin schema
          /\ rows' = TRUE /\ unpaid' = TRUE /\ executed' = executed
      BY <1>2 DEF Pay
    <2>2. 7 \in Names(executed)
      BY <2>1, ListOfInv DEF Built
    <2> QED BY <2>1, <2>2 DEF History!Insert, Names
  <1>3. ASSUME Charge PROVE History!Complete
    BY <1>3 DEF Charge, History!Complete, Names
  <1>4. CASE UNCHANGED migrationVars
    BY <1>4 DEF migrationVars, History!historyVars, Names
  <1> QED BY <1>1, <1>2, <1>3, <1>4, RunIsHistory, UndoIsHistory DEF Next, Call

\* However calls of migrate-up and migrate-down race, the first five migrations
\* stay, only the last two come and go, and no transaction is lost or left
\* without a source that the schema requires.
THEOREM CallsImplementHistory == Spec => ImplementsHistory
  <1>1. MigrationsInv /\ [Next]_migrationVars => [History!HistoryNext]_(History!historyVars)
    BY StepHistory
  <1> QED
    BY <1>1, InitHistory, InductiveMigrations, PTL
    DEF Spec, ImplementsHistory, History!HistorySpec
=============================================================================
