------------------------- MODULE ArtifactPublish_proofs -------------------------
(***************************************************************************)
(* Theorems about ArtifactPublish, for any number of commands, schemas and *)
(* identifiers, and any overlap of the commands.                           *)
(*                                                                         *)
(* The invariant follows one idea: every snapshot somebody still relies on *)
(* (the present one, one a command has read, one a migration starts from)  *)
(* is Founded on published migrations, and published migrations stay while *)
(* anyone relies on them.                                                  *)
(***************************************************************************)
EXTENDS ArtifactPublish, TLAPS, WellFoundedInduction

\* migrations of P that are in T lead from nothing to s
FoundedIn(f, P, s, T) == \E S \in SUBSET (P \cap T) : Leads(f, S, s)
Founded(s, T) == FoundedIn(files, Published, s, T)
Below(n) == {j \in Ids : j < n}

Chosen == {"target", "write", "link", "rename"}
\* the migrations a command has listed
Listed(c) == unread[c] \cup Present(seen[c])

Tidy ==
    /\ \E n \in Nat : \A i \in Present(files) : i <= n
    /\ \A c \in Commands :
        /\ pc[c] # "ended" => outcome[c] = "none"
        /\ pc[c] \in {"idle", "prior", "list"} => seen[c] = [i \in Ids |-> Absent]
        /\ pc[c] = "check" => unread[c] = {}
        /\ pc[c] \in Chosen \cup {"undo"} => id[c] \in Ids
        /\ pc[c] = "rename" => files[id[c]] = Migration(c)

AllFounded ==
    /\ Founded(snapshot, Ids)
    /\ \A i \in Present(files) : Founded(files[i].from, Below(i))
    /\ \A c \in Commands :
        /\ pc[c] = "list" => Founded(prior[c], Ids)
        /\ pc[c] \in {"parse", "check"} => Founded(prior[c], Listed(c))
        /\ pc[c] \in Chosen => Founded(prior[c], Below(id[c]))

Invariant == TypeOK /\ Tidy /\ AllFounded
----------------------------------------------------------------------------
(* Sets of migrations *)

LEMMA NewestIsUnique ==
  ASSUME NEW S, S \subseteq Nat, NEW i, NEW j, Newest(S, i), Newest(S, j)
  PROVE  i = j
BY DEF Newest

\* Whether migrations lead to a snapshot depends on these migrations only.
LEMMA LeadsElsewhere ==
  ASSUME NEW f, NEW g, NEW S, NEW s, \A i \in S : g[i] = f[i], Leads(f, S, s)
  PROVE  Leads(g, S, s)
<1>1. \A i \in S : \A j \in Before(S, i) : j \in S
  BY DEF Before
<1> QED
  BY <1>1 DEF Leads, Continues, Newest

LEMMA FoundedKept ==
  ASSUME NEW f, NEW g, NEW P, NEW Q, NEW s, NEW T, NEW U,
         \A i \in P \cap T : i \in Q /\ i \in U /\ g[i] = f[i],
         FoundedIn(f, P, s, T)
  PROVE  FoundedIn(g, Q, s, U)
<1>1. PICK S \in SUBSET (P \cap T) : Leads(f, S, s)
  BY DEF FoundedIn
<1>2. Leads(g, S, s)
  BY <1>1, LeadsElsewhere
<1> QED
  BY <1>1, <1>2 DEF FoundedIn

\* A migration on top of those that lead to where it starts leads to where it ends.
LEMMA LeadsOn ==
  ASSUME NEW f, NEW S, NEW i \in Nat, S \subseteq Nat, \A j \in S : j < i,
         Leads(f, S, f[i].from)
  PROVE  Leads(f, S \cup {i}, f[i].to)
<1> DEFINE U == S \cup {i}
<1>0. \A j \in S : j \in Nat /\ j < i /\ ~(i < j)
  OBVIOUS
<1>1. Before(U, i) = S /\ \A j \in S : Before(U, j) = Before(S, j)
  <2>1. Before(U, i) = S
    <3>1. ~(i < i)
      OBVIOUS
    <3>2. \A x : x \in Before(U, i) <=> x \in S
      BY <1>0, <3>1 DEF Before
    <3> QED BY <3>2
  <2>2. ASSUME NEW j \in S PROVE Before(U, j) = Before(S, j)
    BY <1>0 DEF Before
  <2> QED BY <2>1, <2>2
<1>2. Newest(U, i)
  BY DEF Newest
<1>3. \A j \in S : IF Before(U, j) = {} THEN f[j].from = Missing ELSE Continues(f, U, j)
  BY <1>1 DEF Leads, Continues
<1>4. IF Before(U, i) = {} THEN f[i].from = Missing ELSE Continues(f, U, i)
  BY <1>1 DEF Leads, Continues
<1> QED
  BY <1>2, <1>3, <1>4 DEF Leads

\* A set of numbers with a bound has a greatest element.
LEMMA NewestExists ==
  ASSUME NEW S, S \subseteq Nat, S # {}, NEW n \in Nat, \A i \in S : i <= n
  PROVE  \E i \in S : Newest(S, i)
<1> DEFINE Bounds == {m \in Nat : \A i \in S : i <= m}
<1>1. PICK m \in Bounds : \A k \in Bounds : ~ (<<k, m>> \in OpToRel(<, Nat))
  <2>1. Bounds \subseteq Nat /\ Bounds # {}
    OBVIOUS
  <2> HIDE DEF Bounds
  <2> QED
    BY <2>1, WFMin, NatLessThanWellFounded
<1>2. \A k \in Bounds : ~ (k < m)
  BY <1>1 DEF OpToRel
<1>3. m \in S
  <2> SUFFICES ASSUME m \notin S PROVE FALSE
    OBVIOUS
  <2>1. m \in Nat /\ \A i \in S : i \in Nat /\ i <= m /\ i # m
    OBVIOUS
  <2>0. PICK x \in S : TRUE
    OBVIOUS
  <2>2. m # 0 /\ m - 1 \in Nat /\ m - 1 < m
    BY <2>0, <2>1
  <2>3. \A i \in S : i <= m - 1
    BY <2>1
  <2> QED
    BY <2>2, <2>3, <1>2
<1> QED
  BY <1>3 DEF Newest
----------------------------------------------------------------------------
(* Types *)

LEMMA TypesKept == TypeOK /\ Tidy /\ [Next]_vars => TypeOK'
<1> SUFFICES ASSUME TypeOK, Tidy, [Next]_vars PROVE TypeOK'
  OBVIOUS
<1> USE DEF TypeOK, Goto, End, directory, command
<1>1. ASSUME NEW c \in Commands, NEW s \in Schemas, NEW b \in BOOLEAN, Start(c, s, b)
      PROVE  TypeOK'
  BY <1>1 DEF Start
<1>2. ASSUME NEW c \in Commands, ReadPrior(c) \/ List(c) PROVE TypeOK'
  <2>1. CASE ReadPrior(c)
    BY <2>1 DEF ReadPrior
  <2>2. CASE List(c)
    <3>1. Present(files) \in SUBSET Ids
      BY DEF Present
    <3> QED BY <2>2, <3>1 DEF List
  <2> QED BY <1>2, <2>1, <2>2
<1>11. ASSUME NEW c \in Commands, NEW i \in Ids, Parse(c, i) PROVE TypeOK'
  <2>1. CASE seen' = [seen EXCEPT ![c][i] = files[i]] /\ Goto(c, "parse")
    <3>1. seen' \in [Commands -> [Ids -> Migrations \cup {Absent}]]
      BY <2>1
    <3> QED BY <1>11, <2>1, <3>1 DEF Parse
  <2>2. CASE UNCHANGED seen /\ End(c, "refused")
    BY <1>11, <2>2 DEF Parse
  <2> QED BY <1>11, <2>1, <2>2 DEF Parse
<1>12. ASSUME NEW c \in Commands, Validate(c) PROVE TypeOK'
  BY <1>12 DEF Validate
<1>3. ASSUME NEW c \in Commands, NEW i \in Ids, Plan(c, i) PROVE TypeOK'
  <2>1. CASE id' = [id EXCEPT ![c] = i] /\ Goto(c, "target")
    BY <1>3, <2>1 DEF Plan
  <2>2. ASSUME NEW o \in {"uptodate", "refused"}, UNCHANGED id, End(c, o) PROVE TypeOK'
    BY <1>3, <2>2 DEF Plan
  <2> QED BY <1>3, <2>1, <2>2 DEF Plan
<1>4. ASSUME NEW c \in Commands, Unsafe(c) \/ Target(c) \/ Write(c) PROVE TypeOK'
  BY <1>4 DEF Unsafe, Target, Write
<1>5. ASSUME NEW c \in Commands, Link(c) PROVE TypeOK'
  <2>1. Migration(c) \in Migrations
    BY DEF Migration, Migrations
  <2>2. files' \in [Ids -> Migrations \cup {Absent}]
    BY <1>5, <2>1 DEF Link
  <2> QED BY <1>5, <2>2 DEF Link
<1>6. ASSUME NEW c \in Commands, Rename(c) \/ RenameFails(c) PROVE TypeOK'
  <2>1. CASE Rename(c)
    BY <2>1 DEF Rename
  <2>2. CASE RenameFails(c)
    BY <2>2 DEF RenameFails
  <2> QED BY <1>6, <2>1, <2>2
<1>10. ASSUME NEW c \in Commands, Undo(c) PROVE TypeOK'
  <2>1. files' \in [Ids -> Migrations \cup {Absent}]
    BY <1>10 DEF Undo
  <2> QED BY <1>10, <2>1 DEF Undo
<1>7. ASSUME NEW c \in Commands, Crash(c) PROVE TypeOK'
  BY <1>7 DEF Crash
<1>8. CASE RemoveOrphan
  BY <1>8 DEF RemoveOrphan
<1>9. CASE UNCHANGED vars
  BY <1>9 DEF vars
<1> QED
  BY <1>1, <1>2, <1>3, <1>4, <1>5, <1>6, <1>7, <1>8, <1>9, <1>10, <1>11, <1>12 DEF Next, Step
----------------------------------------------------------------------------
(* What a command may rely on *)

\* Published migrations stay in a step.
Stays == \A i \in Published : i \in Published' /\ files'[i] = files[i]

\* A command touches a file only while it has no outcome, and only its own.
LEMMA CommandKeeps ==
  ASSUME TypeOK, Tidy, NEW c \in Commands,
         \/ \E s \in Schemas, b \in BOOLEAN : Start(c, s, b)
         \/ Step(c) \/ Crash(c)
  PROVE  Stays
<1> USE DEF TypeOK, Tidy, Goto, End, directory, command
<1>1. pc[c] # "ended" /\ outcome[c] = "none"
  BY DEF Start, Step, Crash, Running, ReadPrior, List, Parse, Validate, Plan, Unsafe, Target, Write,
         Link, Rename, RenameFails, Undo
<1>2. \A d \in Commands : outcome[d] = "generated" => outcome'[d] = "generated"
  BY <1>1 DEF Start, Step, Crash, ReadPrior, List, Parse, Validate, Plan, Unsafe, Target, Write,
              Link, Rename, RenameFails, Undo
<1>3. \A i \in Ids : files[i] # Absent /\ files[i].by # c => files'[i] = files[i]
  <2>1. CASE Link(c)
    BY <2>1 DEF Link
  <2>2. CASE Undo(c)
    BY <2>2 DEF Undo
  <2> QED
    BY <2>1, <2>2 DEF Start, Step, Crash, ReadPrior, List, Parse, Validate, Plan, Unsafe, Target,
                      Write, Rename, RenameFails
<1>4. \A i \in Published : i \in Ids /\ files[i] \in Migrations /\ files[i].by # c
  BY <1>1 DEF Published, Present
<1>5. \A i \in Published : files[i].by \in Commands
  BY <1>4 DEF Migrations
<1> QED
  BY <1>2, <1>3, <1>4, <1>5 DEF Stays, Published, Present

LEMMA MigrationPresent ==
  ASSUME TypeOK, NEW c \in Commands PROVE Migration(c) \in Migrations /\ Migration(c) # Absent
BY ArtifactAssumption DEF TypeOK, Migration, Migrations

LEMMA TidyKept == TypeOK /\ Tidy /\ [Next]_vars => Tidy'
<1> SUFFICES ASSUME TypeOK, Tidy, [Next]_vars PROVE Tidy'
  OBVIOUS
<1>1. \E n \in Nat : \A i \in Present(files)' : i <= n
  <2>1. PICK n \in Nat : \A i \in Present(files) : i <= n
    BY DEF Tidy
  <2>2. ASSUME NEW c \in Commands, Link(c) PROVE \E m \in Nat : \A i \in Present(files)' : i <= m
    <3>1. id[c] \in Ids /\ id[c] \in Nat
      BY <2>2, ArtifactAssumption DEF Link, Tidy, Chosen
    <3>2. \A i \in Present(files)' : i \in Nat /\ (i \in Present(files) \/ i = id[c])
      BY <2>2, <3>1, ArtifactAssumption DEF Link, Present, TypeOK
    <3>3. CASE id[c] <= n
      BY <2>1, <3>2, <3>3
    <3>4. CASE ~(id[c] <= n)
      BY <2>1, <3>1, <3>2, <3>4
    <3> QED BY <3>3, <3>4
  <2>3. CASE \E c \in Commands : Undo(c)
    BY <2>1, <2>3 DEF Undo, Present, TypeOK
  <2>4. CASE RemoveOrphan
    BY <2>1, <2>4 DEF RemoveOrphan, Present, TypeOK
  <2> QED
    BY <2>1, <2>2, <2>3, <2>4 DEF Next, Start, Step, Crash, ReadPrior, List, Parse, Validate, Plan,
       Unsafe, Target, Write, Rename, RenameFails, vars, directory, Present
<1> DEFINE Local(d) == /\ pc[d] # "ended" => outcome[d] = "none"
                       /\ pc[d] \in {"idle", "prior", "list"} => seen[d] = [i \in Ids |-> Absent]
                       /\ pc[d] = "check" => unread[d] = {}
                       /\ pc[d] \in Chosen \cup {"undo"} => id[d] \in Ids
                       /\ pc[d] = "rename" => files[id[d]] = Migration(d)
<1>2. ASSUME NEW d \in Commands PROVE Local(d)'
  <2> USE DEF TypeOK, Tidy, Goto, End, directory, command, Migration, Chosen
  <2>1. CASE \E c \in Commands, s \in Schemas, b \in BOOLEAN : Start(c, s, b)
    BY <2>1 DEF Start
  <2>2. ASSUME NEW c \in Commands,
               ReadPrior(c) \/ List(c) \/ Validate(c) \/ \E i \in Ids : Parse(c, i)
        PROVE  Local(d)'
    <3>1. UNCHANGED <<files, desired, id>>
      BY <2>2 DEF ReadPrior, List, Parse, Validate
    <3>2. \/ \E p \in {"list", "parse", "check"} : Goto(c, p)
          \/ pc[c] # "ended" /\ End(c, "refused")
      BY <2>2 DEF ReadPrior, List, Parse, Validate
    <3>6. pc'[c] = "list" => pc[c] = "prior" /\ seen' = seen
      BY <2>2 DEF ReadPrior, List, Parse, Validate
    <3>7. pc'[c] = "check" => unread[c] = {} /\ unread' = unread
      BY <2>2 DEF ReadPrior, List, Parse, Validate
    <3>3. d # c => prior'[d] = prior[d] /\ unread'[d] = unread[d] /\ seen'[d] = seen[d]
      BY <2>2 DEF ReadPrior, List, Parse, Validate
    <3>4. CASE d = c
      <4>1. pc[c] # "ended"
        BY <2>2 DEF ReadPrior, List, Parse, Validate
      <4>2. pc'[c] \in {"list", "parse", "check", "ended"}
        BY <3>2
      <4>3. pc'[c] # "ended" => outcome'[c] = "none"
        <5>1. CASE End(c, "refused")
          BY <5>1
        <5>2. CASE \E p \in {"list", "parse", "check"} : Goto(c, p)
          BY <4>1, <5>2
        <5> QED BY <3>2, <5>1, <5>2
      <4> QED BY <3>4, <3>6, <3>7, <4>2, <4>3
    <3>5. CASE d # c
      <4>1. pc'[d] = pc[d] /\ outcome'[d] = outcome[d]
        BY <3>2, <3>5
      <4> QED BY <3>1, <3>3, <3>5, <4>1
    <3> QED BY <3>4, <3>5
  <2>3. CASE \E c \in Commands, i \in Ids : Plan(c, i)
    BY <2>3 DEF Plan
  <2>4. CASE \E c \in Commands : Unsafe(c) \/ Target(c) \/ Write(c)
    BY <2>4 DEF Unsafe, Target, Write
  <2>5. CASE \E c \in Commands : Link(c)
    <3>1. PICK c \in Commands : Link(c)
      BY <2>5
    <3>2. pc[d] = "rename" => files[id[d]] # Absent /\ d # c
      <4>1. pc[c] = "link"
        BY <3>1 DEF Link
      <4>2. pc[d] = "rename" => files[id[d]] = [from |-> prior[d], to |-> desired[d], by |-> d]
        OBVIOUS
      <4>3. [from |-> prior[d], to |-> desired[d], by |-> d] # Absent
        BY MigrationPresent
      <4> QED BY <4>1, <4>2, <4>3
    <3>3. pc[d] = "rename" => files'[id[d]] = files[id[d]] /\ Migration(d)' = Migration(d)
      BY <3>1, <3>2 DEF Link
    <3> QED BY <3>1, <3>3 DEF Link
  <2>6. CASE \E c \in Commands : Rename(c) \/ RenameFails(c) \/ Crash(c)
    BY <2>6 DEF Rename, RenameFails, Crash
  <2>7. CASE \E c \in Commands : Undo(c)
    BY <2>7 DEF Undo
  <2>8. CASE RemoveOrphan
    BY <2>8 DEF RemoveOrphan, Running
  <2>9. CASE UNCHANGED vars
    BY <2>9 DEF vars
  <2> QED
    BY <2>1, <2>2, <2>3, <2>4, <2>5, <2>6, <2>7, <2>8, <2>9 DEF Next, Step
<1> QED
  BY <1>1, <1>2 DEF Tidy
----------------------------------------------------------------------------
(* Founded snapshots *)

LEMMA FoundedStays ==
  ASSUME Stays, NEW CONSTANT s, NEW CONSTANT T, NEW CONSTANT U,
         \A i \in Published : i \in T => i \in U,
         FoundedIn(files, Published, s, T)
  PROVE  FoundedIn(files', Published', s, U)
BY FoundedKept DEF Stays

\* What one command does, as far as the invariant is concerned: it keeps what others
\* rely on, and what it newly relies on is founded, too.
LEMMA CommandFounded ==
  ASSUME TypeOK, AllFounded, Stays, NEW c \in Commands,
         \A d \in Commands \ {c} :
            UNCHANGED <<pc[d], prior[d], unread[d], seen[d], id[d]>>,
         FoundedIn(files', Published', snapshot', Ids),
         \A i \in Present(files)' :
            \/ i \in Present(files) /\ files'[i] = files[i]
            \/ Founded(files'[i].from, Below(i)),
         pc'[c] = "list" => Founded(prior'[c], Ids),
         pc'[c] \in {"parse", "check"} => Founded(prior'[c], Listed(c)'),
         pc'[c] \in Chosen => Founded(prior'[c], Below(id'[c]))
  PROVE  AllFounded'
<1> USE DEF Founded
<1>1. \A i \in Present(files)' : Founded(files[i].from, Below(i))'
  <2> SUFFICES ASSUME NEW i \in Present(files)' PROVE Founded(files[i].from, Below(i))'
    OBVIOUS
  <2>1. FoundedIn(files, Published, files'[i].from, Below(i))
    BY DEF AllFounded
  <2>2. FoundedIn(files', Published', files'[i].from, Below(i))
    BY <2>1, FoundedStays
  <2> QED BY <2>2 DEF Below
<1>2. ASSUME NEW d \in Commands
      PROVE /\ pc'[d] = "list" => Founded(prior[d], Ids)'
            /\ pc'[d] \in {"parse", "check"} => Founded(prior[d], Listed(d))'
            /\ pc'[d] \in Chosen => Founded(prior[d], Below(id[d]))'
  <2>1. pc'[d] = "list" => Founded(prior'[d], Ids)
    BY DEF AllFounded
  <2>2. pc'[d] \in {"parse", "check"} => Founded(prior'[d], Listed(d)')
    BY DEF AllFounded, Listed, Present
  <2>3. pc'[d] \in Chosen => Founded(prior'[d], Below(id'[d]))
    BY DEF AllFounded
  <2>4. pc'[d] = "list" => FoundedIn(files', Published', prior'[d], Ids)
    BY <2>1, FoundedStays
  <2>5. pc'[d] \in {"parse", "check"} =>
            FoundedIn(files', Published', prior'[d], Listed(d)')
    BY <2>2, FoundedStays
  <2>6. pc'[d] \in Chosen => FoundedIn(files', Published', prior'[d], Below(id'[d]))
    BY <2>3, FoundedStays
  <2> QED BY <2>4, <2>5, <2>6 DEF Present, Below, Chosen
<1> QED
  BY <1>1, <1>2 DEF AllFounded

\* steps before the migration has a public name
LEMMA ReadingFounded ==
  ASSUME TypeOK, Tidy, AllFounded, Stays, NEW c \in Commands,
         \/ \E s \in Schemas, b \in BOOLEAN : Start(c, s, b)
         \/ ReadPrior(c) \/ List(c) \/ Validate(c)
         \/ \E i \in Ids : Parse(c, i) \/ Plan(c, i)
  PROVE  AllFounded'
<1> USE DEF TypeOK, Goto, End, directory, command
<1>1. UNCHANGED directory
  BY DEF Start, ReadPrior, List, Parse, Validate, Plan
<1>2. FoundedIn(files', Published', snapshot', Ids)
  BY <1>1, FoundedStays DEF AllFounded, Founded
<1>3. \A d \in Commands \ {c} : UNCHANGED <<pc[d], prior[d], unread[d], seen[d], id[d]>>
  BY DEF Start, ReadPrior, List, Parse, Validate, Plan
<1>4. \A i \in Present(files)' : i \in Present(files) /\ files'[i] = files[i]
  BY <1>1 DEF Present
<1>5. CASE \E s \in Schemas, b \in BOOLEAN : Start(c, s, b)
  <2>1. pc'[c] = "prior"
    BY <1>5 DEF Start
  <2> QED BY <1>2, <1>3, <1>4, <2>1, CommandFounded DEF Chosen
<1>6. CASE ReadPrior(c)
  <2>1. pc'[c] = "list" /\ prior'[c] = snapshot
    BY <1>6 DEF ReadPrior
  <2>2. Founded(prior'[c], Ids)
    BY <2>1 DEF AllFounded
  <2> QED BY <1>2, <1>3, <1>4, <2>1, <2>2, CommandFounded DEF Chosen
<1>7. CASE List(c)
  <2>1. /\ pc[c] = "list" /\ pc'[c] = "parse" /\ prior'[c] = prior[c]
        /\ unread'[c] = Present(files)
    BY <1>7 DEF List
  <2>2. Founded(prior[c], Ids)
    BY <2>1 DEF AllFounded
  <2>3. Published \cap Ids \subseteq Published \cap Listed(c)'
    BY <2>1 DEF Published, Listed
  <2>4. Founded(prior'[c], Listed(c)')
    BY <2>1, <2>2, <2>3 DEF Founded, FoundedIn
  <2> QED BY <1>2, <1>3, <1>4, <2>1, <2>4, CommandFounded DEF Chosen
<1>8. ASSUME NEW i \in Ids, Parse(c, i) PROVE AllFounded'
  <2>1. CASE pc'[c] = "ended"
    BY <1>2, <1>3, <1>4, <2>1, CommandFounded DEF Chosen
  <2>2. CASE pc'[c] # "ended"
    <3>1. /\ pc[c] = "parse" /\ pc'[c] = "parse" /\ prior'[c] = prior[c]
          /\ i \in unread[c] /\ unread'[c] = unread[c] \ {i} /\ files[i] # Absent
          /\ seen'[c] = [seen[c] EXCEPT ![i] = files[i]]
      BY <1>8, <2>2 DEF Parse
    <3>2. Listed(c)' = Listed(c)
      BY <3>1 DEF Listed, Present
    <3>3. Founded(prior'[c], Listed(c)')
      BY <3>1, <3>2 DEF AllFounded
    <3> QED BY <1>2, <1>3, <1>4, <3>1, <3>3, CommandFounded DEF Chosen
  <2> QED BY <2>1, <2>2
<1>10. CASE Validate(c)
  <2>1. CASE pc'[c] = "ended"
    BY <1>2, <1>3, <1>4, <2>1, CommandFounded DEF Chosen
  <2>2. CASE pc'[c] # "ended"
    <3>1. /\ pc[c] = "parse" /\ pc'[c] = "check" /\ prior'[c] = prior[c]
          /\ UNCHANGED <<unread, seen>>
      BY <1>10, <2>2 DEF Validate
    <3>2. Founded(prior'[c], Listed(c)')
      BY <3>1 DEF AllFounded, Listed, Present
    <3> QED BY <1>2, <1>3, <1>4, <3>1, <3>2, CommandFounded DEF Chosen
  <2> QED BY <2>1, <2>2
<1>9. ASSUME NEW i \in Ids, Plan(c, i) PROVE AllFounded'
  <2>1. CASE pc'[c] = "ended"
    BY <1>2, <1>3, <1>4, <2>1, CommandFounded DEF Chosen
  <2>2. CASE pc'[c] # "ended"
    <3>1. /\ pc[c] = "check" /\ pc'[c] = "target" /\ prior'[c] = prior[c] /\ id'[c] = i
          /\ FollowsHistory(c, i)
      BY <1>9, <2>2 DEF Plan
    <3>2. Present(seen[c]) \subseteq Below(i)
      BY <3>1 DEF FollowsHistory, Below, Present
    <3>3. Founded(prior[c], Present(seen[c]))
      <4>1. Listed(c) = Present(seen[c])
        BY <3>1 DEF Tidy, Listed
      <4> QED BY <3>1, <4>1 DEF AllFounded
    <3>4. Founded(prior'[c], Below(id'[c]))
      BY <3>1, <3>2, <3>3 DEF Founded, FoundedIn
    <3> QED BY <1>2, <1>3, <1>4, <3>1, <3>4, CommandFounded DEF Chosen
  <2> QED BY <2>1, <2>2
<1> QED BY <1>5, <1>6, <1>7, <1>8, <1>9, <1>10

\* steps that publish, undo or give up
LEMMA WritingFounded ==
  ASSUME TypeOK, Tidy, AllFounded, Stays, NEW c \in Commands,
         \/ Unsafe(c) \/ Target(c) \/ Write(c) \/ Link(c)
         \/ Rename(c) \/ RenameFails(c) \/ Undo(c) \/ Crash(c)
  PROVE  AllFounded'
<1> USE DEF TypeOK, Goto, End, directory, command
<1>1. \A d \in Commands \ {c} : UNCHANGED <<pc[d], prior[d], unread[d], seen[d], id[d]>>
  BY DEF Unsafe, Target, Write, Link, Rename, RenameFails, Undo, Crash
<1>2. Founded(snapshot, Ids)
  BY DEF AllFounded
<1>3. UNCHANGED snapshot => FoundedIn(files', Published', snapshot', Ids)
  BY <1>2, FoundedStays DEF Founded
<1>4. UNCHANGED files => \A i \in Present(files)' : i \in Present(files) /\ files'[i] = files[i]
  BY DEF Present
<1>5. CASE Unsafe(c) \/ RenameFails(c) \/ Crash(c)
  <2>1. pc'[c] \in {"ended", "undo"} /\ UNCHANGED directory
    BY <1>5 DEF Unsafe, RenameFails, Crash
  <2> QED BY <1>1, <1>3, <1>4, <2>1, CommandFounded DEF Chosen
<1>6. CASE Target(c) \/ Write(c)
  <2>1. /\ pc[c] \in Chosen /\ pc'[c] \in {"write", "link", "undo"}
        /\ UNCHANGED <<files, snapshot, prior, id>>
    BY <1>6 DEF Target, Write, Chosen
  <2>2. Founded(prior'[c], Below(id'[c]))
    BY <2>1 DEF AllFounded
  <2> QED BY <1>1, <1>3, <1>4, <2>1, <2>2, CommandFounded
<1>7. CASE Link(c)
  <2>1. /\ pc[c] = "link" /\ pc'[c] \in {"rename", "undo"} /\ id[c] \in Ids
        /\ UNCHANGED <<snapshot, prior, id>>
    BY <1>7 DEF Link, Tidy, Chosen
  <2>2. Founded(prior[c], Below(id[c]))
    BY <2>1 DEF AllFounded, Chosen
  <2>3. \A i \in Present(files)' : \/ i \in Present(files) /\ files'[i] = files[i]
                                   \/ Founded(files'[i].from, Below(i))
    BY <1>7, <2>1, <2>2 DEF Link, Present, Migration
  <2> QED BY <1>1, <1>3, <2>1, <2>2, <2>3, CommandFounded DEF Chosen
<1>8. CASE Undo(c)
  <2>1. pc'[c] = "ended" /\ UNCHANGED snapshot
    BY <1>8 DEF Undo
  <2>2. \A i \in Present(files)' : i \in Present(files) /\ files'[i] = files[i]
    BY <1>8 DEF Undo, Present
  <2> QED BY <1>1, <1>3, <2>1, <2>2, CommandFounded DEF Chosen
<1>9. CASE Rename(c)
  <2> DEFINE i == id[c]
  <2>1. /\ i \in Ids /\ i \in Nat /\ files[i] = Migration(c) /\ files'[i] = files[i]
        /\ pc'[c] = "ended" /\ UNCHANGED files /\ snapshot' = desired[c]
    BY <1>9, ArtifactAssumption DEF Rename, Tidy, Chosen
  <2>2. i \in Published'
    BY <1>9, <2>1, MigrationPresent DEF Rename, Published, Present, Migration
  <2>3. Founded(files[i].from, Below(i))
    <3>1. i \in Present(files)
      BY <2>1, MigrationPresent DEF Present
    <3> QED BY <3>1 DEF AllFounded
  <2>4. PICK S \in SUBSET (Published \cap Below(i)) : Leads(files, S, files[i].from)
    BY <2>3 DEF Founded, FoundedIn
  <2>5. S \subseteq Nat /\ \A j \in S : j < i
    BY ArtifactAssumption DEF Below
  <2>6. Leads(files, S \cup {i}, files[i].to)
    BY <2>1, <2>4, <2>5, LeadsOn
  <2>7. files[i].to = snapshot' /\ files' = files
    BY <2>1 DEF Migration
  <2>8. S \cup {i} \subseteq Published' \cap Ids
    BY <2>1, <2>2 DEF Stays, Below
  <2>9. FoundedIn(files', Published', snapshot', Ids)
    BY <2>6, <2>7, <2>8 DEF FoundedIn
  <2> QED BY <1>1, <1>4, <2>1, <2>9, CommandFounded DEF Chosen
<1> QED BY <1>5, <1>6, <1>7, <1>8, <1>9

\* The newest migration of a torn lineage is none of those the snapshot is founded on.
LEMMA RepairFounded == TypeOK /\ AllFounded /\ RemoveOrphan => AllFounded'
<1> SUFFICES ASSUME TypeOK, AllFounded, RemoveOrphan PROVE AllFounded'
  OBVIOUS
<1>1. PICK i \in Ids : /\ Newest(Present(files), i)
                       /\ files[i].to # snapshot
                       /\ files' = [files EXCEPT ![i] = Absent]
                       /\ UNCHANGED <<snapshot, pc, prior, unread, seen, id, outcome>>
  BY DEF RemoveOrphan, command
<1>2. \A j \in Ids : j # i => files'[j] = files[j]
  BY <1>1 DEF TypeOK
<1>3. \A j \in Published : j # i => j \in Published'
  BY <1>1, <1>2 DEF Published, Present
<1>4. Present(files)' \subseteq Present(files) \ {i}
  BY <1>1, <1>2 DEF Present, TypeOK
<1>5. Founded(snapshot, Ids)'
  <2>1. PICK S \in SUBSET (Published \cap Ids) : Leads(files, S, snapshot)
    BY DEF AllFounded, Founded, FoundedIn
  <2>2. i \notin S
    <3> SUFFICES ASSUME i \in S PROVE FALSE
      OBVIOUS
    <3>1. PICK j \in S : Newest(S, j) /\ files[j].to = snapshot
      BY <2>1 DEF Leads
    <3>2. j \in Nat /\ i \in Nat /\ i <= j /\ j <= i
      BY <1>1, <3>1, ArtifactAssumption DEF Newest, Published
    <3> QED BY <1>1, <3>1, <3>2
  <2>3. S \subseteq Published' \cap Ids /\ \A j \in S : files'[j] = files[j]
    BY <1>2, <1>3, <2>2
  <2>4. Leads(files', S, snapshot)
    BY <2>1, <2>3, LeadsElsewhere
  <2> QED BY <1>1, <2>3, <2>4 DEF Founded, FoundedIn
<1>6. ASSUME NEW k \in Present(files)' PROVE Founded(files[k].from, Below(k))'
  <2>1. k \in Present(files) /\ k \in Ids /\ files'[k] = files[k]
    BY <1>2, <1>4 DEF Present
  <2>2. i \notin Below(k)
    BY <1>1, <2>1, ArtifactAssumption DEF Newest, Below
  <2>3. FoundedIn(files, Published, files[k].from, Below(k))
    BY <2>1 DEF AllFounded, Founded
  <2>4. \A j \in Published \cap Below(k) : j \in Published' /\ files'[j] = files[j]
    BY <1>2, <1>3, <2>2 DEF Below
  <2>5. FoundedIn(files', Published', files'[k].from, Below(k))
    BY <2>1, <2>3, <2>4, FoundedKept
  <2> QED BY <2>5 DEF Founded, Below
<1>7. \A c \in Commands : pc'[c] \in {"idle", "ended"}
  BY <1>1 DEF RemoveOrphan, Running
<1> QED
  BY <1>5, <1>6, <1>7 DEF AllFounded, Chosen
----------------------------------------------------------------------------
(* The theorems *)

LEMMA AlwaysInvariant == Spec => []Invariant
<1>1. Init => Invariant
  <2> SUFFICES ASSUME Init PROVE Invariant
    OBVIOUS
  <2>1. TypeOK /\ Present(files) = {}
    BY ArtifactAssumption DEF Init, TypeOK, Present
  <2>2. Leads(files, {}, snapshot)
    BY DEF Init, Leads
  <2>3. Founded(snapshot, Ids)
    BY <2>2 DEF Founded, FoundedIn
  <2>4. Tidy
    BY <2>1 DEF Init, Tidy, Chosen
  <2>5. AllFounded
    BY <2>1, <2>3 DEF AllFounded, Init, Chosen
  <2> QED BY <2>1, <2>4, <2>5 DEF Invariant
<1>2. Invariant /\ [Next]_vars => Invariant'
  <2> SUFFICES ASSUME Invariant, [Next]_vars PROVE Invariant'
    OBVIOUS
  <2>1. TypeOK /\ Tidy /\ AllFounded /\ TypeOK' /\ Tidy'
    BY TypesKept, TidyKept DEF Invariant
  <2>2. ASSUME NEW c \in Commands,
               \/ \E s \in Schemas, b \in BOOLEAN : Start(c, s, b)
               \/ Step(c) \/ Crash(c)
        PROVE  AllFounded'
    <3>1. Stays
      BY <2>1, <2>2, CommandKeeps
    <3> QED BY <2>1, <2>2, <3>1, ReadingFounded, WritingFounded DEF Step
  <2>3. ASSUME RemoveOrphan PROVE AllFounded'
    BY <2>1, <2>3, RepairFounded
  <2>4. ASSUME UNCHANGED vars PROVE AllFounded'
    <3>1. UNCHANGED <<files, snapshot, pc, prior, unread, seen, id, outcome, Published>>
      BY <2>4 DEF vars, Published, Present
    <3>2. \A s, T : FoundedIn(files', Published', s, T) <=> FoundedIn(files, Published, s, T)
      BY <3>1
    <3> QED BY <2>1, <3>1, <3>2 DEF AllFounded, Founded, Listed, Present, Below, Chosen
  <2>5. AllFounded'
    BY <2>2, <2>3, <2>4 DEF Next
  <2> QED BY <2>1, <2>5 DEF Invariant
<1> QED
  BY <1>1, <1>2, PTL DEF Spec

\* Every variable keeps its type.
THEOREM TypesHold == Spec => []TypeOK
<1>1. Invariant => TypeOK
  BY DEF Invariant
<1> QED BY <1>1, AlwaysInvariant, PTL

\* However many commands overlap, fail or crash, published migrations lead from nothing
\* to the snapshot.
THEOREM SnapshotAlwaysReachable == Spec => []SnapshotReachable
<1>1. Invariant => SnapshotReachable
  BY DEF Invariant, AllFounded, Founded, FoundedIn, SnapshotReachable, Published, Present
<1> QED BY <1>1, AlwaysInvariant, PTL

\* What discoverMigrations accepts is whole.
THEOREM AcceptedAlwaysWhole == Spec => []AcceptedIsWhole
<1>1. Invariant => AcceptedIsWhole
  <2> SUFFICES ASSUME Invariant, Accepted PROVE Whole
    BY DEF AcceptedIsWhole
  <2> DEFINE P == Present(files)
  <2>1. P \subseteq Nat /\ \A i \in P : Founded(files[i].from, Below(i))
    BY ArtifactAssumption DEF Invariant, AllFounded, Present
  <2>2. ASSUME NEW i \in P
        PROVE  IF Before(P, i) = {} THEN files[i].from = Missing ELSE Continues(files, P, i)
    <3>1. CASE Before(P, i) # {}
      BY <3>1 DEF Accepted, Connected
    <3>2. CASE Before(P, i) = {}
      <4>1. PICK S \in SUBSET (Published \cap Below(i)) : Leads(files, S, files[i].from)
        BY <2>1 DEF Founded, FoundedIn
      <4>2. S = {}
        BY <3>2 DEF Before, Below, Published
      <4> QED BY <3>2, <4>1, <4>2 DEF Leads
    <3> QED BY <3>1, <3>2
  <2>3. IF P = {} THEN snapshot = Missing ELSE \E i \in P : Newest(P, i) /\ files[i].to = snapshot
    <3>1. CASE P = {}
      <4>1. PICK S \in SUBSET (Published \cap Ids) : Leads(files, S, snapshot)
        BY DEF Invariant, AllFounded, Founded, FoundedIn
      <4>2. S = {}
        BY <3>1 DEF Published
      <4> QED BY <3>1, <4>1, <4>2 DEF Leads
    <3>2. CASE P # {}
      <4>1. \E i \in P : Newest(P, i)
        BY <2>1, <3>2, NewestExists DEF Invariant, Tidy
      <4> QED BY <3>2, <4>1 DEF Accepted, Torn
    <3> QED BY <3>1, <3>2
  <2> QED BY <2>2, <2>3 DEF Whole, Leads
<1> QED BY <1>1, AlwaysInvariant, PTL

\* A lineage that is not disconnected is whole without some of its newest migrations.
THEOREM TornAlwaysRepairable == Spec => []TornIsRepairable
<1>1. Invariant => TornIsRepairable
  <2> DEFINE P == Present(files)
  <2> SUFFICES ASSUME Invariant, Connected(files, P)
               PROVE  \E S \in SUBSET P : /\ \A i \in S : Before(P, i) \subseteq S
                                          /\ Leads(files, S, snapshot)
    BY DEF TornIsRepairable
  <2>1. P \subseteq Nat /\ \A i \in P : Founded(files[i].from, Below(i))
    BY ArtifactAssumption DEF Invariant, AllFounded, Present
  <2>2. PICK C \in SUBSET (Published \cap Ids) : Leads(files, C, snapshot)
    BY DEF Invariant, AllFounded, Founded, FoundedIn
  <2>3. CASE C = {}
    BY <2>2, <2>3
  <2>4. CASE C # {}
    <3>1. PICK k \in C : files[k].to = snapshot
      BY <2>2, <2>4 DEF Leads
    <3>2. k \in P /\ k \in Nat
      BY <2>1 DEF Published
    <3> DEFINE S == {i \in P : i <= k}
    <3>3. S \subseteq Nat /\ Newest(S, k)
      BY <2>1, <3>2 DEF Newest
    <3>4. \A i \in S : Before(P, i) = Before(S, i) /\ Before(P, i) \subseteq S
      <4>1. \A i \in S, j \in P : j < i => j \in S
        BY <2>1, <3>2
      <4> QED BY <4>1 DEF Before
    <3>5. ASSUME NEW i \in S
          PROVE  IF Before(S, i) = {} THEN files[i].from = Missing ELSE Continues(files, S, i)
      <4>1. CASE Before(S, i) = {}
        <5>1. PICK D \in SUBSET (Published \cap Below(i)) : Leads(files, D, files[i].from)
          BY <2>1 DEF Founded, FoundedIn
        <5>2. D = {}
          BY <3>4, <4>1 DEF Before, Below, Published
        <5> QED BY <4>1, <5>1, <5>2 DEF Leads
      <4>2. CASE Before(S, i) # {}
        <5>1. PICK j \in P : Newest(Before(P, i), j) /\ files[j].to = files[i].from
          BY <3>4, <4>2 DEF Connected, Continues
        <5>2. j \in S
          BY <3>4, <5>1 DEF Newest
        <5> QED BY <3>4, <4>2, <5>1, <5>2 DEF Continues
      <4> QED BY <4>1, <4>2
    <3>6. Leads(files, S, snapshot)
      BY <3>1, <3>3, <3>5 DEF Leads, Newest
    <3> QED BY <3>4, <3>6
  <2> QED BY <2>3, <2>4
<1> QED BY <1>1, AlwaysInvariant, PTL

\* No rollback removes what another command has published.
THEOREM RollbacksAreOwn == Spec => RollbackIsOwn
<1>1. Invariant /\ [Next]_vars =>
        [\A i \in Published : files'[i] = files[i] \/ Torn(files, Present(files), snapshot)]_vars
  <2> SUFFICES ASSUME Invariant, [Next]_vars,
                      NEW i \in Published, ~Torn(files, Present(files), snapshot)
               PROVE  files'[i] = files[i]
    OBVIOUS
  <2>1. CASE RemoveOrphan
    BY <2>1 DEF RemoveOrphan, Torn, Newest
  <2>2. ASSUME NEW c \in Commands,
               \/ \E s \in Schemas, b \in BOOLEAN : Start(c, s, b)
               \/ Step(c) \/ Crash(c)
        PROVE  files'[i] = files[i]
    <3>1. Stays
      BY <2>2, CommandKeeps DEF Invariant
    <3> QED BY <3>1 DEF Stays
  <2>3. CASE UNCHANGED vars
    BY <2>3 DEF vars
  <2> QED BY <2>1, <2>2, <2>3 DEF Next
<1> QED BY <1>1, AlwaysInvariant, PTL DEF Spec, RollbackIsOwn
----------------------------------------------------------------------------
(* Commands that run one at a time *)

Read == {"list", "parse", "check"}
Planned == {"target", "write", "link"}

\* What the one running command has read is still what there is.
UpToDateWith(c) ==
    /\ pc[c] \in Read \cup Planned => prior[c] = snapshot
    /\ pc[c] \in {"parse", "check"} =>
        unread[c] \subseteq Present(files) /\ \A i \in Ids \ unread[c] : seen[c][i] = files[i]
    /\ pc[c] \in Planned =>
        /\ \A i \in Present(files) : i < id[c]
        /\ Present(files) # {} =>
            \E i \in Present(files) : Newest(Present(files), i) /\ files[i].to = prior[c]
    /\ pc[c] \in {"rename", "undo"} => \A i \in Present(files) : i <= id[c]

Sequential ==
    /\ \A c, d \in Running : c = d
    /\ Connected(files, Present(files))
    /\ \A c \in Commands : UpToDateWith(c)

Alone == ~overlapped => Sequential

\* Without its newest migration a connected lineage is still connected.
LEMMA ConnectedWithoutNewest ==
  ASSUME NEW f, NEW g, NEW S, S \subseteq Nat, NEW i \in Nat, \A j \in S : j <= i,
         \A j \in S \ {i} : g[j] = f[j], Connected(f, S)
  PROVE  Connected(g, S \ {i})
<1> DEFINE T == S \ {i}
<1>1. \A j \in T : Before(T, j) = Before(S, j) /\ Before(S, j) \subseteq T
  <2>1. \A j \in T, k \in S : k < j => k # i
    OBVIOUS
  <2> QED BY <2>1 DEF Before
<1>2. ASSUME NEW j \in T, Before(T, j) # {} PROVE Continues(g, T, j)
  <2>1. PICK k \in S : Newest(Before(S, j), k) /\ f[k].to = f[j].from
    BY <1>1, <1>2 DEF Connected, Continues
  <2>2. k \in T
    BY <1>1, <2>1 DEF Newest
  <2> QED BY <1>1, <2>1, <2>2 DEF Continues
<1> QED BY <1>2 DEF Connected

\* On top of the newest migration, one that starts where it ends stays connected.
LEMMA ConnectedWithNext ==
  ASSUME NEW f, NEW g, NEW S, S \subseteq Nat, NEW i \in Nat, \A j \in S : j < i,
         \A j \in S : g[j] = f[j], Connected(f, S),
         S # {} => \E j \in S : Newest(S, j) /\ f[j].to = g[i].from
  PROVE  Connected(g, S \cup {i})
<1> DEFINE T == S \cup {i}
<1>0. \A j \in S : j \in Nat /\ j < i /\ ~(i < j)
  OBVIOUS
<1>1. Before(T, i) = S
  <2>1. ~(i < i)
    OBVIOUS
  <2>2. \A x : x \in Before(T, i) <=> x \in S
    BY <1>0, <2>1 DEF Before
  <2> QED BY <2>2
<1>2. ASSUME NEW j \in S PROVE Before(T, j) = Before(S, j)
  BY <1>0 DEF Before
<1>3. Before(T, i) # {} => Continues(g, T, i)
  BY <1>1 DEF Continues
<1>4. ASSUME NEW j \in S, Before(T, j) # {} PROVE Continues(g, T, j)
  <2>1. PICK k \in S : Newest(Before(S, j), k) /\ f[k].to = f[j].from
    BY <1>2, <1>4 DEF Connected, Continues
  <2> QED BY <1>2, <2>1 DEF Continues
<1> QED BY <1>3, <1>4 DEF Connected

\* A step of the one running command.
LEMMA LoneStep ==
  ASSUME TypeOK, Tidy, Sequential, NEW c \in Commands, Step(c) \/ Crash(c)
  PROVE  Sequential'
<1> USE DEF TypeOK, Goto, End, directory, command
<1>1. c \in Running
  BY DEF Running, Step, Crash, ReadPrior, List, Parse, Validate, Plan, Unsafe, Target, Write, Link,
         Rename, RenameFails, Undo
<1>2. \A d \in Commands \ {c} : pc[d] \in {"idle", "ended"} /\ pc'[d] = pc[d]
  <2>1. \A d \in Commands \ {c} : pc[d] \in {"idle", "ended"}
    BY <1>1 DEF Sequential, Running
  <2> QED
    BY <2>1 DEF Step, Crash, ReadPrior, List, Parse, Validate, Plan, Unsafe, Target, Write, Link,
                Rename, RenameFails, Undo
<1>3. \A d, e \in Running' : d = e
  BY <1>2 DEF Running
<1>4. \A d \in Commands \ {c} : UpToDateWith(d)'
  BY <1>2 DEF UpToDateWith, Read, Planned
<1>5. Present(files) \subseteq Nat
  BY ArtifactAssumption DEF Present
<1>6. Connected(files, Present(files)) /\ UpToDateWith(c)
  BY DEF Sequential
<1>7. Connected(files', Present(files)') /\ UpToDateWith(c)'
  <2>1. UNCHANGED files => Connected(files', Present(files)')
    BY <1>6 DEF Present
  <2>2. pc'[c] = "ended" => UpToDateWith(c)'
    BY DEF UpToDateWith, Read, Planned
  <2>3. CASE Unsafe(c) \/ Rename(c) \/ Crash(c)
    BY <2>1, <2>2, <2>3 DEF Unsafe, Rename, Crash
  <2>4. CASE ReadPrior(c)
    BY <2>1, <2>4 DEF ReadPrior, UpToDateWith, Read, Planned
  <2>5. CASE List(c)
    <3>1. /\ pc'[c] = "parse" /\ prior'[c] = prior[c] /\ unread'[c] = Present(files)
          /\ seen'[c] = [i \in Ids |-> Absent]
          /\ prior[c] = snapshot /\ UNCHANGED <<files, snapshot>>
      BY <1>6, <2>5 DEF List, UpToDateWith, Read, Tidy
    <3>2. \A i \in Ids \ unread'[c] : seen'[c][i] = files'[i]
      BY <3>1 DEF Present
    <3> QED BY <2>1, <3>1, <3>2 DEF UpToDateWith, Read, Planned, Present
  <2>6. ASSUME NEW i \in Ids, Parse(c, i)
        PROVE  Connected(files', Present(files)') /\ UpToDateWith(c)'
    <3>1. CASE pc'[c] = "ended"
      BY <2>1, <2>2, <2>6, <3>1 DEF Parse
    <3>2. CASE pc'[c] # "ended"
      <4>1. /\ pc'[c] = "parse" /\ prior'[c] = prior[c] /\ UNCHANGED <<files, snapshot>>
            /\ prior[c] = snapshot /\ unread[c] \subseteq Present(files)
            /\ \A j \in Ids \ unread[c] : seen[c][j] = files[j]
            /\ unread'[c] = unread[c] \ {i} /\ seen'[c] = [seen[c] EXCEPT ![i] = files[i]]
        BY <1>6, <2>6, <3>2 DEF Parse, UpToDateWith, Read
      <4>2. \A j \in Ids \ unread'[c] : seen'[c][j] = files'[j]
        BY <4>1
      <4> QED BY <2>1, <4>1, <4>2 DEF UpToDateWith, Read, Planned, Present
    <3> QED BY <3>1, <3>2
  <2>12. CASE Validate(c)
    <3>1. CASE pc'[c] = "ended"
      BY <2>1, <2>2, <2>12, <3>1 DEF Validate
    <3>2. CASE pc'[c] # "ended"
      BY <1>6, <2>1, <2>12, <3>2 DEF Validate, UpToDateWith, Read, Planned, Present
    <3> QED BY <3>1, <3>2
  <2>7. ASSUME NEW i \in Ids, Plan(c, i)
        PROVE  Connected(files', Present(files)') /\ UpToDateWith(c)'
    <3>1. CASE pc'[c] = "ended"
      BY <2>1, <2>2, <2>7, <3>1 DEF Plan
    <3>2. CASE pc'[c] # "ended"
      <4>1. /\ pc'[c] = "target" /\ prior'[c] = prior[c] /\ id'[c] = i
            /\ UNCHANGED <<files, snapshot>> /\ prior[c] = snapshot /\ pc[c] = "check"
            /\ HistoryPermits(c) /\ FollowsHistory(c, i)
        BY <1>6, <2>7, <3>2 DEF Plan, UpToDateWith, Read
      <4>5. seen[c] = files
        <5>1. \A j \in Ids : seen[c][j] = files[j]
          BY <1>6, <4>1 DEF UpToDateWith, Tidy
        <5> QED BY <5>1
      <4>2. \A j \in Present(files) : j < i
        BY <4>1, <4>5 DEF FollowsHistory
      <4>3. Present(files) # {} =>
              \E j \in Present(files) : Newest(Present(files), j) /\ files[j].to = prior[c]
        <5> SUFFICES ASSUME Present(files) # {}
                     PROVE  \E j \in Present(files) :
                              Newest(Present(files), j) /\ files[j].to = prior[c]
          OBVIOUS
        <5>1. PICK j \in Present(files) : Newest(Present(files), j)
          BY <1>5, NewestExists DEF Tidy
        <5> QED BY <4>1, <4>5, <5>1 DEF HistoryPermits, Torn
      <4> QED
        BY <2>1, <4>1, <4>2, <4>3 DEF UpToDateWith, Read, Planned, Present
    <3> QED BY <3>1, <3>2
  <2>8. CASE Target(c) \/ Write(c)
    <3>1. /\ pc[c] \in {"target", "write"} /\ pc'[c] \in {"write", "link", "undo"}
          /\ UNCHANGED <<files, snapshot, prior, seen, id>>
      BY <2>8 DEF Target, Write
    <3>2. id[c] \in Nat
      BY <3>1, ArtifactAssumption DEF Tidy, Chosen
    <3>3. /\ prior[c] = snapshot
          /\ \A i \in Present(files) : i < id[c] /\ i <= id[c]
          /\ Present(files) # {} =>
              \E i \in Present(files) : Newest(Present(files), i) /\ files[i].to = prior[c]
      BY <1>5, <1>6, <3>1, <3>2 DEF UpToDateWith, Planned
    <3>4. Present(files)' = Present(files)
      BY <3>1 DEF Present
    <3>5. UpToDateWith(c)'
      BY <3>1, <3>3, <3>4 DEF UpToDateWith, Read, Planned
    <3> QED BY <2>1, <3>1, <3>5
  <2>9. CASE Link(c)
    <3> DEFINE i == id[c]
    <3>1. /\ pc[c] = "link" /\ i \in Ids /\ i \in Nat
          /\ \A j \in Present(files) : j < i
          /\ Present(files) # {} =>
              \E j \in Present(files) : Newest(Present(files), j) /\ files[j].to = prior[c]
      BY <1>6, <2>9, ArtifactAssumption DEF Link, UpToDateWith, Planned, Tidy, Chosen
    <3>2. i \notin Present(files)
      BY <3>1
    <3>3. /\ files' = [files EXCEPT ![i] = Migration(c)] /\ pc'[c] = "rename" /\ id' = id
      BY <2>9, <3>1, <3>2 DEF Link, Present
    <3>4. /\ files'[i].from = prior[c] /\ \A j \in Present(files) : files'[j] = files[j]
          /\ Present(files)' = Present(files) \cup {i}
      BY <3>1, <3>2, <3>3, MigrationPresent DEF Migration, Present
    <3>7. Present(files) # {} =>
            \E j \in Present(files) :
                Newest(Present(files), j) /\ files[j].to = files'[i].from
      BY <3>1, <3>4
    <3>5. Connected(files', Present(files)')
      <4> HIDE DEF i
      <4>1. Connected(files', Present(files) \cup {i})
        BY <1>5, <1>6, <3>1, <3>4, <3>7, ConnectedWithNext
      <4> QED BY <3>4, <4>1
    <3>6. \A j \in Present(files)' : j <= id'[c]
      BY <1>5, <3>1, <3>3, <3>4
    <3> QED BY <3>3, <3>5, <3>6 DEF UpToDateWith, Read, Planned
  <2>10. CASE RenameFails(c)
    BY <1>6, <2>1, <2>10 DEF RenameFails, UpToDateWith, Read, Planned, Present
  <2>11. CASE Undo(c)
    <3>1. CASE UNCHANGED files
      BY <2>1, <2>2, <2>11, <3>1 DEF Undo
    <3>2. CASE ~ UNCHANGED files
      <4> DEFINE i == id[c]
      <4>1. /\ files' = [files EXCEPT ![i] = Absent] /\ pc'[c] = "ended" /\ i \in Nat
            /\ i \in Ids /\ \A j \in Present(files) : j <= i
        BY <1>6, <2>11, <3>2, ArtifactAssumption DEF Undo, UpToDateWith, Tidy, Chosen
      <4>2. /\ Present(files)' = Present(files) \ {i}
            /\ \A j \in Present(files) \ {i} : files'[j] = files[j]
        BY <4>1 DEF Present
      <4>3. Connected(files', Present(files)')
        <5> HIDE DEF i
        <5>1. Connected(files', Present(files) \ {i})
          BY <1>5, <1>6, <4>1, <4>2, ConnectedWithoutNewest
        <5> QED BY <4>2, <5>1
      <4> QED BY <2>2, <4>1, <4>3
    <3> QED BY <3>1, <3>2
  <2> QED
    BY <2>3, <2>4, <2>5, <2>6, <2>7, <2>8, <2>9, <2>10, <2>11, <2>12 DEF Step
<1> QED
  <2>1. \A d \in Commands : UpToDateWith(d)'
    BY <1>4, <1>7
  <2> QED BY <1>3, <1>7, <2>1 DEF Sequential

LEMMA AlwaysAlone == Spec => []Alone
<1>1. Init => Alone
  BY DEF Init, Alone, Sequential, Running, Connected, Present, UpToDateWith, Read, Planned
<1>2. Invariant /\ Alone /\ [Next]_vars => Alone'
  <2> SUFFICES ASSUME Invariant, Alone, [Next]_vars, ~overlapped' PROVE Sequential'
    BY DEF Alone
  <2>1. TypeOK /\ Tidy
    BY DEF Invariant
  <2>2. Sequential
    BY DEF Alone, Next, Start, Step, Crash, ReadPrior, List, Parse, Validate, Plan, Unsafe, Target,
           Write, Link, Rename, RenameFails, Undo, RemoveOrphan, Goto, End, vars
  <2>3. ASSUME NEW c \in Commands, NEW s \in Schemas, NEW b \in BOOLEAN, Start(c, s, b)
        PROVE  Sequential'
    <3>1. Running = {} /\ pc'[c] = "prior" /\ UNCHANGED files
      BY <2>1, <2>3 DEF Start, directory, TypeOK
    <3>2. \A d \in Commands \ {c} : pc'[d] \in {"idle", "ended"}
      BY <2>1, <2>3, <3>1 DEF Start, TypeOK, Running
    <3>3. Running' \subseteq {c}
      BY <3>2 DEF Running
    <3>4. Connected(files', Present(files)')
      BY <2>2, <3>1 DEF Sequential, Present
    <3>5. \A d \in Commands : UpToDateWith(d)'
      BY <3>1, <3>2 DEF UpToDateWith, Read, Planned
    <3> QED BY <3>3, <3>4, <3>5 DEF Sequential
  <2>4. ASSUME NEW c \in Commands, Step(c) \/ Crash(c) PROVE Sequential'
    BY <2>1, <2>2, <2>4, LoneStep
  <2>5. CASE RemoveOrphan
    <3>1. Running' = {} /\ \A d \in Commands : pc'[d] \in {"idle", "ended"}
      BY <2>5 DEF RemoveOrphan, Running
    <3>2. PICK i \in Ids : Newest(Present(files), i) /\ files' = [files EXCEPT ![i] = Absent]
      BY <2>5 DEF RemoveOrphan
    <3>3. /\ Present(files) \subseteq Nat /\ i \in Nat
          /\ \A j \in Present(files) : j <= i
          /\ Present(files)' = Present(files) \ {i}
          /\ \A j \in Present(files) \ {i} : files'[j] = files[j]
      BY <2>1, <3>2, ArtifactAssumption DEF Present, Newest, TypeOK
    <3>4. Connected(files', Present(files)')
      BY <2>2, <3>3, ConnectedWithoutNewest DEF Sequential
    <3>5. \A d \in Commands : UpToDateWith(d)'
      BY <3>1 DEF UpToDateWith, Read, Planned
    <3> QED BY <3>1, <3>4, <3>5 DEF Sequential
  <2>6. CASE UNCHANGED vars
    BY <2>2, <2>6 DEF vars, Sequential, Running, Connected, Continues, Newest, Before, Present,
                      UpToDateWith, Read, Planned
  <2> QED BY <2>3, <2>4, <2>5, <2>6 DEF Next
<1> QED BY <1>1, <1>2, AlwaysInvariant, PTL DEF Spec

\* Commands that run one after the other never disconnect the lineage, however often
\* they crash or fail half-way.
THEOREM CrashesOnlyTear == Spec => []CrashOnlyTears
<1>1. Alone => CrashOnlyTears
  BY DEF Alone, Sequential, CrashOnlyTears
<1> QED BY <1>1, AlwaysAlone, PTL
============================================================================
