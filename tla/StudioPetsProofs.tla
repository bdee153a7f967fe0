-------------------------- MODULE StudioPetsProofs --------------------------
(***************************************************************************)
(* Proofs about StudioPets.  The argument rests on one fact: only the head *)
(* of the chain is past its first step (OneRuns), so what a job read from  *)
(* the records is still true when it writes.                               *)
(***************************************************************************)
EXTENDS StudioPets, TLAPS

Active == Steps \ {"queued"}

\* The chain: a job past its first step is the head.
OneRuns == \A j \in Jobs : at[j] \in Active => jobs # <<>> /\ Head(jobs) = j

\* Which steps a kind of job takes.
KindInv ==
    /\ at[Boot] \notin {"join", "build", "delete", "show"}
    /\ \A r \in Creates : at[r] # "show"
    /\ \A r \in Renames : at[r] \notin {"list", "assemble", "join", "build", "delete"}
    /\ \A r \in Renames : at[r] = "show" => named[PetOf[r]] = r

\* Where a restore is, as `restored` tells it.
RestoreInv ==
    /\ restored = "none" => at[Boot] = "new"
    /\ at[Boot] = "queued" => restored = "pending"
    /\ \A j \in Jobs : at[j] \in {"list", "assemble"} =>
          restored = "pending" /\ at[Boot] # "queued"
    /\ \A j \in Jobs : at[j] = "assemble" =>
          todo = {[pet |-> p, name |-> named[p]] : p \in rows \ live}
    /\ \A r \in Creates : at[r] = "join" => restored # "none"
    /\ \A r \in Creates : at[r] \in {"build", "delete"} =>
          /\ restored = "done"
          /\ PetOf[r] \in rows \ live
          /\ named[PetOf[r]] = r

\* close() takes the runtimes over once the chain is empty.
CloseInv ==
    /\ closer # "none" => closed
    /\ closer \in {"closing", "done"} => jobs = <<>> /\ live = {}
    /\ closer = "done" => \A p \in Pets : open[p] = 0

\* A Pet in creation is nobody else's.
KeptInv ==
    \A r, s \in Creates :
        at[r] = "ok" /\ at[s] \in {"build", "delete"} => PetOf[r] # PetOf[s]

IInv ==
    /\ TypeOK
    /\ OneRuns
    /\ KindInv
    /\ RestoreInv
    /\ CloseInv
    /\ AssembledOnce
    /\ live \subseteq rows
    /\ CreatedIsKept
    /\ KeptInv

-----------------------------------------------------------------------------
LEMMA InitEstablishes == Init => IInv
<1> SUFFICES ASSUME Init PROVE IInv
    OBVIOUS
<1> USE PetsAssumption DEF Init, Jobs, Creates, Steps, Ends, Active
<1>0. <<>> \in Seq(Jobs)
    OBVIOUS
<1>1. TypeOK
    BY <1>0 DEF TypeOK
<1>2. OneRuns /\ KindInv /\ RestoreInv /\ CloseInv /\ KeptInv
    BY DEF OneRuns, KindInv, RestoreInv, CloseInv, KeptInv
<1>3. AssembledOnce /\ CreatedIsKept /\ live \subseteq rows
    BY DEF AssembledOnce, CreatedIsKept
<1> QED
    BY <1>1, <1>2, <1>3 DEF IInv

LEMMA SettleKeepsType ==
    ASSUME TypeOK, NEW j \in Jobs, jobs # <<>>, NEW e \in Ends, Settle(j, e)
    PROVE /\ jobs' \in Seq(Jobs)
          /\ at' \in [Jobs -> {"new"} \cup Steps \cup Ends]
          /\ at'[j] = e
          /\ \A k \in Jobs \ {j} : at'[k] = at[k]
    BY DEF TypeOK, Settle, Ends

LEMMA MoveKeepsType ==
    ASSUME TypeOK, NEW j \in Jobs, NEW e \in Steps, MoveTo(j, e)
    PROVE /\ jobs' = jobs
          /\ at' \in [Jobs -> {"new"} \cup Steps \cup Ends]
          /\ at'[j] = e
          /\ \A k \in Jobs \ {j} : at'[k] = at[k]
    BY DEF TypeOK, MoveTo

-----------------------------------------------------------------------------
LEMMA RequestPreserves ==
    ASSUME IInv, NEW r \in Requests, Request(r)
    PROVE IInv'
<1> USE PetsAssumption DEF IInv, Jobs, Creates, Steps, Ends, Active, Request, Serialize
<1>1. CASE closed
  <2>1. at' = [at EXCEPT ![r] = "refused"] /\ UNCHANGED jobs
      BY <1>1
  <2>2. TypeOK'
      BY <2>1 DEF TypeOK, records, runtimes, closing, bounds
  <2>3. (OneRuns /\ KindInv /\ RestoreInv /\ CloseInv /\ KeptInv)'
      BY <2>1 DEF TypeOK, OneRuns, KindInv, RestoreInv, CloseInv, KeptInv, records, runtimes, closing, bounds
  <2>4. (AssembledOnce /\ CreatedIsKept /\ live \subseteq rows)'
      BY <2>1 DEF TypeOK, AssembledOnce, CreatedIsKept, records, runtimes, closing, bounds
  <2> QED BY <2>2, <2>3, <2>4
<1>2. CASE ~closed
  <2>1. at' = [at EXCEPT ![r] = "queued"] /\ jobs' = Append(jobs, r)
      BY <1>2
  <2>2. TypeOK'
      BY <2>1 DEF TypeOK, records, runtimes, closing, bounds
  <2>3. jobs # <<>> => jobs' # <<>> /\ Head(jobs') = Head(jobs)
      BY <2>1 DEF TypeOK
  <2>4. OneRuns'
      BY <2>1, <2>3 DEF TypeOK, OneRuns
  <2>5. (KindInv /\ RestoreInv /\ CloseInv /\ KeptInv)'
      BY <2>1, <1>2 DEF TypeOK, KindInv, RestoreInv, CloseInv, KeptInv, records, runtimes, closing, bounds
  <2>6. (AssembledOnce /\ CreatedIsKept /\ live \subseteq rows)'
      BY <2>1 DEF TypeOK, AssembledOnce, CreatedIsKept, records, runtimes, closing, bounds
  <2> QED BY <2>2, <2>4, <2>5, <2>6
<1> QED BY <1>1, <1>2

LEMMA RestoreBeginsPreserves ==
    ASSUME IInv, RestoreBegins
    PROVE IInv'
<1> USE PetsAssumption DEF IInv, Jobs, Creates, Rows, Steps, Ends, Active
<1>1. /\ Boot \in Jobs /\ at[Boot] = "queued"
      /\ jobs # <<>> /\ Head(jobs) = Boot
    BY DEF Running, RestoreBegins
<1>2. \A k \in Jobs \ {Boot} : at[k] \notin Active
    BY <1>1 DEF OneRuns
<1>3. CASE TRUE
  <2>1. /\ jobs' = jobs /\ at' \in [Jobs -> {"new"} \cup Steps \cup Ends]
        /\ at'[Boot] = "list" /\ \A k \in Jobs \ {Boot} : at'[k] = at[k]
    <3>1. MoveTo(Boot, "list")
      BY <1>1, <1>3 DEF RestoreBegins
    <3> QED BY <1>1, <3>1, MoveKeepsType
  <2>2. /\ UNCHANGED <<rows, named>>
        /\ UNCHANGED <<live, shown, open>>
        /\ UNCHANGED <<listed, closed, closer>>
        /\ UNCHANGED <<faults, lostDeletes, restarts>>
        /\ UNCHANGED <<todo, restored>>
    BY <1>1, <1>3 DEF TypeOK, RestoreBegins, records, runtimes, closing, bounds
  <2>3. TypeOK'
    BY <1>1, <1>2, <2>1, <2>2 DEF TypeOK
  <2>4. OneRuns'
    BY <1>1, <1>2, <2>1, <2>2 DEF TypeOK, OneRuns
  <2>5. KindInv'
    BY <1>1, <1>2, <2>1, <2>2 DEF TypeOK, KindInv
  <2>6. RestoreInv'
    BY <1>1, <1>2, <2>1, <2>2 DEF TypeOK, RestoreInv
  <2>7. CloseInv'
    BY <1>1, <1>2, <2>1, <2>2 DEF TypeOK, CloseInv
  <2>8. (AssembledOnce /\ live \subseteq rows)'
    BY <1>1, <1>2, <2>1, <2>2 DEF TypeOK, AssembledOnce
  <2>9. CreatedIsKept'
    BY <1>1, <1>2, <2>1, <2>2 DEF TypeOK, CreatedIsKept
  <2>10. KeptInv'
    BY <1>1, <1>2, <2>1, <2>2 DEF TypeOK, KeptInv
  <2> QED BY <2>3, <2>4, <2>5, <2>6, <2>7, <2>8, <2>9, <2>10
<1> QED BY <1>1, <1>3 DEF RestoreBegins

LEMMA ListPetsPreserves ==
    ASSUME IInv, NEW j \in Jobs, ListPets(j)
    PROVE IInv'
<1> USE PetsAssumption DEF IInv, Jobs, Creates, Rows, Steps, Ends, Active
<1>1. /\ j \in Jobs /\ at[j] = "list"
      /\ jobs # <<>> /\ Head(jobs) = j
    BY DEF Running, ListPets
<1>2. \A k \in Jobs \ {j} : at[k] \notin Active
    BY <1>1 DEF OneRuns
<1>3. CASE TRUE
  <2>1. /\ jobs' = jobs /\ at' \in [Jobs -> {"new"} \cup Steps \cup Ends]
        /\ at'[j] = "assemble" /\ \A k \in Jobs \ {j} : at'[k] = at[k]
    <3>1. MoveTo(j, "assemble")
      BY <1>1, <1>3 DEF ListPets
    <3> QED BY <1>1, <3>1, MoveKeepsType
  <2>2. /\ UNCHANGED <<rows, named>>
        /\ UNCHANGED <<live, shown, open>>
        /\ UNCHANGED <<listed, closed, closer>>
        /\ UNCHANGED <<faults, lostDeletes, restarts>>
        /\ UNCHANGED restored
        /\ todo' = {[pet |-> p, name |-> named[p]] : p \in rows \ live}
    BY <1>1, <1>3 DEF TypeOK, ListPets, records, runtimes, closing, bounds
  <2>3. TypeOK'
    BY <1>1, <1>2, <2>1, <2>2 DEF TypeOK
  <2>4. OneRuns'
    BY <1>1, <1>2, <2>1, <2>2 DEF TypeOK, OneRuns
  <2>5. KindInv'
    BY <1>1, <1>2, <2>1, <2>2 DEF TypeOK, KindInv
  <2>6. RestoreInv'
    BY <1>1, <1>2, <2>1, <2>2 DEF TypeOK, RestoreInv
  <2>7. CloseInv'
    BY <1>1, <1>2, <2>1, <2>2 DEF TypeOK, CloseInv
  <2>8. (AssembledOnce /\ live \subseteq rows)'
    BY <1>1, <1>2, <2>1, <2>2 DEF TypeOK, AssembledOnce
  <2>9. CreatedIsKept'
    BY <1>1, <1>2, <2>1, <2>2 DEF TypeOK, CreatedIsKept
  <2>10. KeptInv'
    BY <1>1, <1>2, <2>1, <2>2 DEF TypeOK, KeptInv
  <2> QED BY <2>3, <2>4, <2>5, <2>6, <2>7, <2>8, <2>9, <2>10
<1> QED BY <1>1, <1>3 DEF ListPets

LEMMA RestorePetPreserves ==
    ASSUME IInv, NEW j \in Jobs, RestorePet(j)
    PROVE IInv'
<1> USE PetsAssumption DEF IInv, Jobs, Creates, Rows, Steps, Ends, Active
<1>1. /\ j \in Jobs /\ at[j] = "assemble"
      /\ jobs # <<>> /\ Head(jobs) = j
    BY DEF Running, RestorePet, RestoreEnds, AssemblyFails
<1>2. \A k \in Jobs \ {j} : at[k] \notin Active
    BY <1>1 DEF OneRuns
<1>3. CASE \E row \in todo :
               GoLive(row) /\ todo' = todo \ {row}
               /\ UNCHANGED <<jobs, at, restored, faults>>
  <2>1. at' = at /\ jobs' = jobs
    BY <1>3 DEF RestorePet, RestoreEnds, AssemblyFails
  <2>2. /\ UNCHANGED <<rows, named>>
        /\ UNCHANGED <<listed, closed, closer>>
        /\ UNCHANGED <<faults, lostDeletes, restarts>>
        /\ UNCHANGED restored
        /\ todo' \subseteq Rows
        /\ closer \in {"none", "waiting"}
        /\ \E p \in rows \ live :
              /\ open' = [open EXCEPT ![p] = @ + 1]
              /\ live' = live \cup {p}
              /\ shown' = [shown EXCEPT ![p] = named[p]]
              /\ todo' = {[pet |-> q, name |-> named[q]] : q \in rows \ (live \cup {p})}
    <3>1. PICK row \in todo : /\ GoLive(row) /\ todo' = todo \ {row}
                             /\ UNCHANGED <<jobs, at, restored, faults>>
      BY <1>3
    <3>2. todo = {[pet |-> q, name |-> named[q]] : q \in rows \ live}
      BY <1>1 DEF RestoreInv
    <3>3. PICK p \in rows \ live : row = [pet |-> p, name |-> named[p]]
      BY <3>1, <3>2
    <3>4. row.pet = p /\ row.name = named[p]
      BY <3>3
    <3>5. todo' = {[pet |-> q, name |-> named[q]] : q \in rows \ (live \cup {p})}
      <4>1. \A q \in rows \ (live \cup {p}) :
               [pet |-> q, name |-> named[q]] # row
        <5> SUFFICES ASSUME NEW q \in rows \ (live \cup {p}),
                            [pet |-> q, name |-> named[q]] = row
                     PROVE FALSE
          OBVIOUS
        <5>1. [pet |-> q, name |-> named[q]].pet = row.pet
          OBVIOUS
        <5> QED BY <5>1, <3>4
      <4> QED BY <3>1, <3>2, <3>3, <4>1
    <3>6. todo' \subseteq Rows
      BY <3>1 DEF TypeOK
    <3>7. closer \in {"none", "waiting"}
      BY <1>1 DEF CloseInv, TypeOK
    <3> QED
      BY <1>1, <1>3, <3>1, <3>3, <3>4, <3>5, <3>6, <3>7
      DEF RestorePet, GoLive, records, closing
  <2>3. TypeOK'
    BY <1>1, <1>2, <2>1, <2>2 DEF TypeOK
  <2>4. OneRuns'
    BY <1>1, <1>2, <2>1, <2>2 DEF TypeOK, OneRuns
  <2>5. KindInv'
    BY <1>1, <1>2, <2>1, <2>2 DEF TypeOK, KindInv
  <2>6. RestoreInv'
    BY <1>1, <1>2, <2>1, <2>2 DEF TypeOK, RestoreInv
  <2>7. CloseInv'
    BY <1>1, <1>2, <2>1, <2>2 DEF TypeOK, CloseInv
  <2>8. (AssembledOnce /\ live \subseteq rows)'
    BY <1>1, <1>2, <2>1, <2>2 DEF TypeOK, AssembledOnce
  <2>9. CreatedIsKept'
    BY <1>1, <1>2, <2>1, <2>2 DEF TypeOK, CreatedIsKept
  <2>10. KeptInv'
    BY <1>1, <1>2, <2>1, <2>2 DEF TypeOK, KeptInv
  <2> QED BY <2>3, <2>4, <2>5, <2>6, <2>7, <2>8, <2>9, <2>10
<1>4. CASE RestoreEnds(j, "failed") /\ todo' = {}
             /\ UNCHANGED runtimes /\ j = Boot
  <2>1. /\ jobs' \in Seq(Jobs) /\ at' \in [Jobs -> {"new"} \cup Steps \cup Ends]
        /\ at'[j] = "failed" /\ \A k \in Jobs \ {j} : at'[k] = at[k]
    <3>1. Settle(j, "failed")
      BY <1>1, <1>4 DEF RestorePet, RestoreEnds, AssemblyFails
    <3> QED BY <1>1, <3>1, SettleKeepsType
  <2>2. /\ UNCHANGED <<rows, named>>
        /\ UNCHANGED <<live, shown, open>>
        /\ UNCHANGED <<listed, closed, closer>>
        /\ faults' \in Nat /\ UNCHANGED <<lostDeletes, restarts>>
        /\ restored' = "failed" /\ todo' = {} /\ j = Boot
    BY <1>1, <1>4 DEF TypeOK, RestorePet, RestoreEnds, AssemblyFails, records, runtimes, closing, bounds, GoLive, RestoreInv, CloseInv
  <2>3. TypeOK'
    BY <1>1, <1>2, <2>1, <2>2 DEF TypeOK
  <2>4. OneRuns'
    BY <1>1, <1>2, <2>1, <2>2 DEF TypeOK, OneRuns
  <2>5. KindInv'
    BY <1>1, <1>2, <2>1, <2>2 DEF TypeOK, KindInv
  <2>6. RestoreInv'
    BY <1>1, <1>2, <2>1, <2>2 DEF TypeOK, RestoreInv
  <2>7. CloseInv'
    BY <1>1, <1>2, <2>1, <2>2 DEF TypeOK, CloseInv
  <2>8. (AssembledOnce /\ live \subseteq rows)'
    BY <1>1, <1>2, <2>1, <2>2 DEF TypeOK, AssembledOnce
  <2>9. CreatedIsKept'
    BY <1>1, <1>2, <2>1, <2>2 DEF TypeOK, CreatedIsKept
  <2>10. KeptInv'
    BY <1>1, <1>2, <2>1, <2>2 DEF TypeOK, KeptInv
  <2> QED BY <2>3, <2>4, <2>5, <2>6, <2>7, <2>8, <2>9, <2>10
<1>5. CASE RestoreEnds(j, "failed") /\ todo' = {}
             /\ UNCHANGED runtimes /\ j # Boot
  <2>1. /\ jobs' = jobs /\ at' \in [Jobs -> {"new"} \cup Steps \cup Ends]
        /\ at'[j] = "join" /\ \A k \in Jobs \ {j} : at'[k] = at[k]
    <3>1. MoveTo(j, "join")
      BY <1>1, <1>5 DEF RestorePet, RestoreEnds, AssemblyFails
    <3> QED BY <1>1, <3>1, MoveKeepsType
  <2>2. /\ UNCHANGED <<rows, named>>
        /\ UNCHANGED <<live, shown, open>>
        /\ UNCHANGED <<listed, closed, closer>>
        /\ faults' \in Nat /\ UNCHANGED <<lostDeletes, restarts>>
        /\ restored' = "failed" /\ todo' = {} /\ j # Boot
    BY <1>1, <1>5 DEF TypeOK, RestorePet, RestoreEnds, AssemblyFails, records, runtimes, closing, bounds, GoLive, RestoreInv, CloseInv
  <2>3. TypeOK'
    BY <1>1, <1>2, <2>1, <2>2 DEF TypeOK
  <2>4. OneRuns'
    BY <1>1, <1>2, <2>1, <2>2 DEF TypeOK, OneRuns
  <2>5. KindInv'
    BY <1>1, <1>2, <2>1, <2>2 DEF TypeOK, KindInv
  <2>6. RestoreInv'
    BY <1>1, <1>2, <2>1, <2>2 DEF TypeOK, RestoreInv
  <2>7. CloseInv'
    BY <1>1, <1>2, <2>1, <2>2 DEF TypeOK, CloseInv
  <2>8. (AssembledOnce /\ live \subseteq rows)'
    BY <1>1, <1>2, <2>1, <2>2 DEF TypeOK, AssembledOnce
  <2>9. CreatedIsKept'
    BY <1>1, <1>2, <2>1, <2>2 DEF TypeOK, CreatedIsKept
  <2>10. KeptInv'
    BY <1>1, <1>2, <2>1, <2>2 DEF TypeOK, KeptInv
  <2> QED BY <2>3, <2>4, <2>5, <2>6, <2>7, <2>8, <2>9, <2>10
<1>6. CASE RestoreEnds(j, "done") /\ todo = {}
             /\ UNCHANGED <<runtimes, todo, faults>> /\ j = Boot
  <2>1. /\ jobs' \in Seq(Jobs) /\ at' \in [Jobs -> {"new"} \cup Steps \cup Ends]
        /\ at'[j] = "ok" /\ \A k \in Jobs \ {j} : at'[k] = at[k]
    <3>1. Settle(j, "ok")
      BY <1>1, <1>6 DEF RestorePet, RestoreEnds, AssemblyFails
    <3> QED BY <1>1, <3>1, SettleKeepsType
  <2>2. /\ UNCHANGED <<rows, named>>
        /\ UNCHANGED <<live, shown, open>>
        /\ UNCHANGED <<listed, closed, closer>>
        /\ UNCHANGED <<faults, lostDeletes, restarts>>
        /\ restored' = "done" /\ todo' = {} /\ todo = {} /\ j = Boot
    BY <1>1, <1>6 DEF TypeOK, RestorePet, RestoreEnds, AssemblyFails, records, runtimes, closing, bounds, GoLive, RestoreInv, CloseInv
  <2>3. TypeOK'
    BY <1>1, <1>2, <2>1, <2>2 DEF TypeOK
  <2>4. OneRuns'
    BY <1>1, <1>2, <2>1, <2>2 DEF TypeOK, OneRuns
  <2>5. KindInv'
    BY <1>1, <1>2, <2>1, <2>2 DEF TypeOK, KindInv
  <2>6. RestoreInv'
    BY <1>1, <1>2, <2>1, <2>2 DEF TypeOK, RestoreInv
  <2>7. CloseInv'
    BY <1>1, <1>2, <2>1, <2>2 DEF TypeOK, CloseInv
  <2>8. (AssembledOnce /\ live \subseteq rows)'
    BY <1>1, <1>2, <2>1, <2>2 DEF TypeOK, AssembledOnce
  <2>9. CreatedIsKept'
    BY <1>1, <1>2, <2>1, <2>2 DEF TypeOK, CreatedIsKept
  <2>10. KeptInv'
    BY <1>1, <1>2, <2>1, <2>2 DEF TypeOK, KeptInv
  <2> QED BY <2>3, <2>4, <2>5, <2>6, <2>7, <2>8, <2>9, <2>10
<1>7. CASE RestoreEnds(j, "done") /\ todo = {}
             /\ UNCHANGED <<runtimes, todo, faults>> /\ j # Boot
  <2>1. /\ jobs' = jobs /\ at' \in [Jobs -> {"new"} \cup Steps \cup Ends]
        /\ at'[j] = "join" /\ \A k \in Jobs \ {j} : at'[k] = at[k]
    <3>1. MoveTo(j, "join")
      BY <1>1, <1>7 DEF RestorePet, RestoreEnds, AssemblyFails
    <3> QED BY <1>1, <3>1, MoveKeepsType
  <2>2. /\ UNCHANGED <<rows, named>>
        /\ UNCHANGED <<live, shown, open>>
        /\ UNCHANGED <<listed, closed, closer>>
        /\ UNCHANGED <<faults, lostDeletes, restarts>>
        /\ restored' = "done" /\ todo' = {} /\ todo = {} /\ j # Boot
    BY <1>1, <1>7 DEF TypeOK, RestorePet, RestoreEnds, AssemblyFails, records, runtimes, closing, bounds, GoLive, RestoreInv, CloseInv
  <2>3. TypeOK'
    BY <1>1, <1>2, <2>1, <2>2 DEF TypeOK
  <2>4. OneRuns'
    BY <1>1, <1>2, <2>1, <2>2 DEF TypeOK, OneRuns
  <2>5. KindInv'
    BY <1>1, <1>2, <2>1, <2>2 DEF TypeOK, KindInv
  <2>6. RestoreInv'
    BY <1>1, <1>2, <2>1, <2>2 DEF TypeOK, RestoreInv
  <2>7. CloseInv'
    BY <1>1, <1>2, <2>1, <2>2 DEF TypeOK, CloseInv
  <2>8. (AssembledOnce /\ live \subseteq rows)'
    BY <1>1, <1>2, <2>1, <2>2 DEF TypeOK, AssembledOnce
  <2>9. CreatedIsKept'
    BY <1>1, <1>2, <2>1, <2>2 DEF TypeOK, CreatedIsKept
  <2>10. KeptInv'
    BY <1>1, <1>2, <2>1, <2>2 DEF TypeOK, KeptInv
  <2> QED BY <2>3, <2>4, <2>5, <2>6, <2>7, <2>8, <2>9, <2>10
<1> QED BY <1>1, <1>3, <1>4, <1>5, <1>6, <1>7 DEF RestorePet, RestoreEnds, AssemblyFails

LEMMA CreateBeginsPreserves ==
    ASSUME IInv, NEW r \in Creates, CreateBegins(r)
    PROVE IInv'
<1> USE PetsAssumption DEF IInv, Jobs, Creates, Rows, Steps, Ends, Active
<1>1. /\ r \in Jobs /\ at[r] = "queued"
      /\ jobs # <<>> /\ Head(jobs) = r
    BY DEF Running, CreateBegins
<1>2. \A k \in Jobs \ {r} : at[k] \notin Active
    BY <1>1 DEF OneRuns
<1>3. CASE restored = "none"
  <2>1. /\ jobs' = jobs /\ at' \in [Jobs -> {"new"} \cup Steps \cup Ends]
        /\ at'[r] = "list" /\ \A k \in Jobs \ {r} : at'[k] = at[k]
    <3>1. MoveTo(r, "list")
      BY <1>1, <1>3 DEF CreateBegins
    <3> QED BY <1>1, <3>1, MoveKeepsType
  <2>2. /\ UNCHANGED <<rows, named>>
        /\ UNCHANGED <<live, shown, open>>
        /\ UNCHANGED <<listed, closed, closer>>
        /\ UNCHANGED <<faults, lostDeletes, restarts>>
        /\ UNCHANGED todo
        /\ restored = "none" /\ restored' = "pending"
    BY <1>1, <1>3 DEF TypeOK, CreateBegins, records, runtimes, closing, bounds
  <2>3. TypeOK'
    BY <1>1, <1>2, <2>1, <2>2 DEF TypeOK
  <2>4. OneRuns'
    BY <1>1, <1>2, <2>1, <2>2 DEF TypeOK, OneRuns
  <2>5. KindInv'
    BY <1>1, <1>2, <2>1, <2>2 DEF TypeOK, KindInv
  <2>6. RestoreInv'
    BY <1>1, <1>2, <2>1, <2>2 DEF TypeOK, RestoreInv
  <2>7. CloseInv'
    BY <1>1, <1>2, <2>1, <2>2 DEF TypeOK, CloseInv
  <2>8. (AssembledOnce /\ live \subseteq rows)'
    BY <1>1, <1>2, <2>1, <2>2 DEF TypeOK, AssembledOnce
  <2>9. CreatedIsKept'
    BY <1>1, <1>2, <2>1, <2>2 DEF TypeOK, CreatedIsKept
  <2>10. KeptInv'
    BY <1>1, <1>2, <2>1, <2>2 DEF TypeOK, KeptInv
  <2> QED BY <2>3, <2>4, <2>5, <2>6, <2>7, <2>8, <2>9, <2>10
<1>4. CASE restored # "none"
  <2>1. /\ jobs' = jobs /\ at' \in [Jobs -> {"new"} \cup Steps \cup Ends]
        /\ at'[r] = "join" /\ \A k \in Jobs \ {r} : at'[k] = at[k]
    <3>1. MoveTo(r, "join")
      BY <1>1, <1>4 DEF CreateBegins
    <3> QED BY <1>1, <3>1, MoveKeepsType
  <2>2. /\ UNCHANGED <<rows, named>>
        /\ UNCHANGED <<live, shown, open>>
        /\ UNCHANGED <<listed, closed, closer>>
        /\ UNCHANGED <<faults, lostDeletes, restarts>>
        /\ UNCHANGED <<todo, restored>>
    BY <1>1, <1>4 DEF TypeOK, CreateBegins, records, runtimes, closing, bounds
  <2>3. TypeOK'
    BY <1>1, <1>2, <2>1, <2>2 DEF TypeOK
  <2>4. OneRuns'
    BY <1>1, <1>2, <2>1, <2>2 DEF TypeOK, OneRuns
  <2>5. KindInv'
    BY <1>1, <1>2, <2>1, <2>2 DEF TypeOK, KindInv
  <2>6. RestoreInv'
    <3>1. r # Boot /\ Boot \in Jobs
      BY <1>1
    <3>2. restored' # "none" /\ (at'[Boot] = "queued" => restored' = "pending")
      <4>1. at'[Boot] = at[Boot]
        BY <2>1, <3>1
      <4> QED BY <4>1, <1>4, <2>2 DEF RestoreInv
    <3>3. \A j \in Jobs : at'[j] \notin {"assemble", "build", "delete"}
      BY <1>1, <1>2, <2>1
    <3>4. \A j \in Jobs \ {r} : at'[j] # "list"
      BY <1>1, <1>2, <2>1
    <3> QED
      BY <1>1, <1>2, <2>1, <2>2, <3>1, <3>2, <3>3, <3>4 DEF RestoreInv
  <2>7. CloseInv'
    BY <1>1, <1>2, <2>1, <2>2 DEF TypeOK, CloseInv
  <2>8. (AssembledOnce /\ live \subseteq rows)'
    BY <1>1, <1>2, <2>1, <2>2 DEF TypeOK, AssembledOnce
  <2>9. CreatedIsKept'
    BY <1>1, <1>2, <2>1, <2>2 DEF TypeOK, CreatedIsKept
  <2>10. KeptInv'
    BY <1>1, <1>2, <2>1, <2>2 DEF TypeOK, KeptInv
  <2> QED BY <2>3, <2>4, <2>5, <2>6, <2>7, <2>8, <2>9, <2>10
<1> QED BY <1>1, <1>3, <1>4 DEF CreateBegins

LEMMA CreateRecordsPreserves ==
    ASSUME IInv, NEW r \in Creates, CreateRecords(r)
    PROVE IInv'
<1> USE PetsAssumption DEF IInv, Jobs, Creates, Rows, Steps, Ends, Active
<1>1. /\ r \in Jobs /\ at[r] = "join"
      /\ jobs # <<>> /\ Head(jobs) = r
    BY DEF Running, CreateRecords
<1>2. \A k \in Jobs \ {r} : at[k] \notin Active
    BY <1>1 DEF OneRuns
<1>3. CASE restored = "failed" \/ PetOf[r] \in rows
  <2>1. /\ jobs' \in Seq(Jobs) /\ at' \in [Jobs -> {"new"} \cup Steps \cup Ends]
        /\ at'[r] = "failed" /\ \A k \in Jobs \ {r} : at'[k] = at[k]
    <3>1. Settle(r, "failed")
      BY <1>1, <1>3 DEF CreateRecords
    <3> QED BY <1>1, <3>1, SettleKeepsType
  <2>2. /\ UNCHANGED <<rows, named>>
        /\ UNCHANGED <<live, shown, open>>
        /\ UNCHANGED <<listed, closed, closer>>
        /\ UNCHANGED <<faults, lostDeletes, restarts>>
        /\ UNCHANGED <<todo, restored>>
    BY <1>1, <1>3 DEF TypeOK, CreateRecords, records, runtimes, closing, bounds
  <2>3. TypeOK'
    BY <1>1, <1>2, <2>1, <2>2 DEF TypeOK
  <2>4. OneRuns'
    BY <1>1, <1>2, <2>1, <2>2 DEF TypeOK, OneRuns
  <2>5. KindInv'
    BY <1>1, <1>2, <2>1, <2>2 DEF TypeOK, KindInv
  <2>6. RestoreInv'
    BY <1>1, <1>2, <2>1, <2>2 DEF TypeOK, RestoreInv
  <2>7. CloseInv'
    BY <1>1, <1>2, <2>1, <2>2 DEF TypeOK, CloseInv
  <2>8. (AssembledOnce /\ live \subseteq rows)'
    BY <1>1, <1>2, <2>1, <2>2 DEF TypeOK, AssembledOnce
  <2>9. CreatedIsKept'
    BY <1>1, <1>2, <2>1, <2>2 DEF TypeOK, CreatedIsKept
  <2>10. KeptInv'
    BY <1>1, <1>2, <2>1, <2>2 DEF TypeOK, KeptInv, CreatedIsKept
  <2> QED BY <2>3, <2>4, <2>5, <2>6, <2>7, <2>8, <2>9, <2>10
<1>4. CASE ~(restored = "failed" \/ PetOf[r] \in rows)
  <2>1. /\ jobs' = jobs /\ at' \in [Jobs -> {"new"} \cup Steps \cup Ends]
        /\ at'[r] = "build" /\ \A k \in Jobs \ {r} : at'[k] = at[k]
    <3>1. MoveTo(r, "build")
      BY <1>1, <1>4 DEF CreateRecords
    <3> QED BY <1>1, <3>1, MoveKeepsType
  <2>2. /\ rows' = rows \cup {PetOf[r]} /\ named' = [named EXCEPT ![PetOf[r]] = r]
        /\ restored \notin {"failed", "pending"} /\ PetOf[r] \notin rows
        /\ UNCHANGED <<live, shown, open>>
        /\ UNCHANGED <<listed, closed, closer>>
        /\ UNCHANGED <<faults, lostDeletes, restarts>>
        /\ UNCHANGED <<todo, restored>>
    BY <1>1, <1>4 DEF TypeOK, CreateRecords, records, runtimes, closing, bounds
  <2>3. TypeOK'
    BY <1>1, <1>2, <2>1, <2>2 DEF TypeOK
  <2>4. OneRuns'
    BY <1>1, <1>2, <2>1, <2>2 DEF TypeOK, OneRuns
  <2>5. KindInv'
    BY <1>1, <1>2, <2>1, <2>2 DEF TypeOK, KindInv
  <2>6. RestoreInv'
    BY <1>1, <1>2, <2>1, <2>2 DEF TypeOK, RestoreInv
  <2>7. CloseInv'
    BY <1>1, <1>2, <2>1, <2>2 DEF TypeOK, CloseInv
  <2>8. (AssembledOnce /\ live \subseteq rows)'
    BY <1>1, <1>2, <2>1, <2>2 DEF TypeOK, AssembledOnce
  <2>9. CreatedIsKept'
    BY <1>1, <1>2, <2>1, <2>2 DEF TypeOK, CreatedIsKept
  <2>10. KeptInv'
    BY <1>1, <1>2, <2>1, <2>2 DEF TypeOK, KeptInv, CreatedIsKept
  <2> QED BY <2>3, <2>4, <2>5, <2>6, <2>7, <2>8, <2>9, <2>10
<1> QED BY <1>1, <1>3, <1>4 DEF CreateRecords

LEMMA CreateAssemblesPreserves ==
    ASSUME IInv, NEW r \in Creates, CreateAssembles(r)
    PROVE IInv'
<1> USE PetsAssumption DEF IInv, Jobs, Creates, Rows, Steps, Ends, Active
<1>1. /\ r \in Jobs /\ at[r] = "build"
      /\ jobs # <<>> /\ Head(jobs) = r
    BY DEF Running, CreateAssembles, AssemblyFails
<1>2. \A k \in Jobs \ {r} : at[k] \notin Active
    BY <1>1 DEF OneRuns
<1>3. CASE GoLive([pet |-> PetOf[r], name |-> r]) /\ Settle(r, "ok")
             /\ UNCHANGED faults
  <2>1. /\ jobs' \in Seq(Jobs) /\ at' \in [Jobs -> {"new"} \cup Steps \cup Ends]
        /\ at'[r] = "ok" /\ \A k \in Jobs \ {r} : at'[k] = at[k]
    <3>1. Settle(r, "ok")
      BY <1>1, <1>3 DEF CreateAssembles, AssemblyFails
    <3> QED BY <1>1, <3>1, SettleKeepsType
  <2>2. /\ UNCHANGED <<rows, named>>
        /\ open' = [open EXCEPT ![PetOf[r]] = @ + 1]
        /\ live' = live \cup {PetOf[r]}
        /\ shown' = [shown EXCEPT ![PetOf[r]] = r]
        /\ closer \in {"none", "waiting"}
        /\ PetOf[r] \in rows \ live /\ named[PetOf[r]] = r
        /\ UNCHANGED <<listed, closed, closer>>
        /\ UNCHANGED <<faults, lostDeletes, restarts>>
        /\ UNCHANGED <<todo, restored>>
    BY <1>1, <1>3 DEF TypeOK, CreateAssembles, AssemblyFails, records, runtimes, closing, bounds, GoLive, RestoreInv, CloseInv
  <2>3. TypeOK'
    BY <1>1, <1>2, <2>1, <2>2 DEF TypeOK
  <2>4. OneRuns'
    BY <1>1, <1>2, <2>1, <2>2 DEF TypeOK, OneRuns
  <2>5. KindInv'
    BY <1>1, <1>2, <2>1, <2>2 DEF TypeOK, KindInv
  <2>6. RestoreInv'
    BY <1>1, <1>2, <2>1, <2>2 DEF TypeOK, RestoreInv
  <2>7. CloseInv'
    BY <1>1, <1>2, <2>1, <2>2 DEF TypeOK, CloseInv
  <2>8. (AssembledOnce /\ live \subseteq rows)'
    BY <1>1, <1>2, <2>1, <2>2 DEF TypeOK, AssembledOnce
  <2>9. CreatedIsKept'
    BY <1>1, <1>2, <2>1, <2>2 DEF TypeOK, CreatedIsKept
  <2>10. KeptInv'
    BY <1>1, <1>2, <2>1, <2>2 DEF TypeOK, KeptInv
  <2> QED BY <2>3, <2>4, <2>5, <2>6, <2>7, <2>8, <2>9, <2>10
<1>4. CASE AssemblyFails /\ MoveTo(r, "delete") /\ UNCHANGED runtimes
  <2>1. /\ jobs' = jobs /\ at' \in [Jobs -> {"new"} \cup Steps \cup Ends]
        /\ at'[r] = "delete" /\ \A k \in Jobs \ {r} : at'[k] = at[k]
    <3>1. MoveTo(r, "delete")
      BY <1>1, <1>4 DEF CreateAssembles, AssemblyFails
    <3> QED BY <1>1, <3>1, MoveKeepsType
  <2>2. /\ UNCHANGED <<rows, named>>
        /\ UNCHANGED <<live, shown, open>>
        /\ UNCHANGED <<listed, closed, closer>>
        /\ faults' \in Nat /\ UNCHANGED <<lostDeletes, restarts>>
        /\ UNCHANGED <<todo, restored>>
    BY <1>1, <1>4 DEF TypeOK, CreateAssembles, AssemblyFails, records, runtimes, closing, bounds, GoLive, RestoreInv, CloseInv
  <2>3. TypeOK'
    BY <1>1, <1>2, <2>1, <2>2 DEF TypeOK
  <2>4. OneRuns'
    BY <1>1, <1>2, <2>1, <2>2 DEF TypeOK, OneRuns
  <2>5. KindInv'
    BY <1>1, <1>2, <2>1, <2>2 DEF TypeOK, KindInv
  <2>6. RestoreInv'
    BY <1>1, <1>2, <2>1, <2>2 DEF TypeOK, RestoreInv
  <2>7. CloseInv'
    BY <1>1, <1>2, <2>1, <2>2 DEF TypeOK, CloseInv
  <2>8. (AssembledOnce /\ live \subseteq rows)'
    BY <1>1, <1>2, <2>1, <2>2 DEF TypeOK, AssembledOnce
  <2>9. CreatedIsKept'
    BY <1>1, <1>2, <2>1, <2>2 DEF TypeOK, CreatedIsKept
  <2>10. KeptInv'
    BY <1>1, <1>2, <2>1, <2>2 DEF TypeOK, KeptInv
  <2> QED BY <2>3, <2>4, <2>5, <2>6, <2>7, <2>8, <2>9, <2>10
<1> QED BY <1>1, <1>3, <1>4 DEF CreateAssembles, AssemblyFails

LEMMA CreateUndoesPreserves ==
    ASSUME IInv, NEW r \in Creates, CreateUndoes(r)
    PROVE IInv'
<1> USE PetsAssumption DEF IInv, Jobs, Creates, Rows, Steps, Ends, Active
<1>1. /\ r \in Jobs /\ at[r] = "delete"
      /\ jobs # <<>> /\ Head(jobs) = r
    BY DEF Running, CreateUndoes
<1>2. \A k \in Jobs \ {r} : at[k] \notin Active
    BY <1>1 DEF OneRuns
<1>3. CASE TRUE
  <2>1. /\ jobs' \in Seq(Jobs) /\ at' \in [Jobs -> {"new"} \cup Steps \cup Ends]
        /\ at'[r] = "failed" /\ \A k \in Jobs \ {r} : at'[k] = at[k]
    <3>1. Settle(r, "failed")
      BY <1>1, <1>3 DEF CreateUndoes
    <3> QED BY <1>1, <3>1, SettleKeepsType
  <2>2. /\ rows' \in {rows, rows \ {PetOf[r]}}
        /\ lostDeletes' \in Nat /\ UNCHANGED <<faults, restarts>>
        /\ UNCHANGED <<live, shown, open>>
        /\ UNCHANGED <<listed, closed, closer>>
        /\ UNCHANGED <<named, todo, restored>>
    BY <1>1, <1>3 DEF TypeOK, CreateUndoes, records, runtimes, closing, bounds
  <2>3. TypeOK'
    BY <1>1, <1>2, <2>1, <2>2 DEF TypeOK
  <2>4. OneRuns'
    BY <1>1, <1>2, <2>1, <2>2 DEF TypeOK, OneRuns
  <2>5. KindInv'
    BY <1>1, <1>2, <2>1, <2>2 DEF TypeOK, KindInv
  <2>6. RestoreInv'
    BY <1>1, <1>2, <2>1, <2>2 DEF TypeOK, RestoreInv
  <2>7. CloseInv'
    BY <1>1, <1>2, <2>1, <2>2 DEF TypeOK, CloseInv
  <2>8. (AssembledOnce /\ live \subseteq rows)'
    <3>1. PetOf[r] \notin live
      BY <1>1 DEF RestoreInv
    <3>2. live' \subseteq rows'
      BY <2>2, <3>1
    <3> QED BY <2>2, <3>2 DEF AssembledOnce
  <2>9. CreatedIsKept'
    BY <1>1, <1>2, <2>1, <2>2 DEF TypeOK, CreatedIsKept, KeptInv
  <2>10. KeptInv'
    BY <1>1, <1>2, <2>1, <2>2 DEF TypeOK, KeptInv
  <2> QED BY <2>3, <2>4, <2>5, <2>6, <2>7, <2>8, <2>9, <2>10
<1> QED BY <1>1, <1>3 DEF CreateUndoes

LEMMA RenameRecordsPreserves ==
    ASSUME IInv, NEW r \in Requests, RenameRecords(r)
    PROVE IInv'
<1> USE PetsAssumption DEF IInv, Jobs, Creates, Rows, Steps, Ends, Active
<1>1. /\ r \in Jobs /\ at[r] = "queued"
      /\ jobs # <<>> /\ Head(jobs) = r
    BY DEF Running, RenameRecords
<1>2. \A k \in Jobs \ {r} : at[k] \notin Active
    BY <1>1 DEF OneRuns
<1>3. CASE PetOf[r] \in rows
  <2>1. /\ jobs' = jobs /\ at' \in [Jobs -> {"new"} \cup Steps \cup Ends]
        /\ at'[r] = "show" /\ \A k \in Jobs \ {r} : at'[k] = at[k]
    <3>1. MoveTo(r, "show")
      BY <1>1, <1>3 DEF RenameRecords
    <3> QED BY <1>1, <3>1, MoveKeepsType
  <2>2. /\ named' = [named EXCEPT ![PetOf[r]] = r] /\ r \in Renames /\ UNCHANGED rows
        /\ UNCHANGED <<live, shown, open>>
        /\ UNCHANGED <<listed, closed, closer>>
        /\ UNCHANGED <<faults, lostDeletes, restarts>>
        /\ UNCHANGED <<todo, restored>>
    BY <1>1, <1>3 DEF TypeOK, RenameRecords, records, runtimes, closing, bounds
  <2>3. TypeOK'
    BY <1>1, <1>2, <2>1, <2>2 DEF TypeOK
  <2>4. OneRuns'
    BY <1>1, <1>2, <2>1, <2>2 DEF TypeOK, OneRuns
  <2>5. KindInv'
    BY <1>1, <1>2, <2>1, <2>2 DEF TypeOK, KindInv
  <2>6. RestoreInv'
    BY <1>1, <1>2, <2>1, <2>2 DEF TypeOK, RestoreInv
  <2>7. CloseInv'
    BY <1>1, <1>2, <2>1, <2>2 DEF TypeOK, CloseInv
  <2>8. (AssembledOnce /\ live \subseteq rows)'
    BY <1>1, <1>2, <2>1, <2>2 DEF TypeOK, AssembledOnce
  <2>9. CreatedIsKept'
    BY <1>1, <1>2, <2>1, <2>2 DEF TypeOK, CreatedIsKept
  <2>10. KeptInv'
    BY <1>1, <1>2, <2>1, <2>2 DEF TypeOK, KeptInv
  <2> QED BY <2>3, <2>4, <2>5, <2>6, <2>7, <2>8, <2>9, <2>10
<1>4. CASE PetOf[r] \notin rows
  <2>1. /\ jobs' \in Seq(Jobs) /\ at' \in [Jobs -> {"new"} \cup Steps \cup Ends]
        /\ at'[r] = "failed" /\ \A k \in Jobs \ {r} : at'[k] = at[k]
    <3>1. Settle(r, "failed")
      BY <1>1, <1>4 DEF RenameRecords
    <3> QED BY <1>1, <3>1, SettleKeepsType
  <2>2. /\ UNCHANGED <<rows, named>> /\ r \in Renames
        /\ UNCHANGED <<live, shown, open>>
        /\ UNCHANGED <<listed, closed, closer>>
        /\ UNCHANGED <<faults, lostDeletes, restarts>>
        /\ UNCHANGED <<todo, restored>>
    BY <1>1, <1>4 DEF TypeOK, RenameRecords, records, runtimes, closing, bounds
  <2>3. TypeOK'
    BY <1>1, <1>2, <2>1, <2>2 DEF TypeOK
  <2>4. OneRuns'
    BY <1>1, <1>2, <2>1, <2>2 DEF TypeOK, OneRuns
  <2>5. KindInv'
    BY <1>1, <1>2, <2>1, <2>2 DEF TypeOK, KindInv
  <2>6. RestoreInv'
    BY <1>1, <1>2, <2>1, <2>2 DEF TypeOK, RestoreInv
  <2>7. CloseInv'
    BY <1>1, <1>2, <2>1, <2>2 DEF TypeOK, CloseInv
  <2>8. (AssembledOnce /\ live \subseteq rows)'
    BY <1>1, <1>2, <2>1, <2>2 DEF TypeOK, AssembledOnce
  <2>9. CreatedIsKept'
    BY <1>1, <1>2, <2>1, <2>2 DEF TypeOK, CreatedIsKept
  <2>10. KeptInv'
    BY <1>1, <1>2, <2>1, <2>2 DEF TypeOK, KeptInv
  <2> QED BY <2>3, <2>4, <2>5, <2>6, <2>7, <2>8, <2>9, <2>10
<1> QED BY <1>1, <1>3, <1>4 DEF RenameRecords

LEMMA RenameShowsPreserves ==
    ASSUME IInv, NEW r \in Requests, RenameShows(r)
    PROVE IInv'
<1> USE PetsAssumption DEF IInv, Jobs, Creates, Rows, Steps, Ends, Active
<1>1. /\ r \in Jobs /\ at[r] = "show"
      /\ jobs # <<>> /\ Head(jobs) = r
    BY DEF Running, RenameShows
<1>2. \A k \in Jobs \ {r} : at[k] \notin Active
    BY <1>1 DEF OneRuns
<1>3. CASE TRUE
  <2>1. /\ jobs' \in Seq(Jobs) /\ at' \in [Jobs -> {"new"} \cup Steps \cup Ends]
        /\ at'[r] = "ok" /\ \A k \in Jobs \ {r} : at'[k] = at[k]
    <3>1. Settle(r, "ok")
      BY <1>1, <1>3 DEF RenameShows
    <3> QED BY <1>1, <3>1, SettleKeepsType
  <2>2. /\ UNCHANGED <<rows, named>>
        /\ shown' = IF PetOf[r] \in live THEN [shown EXCEPT ![PetOf[r]] = r] ELSE shown
        /\ UNCHANGED <<live, open>>
        /\ UNCHANGED <<listed, closed, closer>>
        /\ UNCHANGED <<faults, lostDeletes, restarts>>
        /\ UNCHANGED <<todo, restored>>
    BY <1>1, <1>3 DEF TypeOK, RenameShows, records, runtimes, closing, bounds
  <2>3. TypeOK'
    BY <1>1, <1>2, <2>1, <2>2 DEF TypeOK
  <2>4. OneRuns'
    BY <1>1, <1>2, <2>1, <2>2 DEF TypeOK, OneRuns
  <2>5. KindInv'
    BY <1>1, <1>2, <2>1, <2>2 DEF TypeOK, KindInv
  <2>6. RestoreInv'
    BY <1>1, <1>2, <2>1, <2>2 DEF TypeOK, RestoreInv
  <2>7. CloseInv'
    BY <1>1, <1>2, <2>1, <2>2 DEF TypeOK, CloseInv
  <2>8. (AssembledOnce /\ live \subseteq rows)'
    BY <1>1, <1>2, <2>1, <2>2 DEF TypeOK, AssembledOnce
  <2>9. CreatedIsKept'
    BY <1>1, <1>2, <2>1, <2>2 DEF TypeOK, CreatedIsKept, KindInv
  <2>10. KeptInv'
    BY <1>1, <1>2, <2>1, <2>2 DEF TypeOK, KeptInv
  <2> QED BY <2>3, <2>4, <2>5, <2>6, <2>7, <2>8, <2>9, <2>10
<1> QED BY <1>1, <1>3 DEF RenameShows

-----------------------------------------------------------------------------
LEMMA RestorePreserves == ASSUME IInv, Restore PROVE IInv'
<1> USE PetsAssumption DEF IInv, Jobs, Creates, Rows, Steps, Ends, Active
<1>1. /\ at[Boot] = "new" /\ restored = "none"
      /\ UNCHANGED <<rows, named, listed, live, shown, open, todo, closed, closer>>
      /\ UNCHANGED <<faults, lostDeletes, restarts>>
    BY DEF Restore, Serialize, records, runtimes, closing, bounds
<1>2. \/ /\ at' = [at EXCEPT ![Boot] = "refused"] /\ jobs' = jobs
         /\ closed /\ restored' = "failed"
      \/ /\ at' = [at EXCEPT ![Boot] = "queued"] /\ jobs' = Append(jobs, Boot)
         /\ ~closed /\ restored' = "pending"
    BY DEF Restore, Serialize
<1>3. /\ jobs' \in Seq(Jobs)
      /\ jobs # <<>> => jobs' # <<>> /\ Head(jobs') = Head(jobs)
  <2>1. CASE jobs' = jobs
      BY <2>1 DEF TypeOK
  <2>2. jobs \in Seq(Jobs) /\ Boot \in Jobs
      BY DEF TypeOK
  <2>3. CASE jobs' = Append(jobs, Boot)
    <3>1. jobs' \in Seq(Jobs)
        BY <2>2, <2>3
    <3>2. jobs # <<>> => jobs' # <<>> /\ Head(jobs') = Head(jobs)
        BY <2>2, <2>3
    <3> QED BY <3>1, <3>2
  <2> QED BY <1>2, <2>1, <2>3
<1>4. TypeOK'
    BY <1>1, <1>2, <1>3 DEF TypeOK
<1>5. OneRuns'
    BY <1>2, <1>3 DEF TypeOK, OneRuns
<1>6. (KindInv /\ RestoreInv)'
    BY <1>1, <1>2 DEF TypeOK, KindInv, RestoreInv
<1>7. (CloseInv /\ KeptInv)'
    BY <1>1, <1>2 DEF TypeOK, CloseInv, KeptInv
<1>8. (AssembledOnce /\ CreatedIsKept /\ live \subseteq rows)'
    BY <1>1, <1>2 DEF TypeOK, AssembledOnce, CreatedIsKept
<1> QED BY <1>4, <1>5, <1>6, <1>7, <1>8

LEMMA ClosePreserves ==
    ASSUME IInv, Close \/ CloseStep
    PROVE IInv'
<1> USE PetsAssumption DEF IInv, Jobs, Creates, Rows, Steps, Ends, Active
<1>1. CASE Close
  <2> USE <1>1 DEF Close, records, runtimes, bounds
  <2>1. TypeOK' /\ OneRuns' /\ KindInv' /\ RestoreInv'
      BY DEF TypeOK, OneRuns, KindInv, RestoreInv
  <2>2. CloseInv' /\ AssembledOnce' /\ CreatedIsKept' /\ KeptInv' /\ live' \subseteq rows'
      BY DEF CloseInv, AssembledOnce, CreatedIsKept, KeptInv
  <2> QED BY <2>1, <2>2
<1>2. CASE CloseTakes
  <2> USE <1>2 DEF CloseTakes, CloseTakesNow, records, bounds
  <2>1. \A j \in Jobs : at[j] \notin Active
      BY DEF OneRuns
  <2>2. TypeOK' /\ OneRuns' /\ KindInv'
      BY DEF TypeOK, OneRuns, KindInv
  <2>3. RestoreInv' /\ KeptInv'
      BY <2>1 DEF RestoreInv, KeptInv
  <2>4. CloseInv' /\ AssembledOnce' /\ CreatedIsKept' /\ live' \subseteq rows'
      BY DEF CloseInv, AssembledOnce, CreatedIsKept
  <2> QED BY <2>2, <2>3, <2>4
<1>3. CASE RuntimeCloses
  <2> USE <1>3 DEF RuntimeCloses, records, bounds
  <2>1. /\ closer = "closing" /\ closer' \in {"closing", "done"}
        /\ UNCHANGED <<rows, named, listed, live, shown, jobs, at, todo, restored,
                       closed, faults, lostDeletes, restarts>>
      OBVIOUS
  <2>2. /\ open' \in [Pets -> Nat]
        /\ \A p \in Pets : open'[p] <= 1
        /\ closer' = "done" => \A p \in Pets : open'[p] = 0
    <3>1. CASE UNCHANGED open /\ closer' = "done"
        BY <3>1 DEF TypeOK, AssembledOnce
    <3>2. CASE /\ UNCHANGED closer
               /\ \E p \in Pets : open[p] > 0 /\ open' = [open EXCEPT ![p] = @ - 1]
      <4>1. PICK p \in Pets : open[p] > 0 /\ open' = [open EXCEPT ![p] = @ - 1]
          BY <3>2
      <4>2. open[p] - 1 \in Nat
          BY <4>1 DEF TypeOK
      <4> QED BY <2>1, <3>2, <4>1, <4>2 DEF TypeOK, AssembledOnce
    <3> QED BY <3>1, <3>2
  <2>3. TypeOK' /\ OneRuns' /\ KindInv' /\ RestoreInv'
      BY <2>1, <2>2 DEF TypeOK, OneRuns, KindInv, RestoreInv
  <2>4. CloseInv' /\ AssembledOnce' /\ CreatedIsKept' /\ KeptInv' /\ live' \subseteq rows'
      BY <2>1, <2>2 DEF CloseInv, AssembledOnce, CreatedIsKept, KeptInv
  <2> QED BY <2>3, <2>4
<1> QED BY <1>1, <1>2, <1>3 DEF CloseStep

LEMMA RestartPreserves == ASSUME IInv, Restart PROVE IInv'
<1> USE PetsAssumption DEF IInv, Jobs, Creates, Rows, Steps, Ends, Active, Restart, records
<1>1. \A j \in Jobs : at'[j] \notin Steps /\ (at'[j] = "ok" => at[j] = "ok")
    OBVIOUS
<1>2. <<>> \in Seq(Jobs) /\ restarts + 1 \in Nat
    BY DEF TypeOK
<1>3. TypeOK'
    BY <1>2 DEF TypeOK
<1>4. OneRuns' /\ KindInv' /\ RestoreInv' /\ KeptInv'
    BY <1>1 DEF OneRuns, KindInv, RestoreInv, KeptInv
<1>5. CloseInv' /\ AssembledOnce' /\ live' \subseteq rows'
    BY DEF CloseInv, AssembledOnce
<1>6. CreatedIsKept'
    BY <1>1 DEF CreatedIsKept
<1> QED BY <1>3, <1>4, <1>5, <1>6

LEMMA StepPreserves == ASSUME IInv, [Next]_vars PROVE IInv'
<1>1. CASE Next
    BY <1>1, RequestPreserves, RestorePreserves, RestoreBeginsPreserves,
       ListPetsPreserves, RestorePetPreserves, CreateBeginsPreserves,
       CreateRecordsPreserves, CreateAssemblesPreserves, CreateUndoesPreserves,
       RenameRecordsPreserves, RenameShowsPreserves, ClosePreserves, RestartPreserves
    DEF Next, JobStep, CreateStep
<1>2. CASE UNCHANGED vars
  <2> USE <1>2 DEF IInv, vars, records, runtimes, closing, bounds
  <2>1. TypeOK' /\ OneRuns' /\ KindInv' /\ RestoreInv'
      BY DEF TypeOK, OneRuns, KindInv, RestoreInv
  <2>2. CloseInv' /\ AssembledOnce' /\ CreatedIsKept' /\ KeptInv' /\ live' \subseteq rows'
      BY DEF CloseInv, AssembledOnce, CreatedIsKept, KeptInv
  <2> QED BY <2>1, <2>2
<1> QED BY <1>1, <1>2

-----------------------------------------------------------------------------
\* The inductive invariant of the registry (serialize, studioPets.ts:207-212).
THEOREM PetsInvariant == Spec => []IInv
<1>1. Init => IInv
    BY InitEstablishes
<1>2. IInv /\ [Next]_vars => IInv'
    BY StepPreserves
<1> QED BY <1>1, <1>2, PTL DEF Spec

\* Every variable keeps its type.
THEOREM PetsTypeCorrect == Spec => []TypeOK
<1>1. IInv => TypeOK
    BY DEF IInv
<1> QED BY <1>1, PetsInvariant, PTL

\* "Changes run one at a time, so a Pet id is never assembled twice."
THEOREM NeverAssembledTwice == Spec => []AssembledOnce
<1>1. IInv => AssembledOnce
    BY DEF IInv
<1> QED BY <1>1, PetsInvariant, PTL

\* A Pet that create() resolved with stays recorded, across crashes, and its
\* live registration carries the recorded name.
THEOREM CreatedPetsAreKept == Spec => []CreatedIsKept
<1>1. IInv => CreatedIsKept
    BY DEF IInv
<1> QED BY <1>1, PetsInvariant, PTL

\* close() leaves no runtime open, whatever was accepted before it.
THEOREM CloseIsComplete == Spec => []CloseLeavesNothing
<1>1. IInv => CloseLeavesNothing
    BY DEF IInv, CloseInv, CloseLeavesNothing
<1> QED BY <1>1, PetsInvariant, PTL

-----------------------------------------------------------------------------
\* Records and runtimes agree as long as deletePet does not fail.

\* The records and the runtimes agree, whatever has failed.
Agree ==
    restored = "done" /\ closer \in {"none", "waiting"} =>
        \A p \in rows \ live :
            \E r \in Creates : PetOf[r] = p /\ at[r] \in {"build", "delete"}

\* While a step leaves the records and the runtimes alone, it is enough that
\* a creation that was recorded still is one.
LEMMA RecordsUntouched ==
    ASSUME Agree, UNCHANGED <<rows, live>>,
           restored' = "done" => restored = "done",
           closer' \in {"none", "waiting"} => closer \in {"none", "waiting"},
           \A r \in Creates : at[r] \in {"build", "delete"} => at'[r] \in {"build", "delete"}
    PROVE Agree'
    BY DEF Agree

LEMMA RecordsPreserved ==
    ASSUME lostDeletes' = 0, IInv, Agree, [Next]_vars
    PROVE Agree'
<1> USE PetsAssumption DEF IInv, Jobs, Creates, Steps, Ends, Active
<1>0. at \in [Jobs -> {"new"} \cup Steps \cup Ends]
    BY DEF TypeOK
<1>1. ASSUME NEW r \in Requests, Request(r) PROVE Agree'
    BY <1>0, <1>1, RecordsUntouched DEF Request, Serialize, records, runtimes, closing
<1>2. CASE Restore
    BY <1>0, <1>2, RecordsUntouched DEF Restore, Serialize, records, runtimes, closing
<1>3. CASE RestoreBegins
    BY <1>0, <1>3, RecordsUntouched
    DEF RestoreBegins, MoveTo, Running, records, runtimes, closing
<1>4. ASSUME NEW j \in Jobs, ListPets(j) PROVE Agree'
    BY <1>0, <1>4, RecordsUntouched DEF ListPets, MoveTo, Running, records, runtimes, closing
<1>5. ASSUME NEW j \in Jobs, RestorePet(j) PROVE Agree'
  <2>1. /\ restored = "pending" /\ UNCHANGED rows
        /\ todo = {[pet |-> p, name |-> named[p]] : p \in rows \ live}
      BY <1>5 DEF RestorePet, Running, RestoreInv, records
  <2>2. CASE UNCHANGED restored
    <3>1. live' \subseteq rows
        BY <1>5, StepPreserves, <2>1 DEF Next, JobStep
    <3> QED BY <2>1, <2>2, <3>1 DEF Agree
  <2>3. CASE RestoreEnds(j, "failed") /\ UNCHANGED runtimes
      BY <2>1, <2>3 DEF RestoreEnds, Agree, runtimes
  <2>4. CASE RestoreEnds(j, "done") /\ UNCHANGED runtimes /\ todo = {}
    <3>1. rows \ live = {}
        BY <2>1, <2>4
    <3> QED BY <2>1, <2>4, <3>1 DEF Agree, runtimes
  <2> QED BY <1>5, <2>2, <2>3, <2>4 DEF RestorePet
<1>6. ASSUME NEW r \in Creates, CreateBegins(r) PROVE Agree'
    BY <1>0, <1>6, RecordsUntouched DEF CreateBegins, MoveTo, Running, records, runtimes, closing
<1>7. ASSUME NEW r \in Creates, CreateRecords(r) PROVE Agree'
  <2>1. CASE restored = "failed" \/ PetOf[r] \in rows
      BY <1>0, <1>7, <2>1, RecordsUntouched
      DEF CreateRecords, Settle, Running, records, runtimes, closing
  <2>2. CASE ~(restored = "failed" \/ PetOf[r] \in rows)
    <3>1. /\ rows' = rows \cup {PetOf[r]} /\ at' = [at EXCEPT ![r] = "build"]
          /\ at[r] = "join" /\ UNCHANGED <<live, restored, closer>>
        BY <1>7, <2>2 DEF CreateRecords, MoveTo, Running, runtimes, closing
    <3> QED BY <1>0, <3>1 DEF Agree
  <2> QED BY <2>1, <2>2
<1>8. ASSUME NEW r \in Creates, CreateAssembles(r) \/ CreateUndoes(r)
      PROVE Agree'
  <2>1. \A s \in Creates : at[s] \in {"build", "delete"} => s = r
      BY <1>8 DEF OneRuns, CreateAssembles, CreateUndoes, Running
  <2>2. /\ restored = "done" /\ PetOf[r] \in rows \ live
        /\ closer \in {"none", "waiting"}
      BY <1>8 DEF RestoreInv, CloseInv, TypeOK, CreateAssembles, CreateUndoes, Running
  <2>3. rows = live \cup {PetOf[r]}
      BY <2>1, <2>2 DEF Agree
  <2>4. CASE /\ GoLive([pet |-> PetOf[r], name |-> r]) /\ UNCHANGED records
      BY <2>3, <2>4 DEF GoLive, records, Agree
  <2>5. CASE MoveTo(r, "delete") /\ UNCHANGED <<records, runtimes>>
      BY <1>0, <2>3, <2>5 DEF MoveTo, records, runtimes, Agree
  <2>6. CASE rows' = rows \ {PetOf[r]} /\ UNCHANGED live
      BY <2>2, <2>3, <2>6 DEF Agree
  <2>7. lostDeletes' # lostDeletes + 1
      BY DEF TypeOK
  <2> QED BY <1>8, <2>4, <2>5, <2>6, <2>7 DEF CreateAssembles, CreateUndoes, runtimes
<1>9. ASSUME NEW r \in Requests, RenameRecords(r) \/ RenameShows(r)
      PROVE Agree'
    BY <1>0, <1>9, RecordsUntouched
    DEF RenameRecords, RenameShows, MoveTo, Settle, Running, records, runtimes, closing
<1>10. CASE Close \/ CloseStep
  <2>1. CASE Close
      BY <2>1, RecordsUntouched DEF Close, CloseInv, records, runtimes
  <2>2. CASE CloseTakes
      BY <2>2 DEF CloseTakes, CloseTakesNow, Agree
  <2>3. CASE RuntimeCloses
      BY <2>3 DEF RuntimeCloses, records, Agree
  <2> QED BY <1>10, <2>1, <2>2, <2>3 DEF CloseStep
<1>11. CASE Restart
    BY <1>11 DEF Restart, Agree, records
<1>12. CASE UNCHANGED vars
    BY <1>12, RecordsUntouched DEF vars, records, runtimes, closing
<1> QED
    BY <1>1, <1>2, <1>3, <1>4, <1>5, <1>6, <1>7, <1>8, <1>9, <1>10, <1>11, <1>12
    DEF Next, JobStep, CreateStep

\* A deletePet that failed has failed for good.
LEMMA LostIsLost ==
    ASSUME TypeOK, [Next]_vars, lostDeletes' = 0 PROVE lostDeletes = 0
<1>1. ASSUME NEW r \in Creates, CreateUndoes(r) PROVE lostDeletes = 0
    BY <1>1 DEF CreateUndoes, TypeOK
<1>2. ASSUME NEW r \in Creates, CreateBegins(r) \/ CreateRecords(r) \/ CreateAssembles(r)
      PROVE UNCHANGED lostDeletes
    BY <1>2 DEF CreateBegins, CreateRecords, CreateAssembles, bounds
<1>3. ASSUME NEW r \in Requests, Request(r) \/ RenameRecords(r) \/ RenameShows(r)
      PROVE UNCHANGED lostDeletes
    BY <1>3 DEF Request, RenameRecords, RenameShows, bounds
<1>4. ASSUME NEW j \in Jobs, ListPets(j) \/ RestorePet(j) PROVE UNCHANGED lostDeletes
    BY <1>4 DEF ListPets, RestorePet, bounds
<1>5. CASE Restore \/ RestoreBegins \/ Close \/ CloseStep \/ Restart \/ UNCHANGED vars
    BY <1>5 DEF Restore, RestoreBegins, Close, CloseStep, CloseTakes, CloseTakesNow,
                RuntimeCloses, Restart, vars, bounds
<1> QED BY <1>1, <1>2, <1>3, <1>4, <1>5 DEF Next, JobStep, CreateStep

\* Studio serves only recorded Pets, and unless a deletePet has failed it
\* serves, once they are restored, every recorded Pet that no create() has in
\* hand, across crashes ("A Pet that never ran leaves no history",
\* studioPets.ts:157).
THEOREM RecordsAreServed == Spec => []RecordsMatchRuntimes
<1> DEFINE Served == lostDeletes = 0 => Agree
<1>1. Init => Served
    BY DEF Init, Agree
<1>2. IInv /\ Served /\ [Next]_vars => Served'
    BY RecordsPreserved, LostIsLost DEF IInv
<1>3. IInv /\ Served => RecordsMatchRuntimes
    BY DEF IInv, Agree, RecordsMatchRuntimes
<1> HIDE DEF Served
<1> QED BY <1>1, <1>2, <1>3, PetsInvariant, PTL DEF Spec

\* Studio serves what is recorded, once, across failures and crashes.
THEOREM RecordedPetsAreServedOnce == Spec => []ServedAsRecorded
<1> QED BY NeverAssembledTwice, RecordsAreServed, PTL DEF ServedAsRecorded
=============================================================================
