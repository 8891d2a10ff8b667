---------------------------- MODULE MasterKeyProofs ----------------------------
(***************************************************************************)
(* One key per data directory, for every number of processes starting,     *)
(* failing and stopping.  The strengthening says who may be where: while   *)
(* the legacy file is there nobody got past its migration, and the process *)
(* that is writing is alone, over a file that is still torn.               *)
(***************************************************************************)
EXTENDS MasterKey, TLAPS

USE MasterKeyAssumption

\* While the legacy file exists, it is the only key file there is.
LegacyFirst ==
    legacy # Absent =>
        /\ path = Absent
        /\ \A p \in Procs : pc[p] \in {"off", "look", "look_legacy", "rename"}

\* A process that writes is the only one, and the file is torn until it has.
OneWriter ==
    /\ \A p \in Procs : pc[p] = "write" => path = Torn
    /\ \A p, q \in Procs : pc[p] = "write" /\ pc[q] = "write" => p = q

\* A key on disk was drawn by some process or came with the installation.
PathDrawn == {path, legacy} \ {Absent, Torn} \subseteq drawn

IInv == TypeOK /\ LegacyFirst /\ OneWriter /\ PathDrawn /\ OneKey /\ SecretsReadable

\* The initial states satisfy the strengthening.
LEMMA InitEstablishes == Init => IInv
<1> SUFFICES ASSUME Init PROVE IInv
  OBVIOUS
<1>1. TypeOK
  BY DEF Init, TypeOK, Labels
<1>2. LegacyFirst /\ OneWriter /\ PathDrawn /\ OneKey /\ SecretsReadable
  BY DEF Init, LegacyFirst, OneWriter, PathDrawn, OneKey, SecretsReadable
<1> QED BY <1>1, <1>2 DEF IInv

\* A process that moves on within loading, without touching a file or a key.
LEMMA QuietStep ==
    ASSUME IInv, NEW p \in Procs, NEW next \in Labels \ {"create", "write", "running"},
           Goes(p, next), UNCHANGED <<path, legacy, key, drawn, secrets, faults>>,
           legacy # Absent => next \in {"off", "look", "look_legacy", "rename"}
    PROVE  IInv'
<1>1. TypeOK'
  BY DEF IInv, TypeOK, Goes
<1>2. LegacyFirst'
  BY DEF IInv, TypeOK, LegacyFirst, Goes
<1>3. OneWriter' /\ PathDrawn' /\ OneKey' /\ SecretsReadable'
  BY DEF IInv, TypeOK, OneWriter, PathDrawn, OneKey, SecretsReadable, Goes
<1> QED BY <1>1, <1>2, <1>3 DEF IInv

\* A process that stops, fails or dies lets go of its key.
LEMMA EndStep ==
    ASSUME IInv, NEW p \in Procs, Ends(p), faults' \in 0 .. MaxFaults,
           UNCHANGED <<path, legacy, drawn, secrets>>
    PROVE  IInv'
<1>1. TypeOK'
  BY DEF IInv, TypeOK, Ends, Goes, Labels
<1>2. LegacyFirst'
  BY DEF IInv, TypeOK, LegacyFirst, Ends, Goes
<1>3. OneWriter' /\ PathDrawn' /\ OneKey' /\ SecretsReadable'
  BY DEF IInv, TypeOK, OneWriter, PathDrawn, OneKey, SecretsReadable, Ends, Goes
<1> QED BY <1>1, <1>2, <1>3 DEF IInv

\* Every step keeps the strengthening.
LEMMA NextKeeps ==
    ASSUME IInv, [Next]_vars
    PROVE  IInv'
<1> USE DEF IInv
<1>1. ASSUME NEW p \in Procs, Start(p) \/ Look(p) \/ LookLegacy(p) PROVE IInv'
  <2>1. PICK next \in Labels \ {"create", "write", "running"} :
           /\ Goes(p, next)
           /\ legacy # Absent => next \in {"off", "look", "look_legacy", "rename"}
    BY <1>1 DEF Start, Look, LookLegacy, LegacyFirst, Labels
  <2> QED BY <1>1, <2>1, QuietStep DEF Start, Look, LookLegacy
<1>2. ASSUME NEW p \in Procs, Rename(p) PROVE IInv'
  <2>1. CASE legacy = Absent
    <3>1. Ends(p) /\ UNCHANGED <<path, legacy, drawn, secrets>>
      BY <1>2, <2>1 DEF Rename
    <3>2. faults' \in 0 .. MaxFaults
      BY <1>2 DEF Rename, TypeOK
    <3> QED BY <3>1, <3>2, EndStep
  <2>2. CASE legacy # Absent
    <3>1. /\ path = Absent /\ path' = legacy /\ legacy' = Absent
          /\ Goes(p, "look_again")
          /\ UNCHANGED <<key, drawn, secrets, faults>>
      BY <1>2, <2>2 DEF Rename, LegacyFirst
    <3>2. TypeOK'
      BY <3>1, <2>2 DEF TypeOK, Goes, Labels
    <3>3. LegacyFirst' /\ OneWriter' /\ PathDrawn'
      BY <3>1, <2>2 DEF LegacyFirst, OneWriter, PathDrawn, Goes, TypeOK
    <3>4. OneKey' /\ SecretsReadable'
      BY <3>1, <2>2 DEF LegacyFirst, OneKey, SecretsReadable, Goes, TypeOK
    <3> QED BY <3>2, <3>3, <3>4
  <2> QED BY <2>1, <2>2
<1>3. ASSUME NEW p \in Procs, LookAgain(p) PROVE IInv'
  <2>0. legacy = Absent
    BY <1>3 DEF LookAgain, LegacyFirst
  <2>1. CASE path # Absent
    BY <1>3, <2>0, <2>1, QuietStep DEF LookAgain, Labels
  <2>2. CASE path = Absent
    <3>1. PICK k \in Keys \ drawn :
             key' = [key EXCEPT ![p] = k] /\ drawn' = drawn \cup {k}
      BY <1>3, <2>2 DEF LookAgain
    <3>2. Goes(p, "create") /\ UNCHANGED <<path, legacy, secrets, faults>>
      BY <1>3, <2>2 DEF LookAgain
    <3>3. TypeOK'
      BY <3>1, <3>2 DEF TypeOK, Goes, Labels
    <3>4. LegacyFirst' /\ OneWriter' /\ PathDrawn' /\ SecretsReadable'
      BY <2>0, <3>1, <3>2 DEF PathDrawn, LegacyFirst, OneWriter, SecretsReadable, Goes, TypeOK
    <3>5. OneKey'
      BY <3>1, <3>2 DEF OneKey, Goes, TypeOK
    <3> QED BY <3>3, <3>4, <3>5
  <2> QED BY <2>1, <2>2
<1>4. ASSUME NEW p \in Procs, Read(p) PROVE IInv'
  <2>0. legacy = Absent
    BY <1>4 DEF Read, LegacyFirst
  <2>1. CASE path \in Keys
    <3>1. /\ Goes(p, "running") /\ key' = [key EXCEPT ![p] = path]
          /\ UNCHANGED <<path, legacy, drawn, secrets, faults>>
      BY <1>4, <2>1 DEF Read
    <3>2. path \in drawn
      BY <2>1, <2>0 DEF PathDrawn
    <3>3. TypeOK'
      BY <2>1, <3>1, <3>2 DEF TypeOK, Goes, Labels
    <3>4. LegacyFirst' /\ OneWriter' /\ PathDrawn' /\ SecretsReadable'
      BY <2>0, <3>1 DEF PathDrawn, LegacyFirst, OneWriter, SecretsReadable, Goes, TypeOK
    <3>5. OneKey'
      BY <3>1 DEF OneKey, Goes, TypeOK
    <3> QED BY <3>3, <3>4, <3>5
  <2>2. CASE path \notin Keys
    <3>1. Ends(p) /\ UNCHANGED <<path, legacy, drawn, secrets>>
      BY <1>4, <2>2 DEF Read
    <3>2. faults' \in 0 .. MaxFaults
      BY <1>4 DEF Read, TypeOK
    <3> QED BY <3>1, <3>2, EndStep
  <2> QED BY <2>1, <2>2
<1>5. ASSUME NEW p \in Procs, Create(p) PROVE IInv'
  <2>0. legacy = Absent
    BY <1>5 DEF Create, LegacyFirst
  <2>1. CASE path = Absent
    <3>1. /\ path' = Torn /\ Goes(p, "write")
          /\ UNCHANGED <<legacy, key, drawn, secrets, faults>>
      BY <1>5, <2>1 DEF Create
    <3>2. key[p] # Absent
      BY <1>5 DEF Create, TypeOK
    <3>3. TypeOK'
      BY <3>1, <3>2 DEF TypeOK, Goes, Labels
    <3>4. LegacyFirst' /\ OneWriter' /\ PathDrawn'
      BY <2>0, <2>1, <3>1 DEF PathDrawn, LegacyFirst, OneWriter, Goes, TypeOK
    <3>5. OneKey' /\ SecretsReadable'
      BY <2>0, <2>1, <3>1 DEF OneKey, SecretsReadable, Goes, TypeOK
    <3> QED BY <3>3, <3>4, <3>5
  <2>2. CASE path # Absent
    <3>1. Ends(p) /\ UNCHANGED <<path, legacy, drawn, secrets>>
      BY <1>5, <2>2 DEF Create
    <3>2. faults' \in 0 .. MaxFaults
      BY <1>5 DEF Create, TypeOK
    <3> QED BY <3>1, <3>2, EndStep
  <2> QED BY <2>1, <2>2
<1>6. ASSUME NEW p \in Procs, Write(p) PROVE IInv'
  <2>0. /\ legacy = Absent /\ path = Torn /\ key[p] \in Keys
        /\ path' = key[p] /\ Goes(p, "running")
        /\ UNCHANGED <<legacy, key, drawn, secrets, faults>>
    BY <1>6 DEF Write, LegacyFirst, OneWriter, TypeOK
  <2>1. TypeOK'
    BY <2>0 DEF TypeOK, Goes, Labels
  <2>2. LegacyFirst' /\ OneWriter' /\ PathDrawn'
    BY <2>0, <1>6 DEF PathDrawn, LegacyFirst, OneWriter, Goes, TypeOK, Write
  <2>3. OneKey' /\ SecretsReadable'
    BY <2>0 DEF OneKey, SecretsReadable, Goes, TypeOK
  <2> QED BY <2>1, <2>2, <2>3
<1>7. ASSUME NEW p \in Procs, Encrypt(p) PROVE IInv'
  <2>1. TypeOK'
    BY <1>7 DEF Encrypt, TypeOK
  <2>2. LegacyFirst' /\ OneWriter' /\ PathDrawn' /\ OneKey'
    BY <1>7 DEF Encrypt, PathDrawn, LegacyFirst, OneWriter, OneKey
  <2>3. key[p] = path /\ path # Absent
    BY <1>7 DEF Encrypt, OneKey, TypeOK
  <2>4. SecretsReadable'
    BY <1>7, <2>3 DEF Encrypt, SecretsReadable
  <2> QED BY <2>1, <2>2, <2>4
<1>8. ASSUME NEW p \in Procs, Stop(p) \/ Fail(p) PROVE IInv'
  <2>1. Ends(p) /\ UNCHANGED <<path, legacy, drawn, secrets>>
    BY <1>8 DEF Stop, Fail
  <2>2. faults' \in 0 .. MaxFaults
    BY <1>8 DEF Stop, Fail, TypeOK
  <2> QED BY <2>1, <2>2, EndStep
<1>9. CASE UNCHANGED vars
  BY <1>9 DEF vars, PathDrawn, TypeOK, LegacyFirst, OneWriter, OneKey, SecretsReadable
<1> QED BY <1>1, <1>2, <1>3, <1>4, <1>5, <1>6, <1>7, <1>8, <1>9 DEF Next

\* The strengthening holds in every reachable state.
LEMMA InvariantHolds == Spec => []IInv
BY InitEstablishes, NextKeeps, PTL DEF Spec

\* The types hold for every number of processes, keys and failures.
THEOREM TypeCorrect == Spec => []TypeOK
BY InvariantHolds, PTL DEF IInv

\* For every number of processes, keys and failures: the processes that came
\* up hold the key in the file (exists, read and create_new in any order).
THEOREM OneKeyHeld == Spec => []OneKey
BY InvariantHolds, PTL DEF IInv

\* For every number of processes, keys and failures: every stored credential
\* can be decrypted with the key on disk.
THEOREM SecretsStayReadable == Spec => []SecretsReadable
BY InvariantHolds, PTL DEF IInv

\* For every number of processes, keys and failures: a key that is on disk
\* stays there, a legacy key under its new name.
THEOREM KeyStays == Spec => KeyIsKept
<1>1. IInv /\ [Next]_vars =>
        [/\ path \in Keys => path' = path
         /\ legacy # Absent => legacy \in {legacy', path'}]_vars
  <2> SUFFICES ASSUME IInv, Next
               PROVE  /\ path \in Keys => path' = path
                      /\ legacy # Absent => legacy \in {legacy', path'}
    OBVIOUS
  <2>1. PICK p \in Procs :
           \/ UNCHANGED <<path, legacy>>
           \/ Rename(p) \/ Create(p) \/ Write(p)
    BY DEF Next, Start, Look, LookLegacy, LookAgain, Read, Encrypt, Stop, Fail
  <2> QED
    BY <2>1 DEF Rename, Create, Write, IInv, LegacyFirst, OneWriter
<1> QED BY <1>1, InvariantHolds, PTL DEF Spec, KeyIsKept

\* A file without a key in it is one that is being written, unless a process
\* failed or died.
TornHasCause == path = Torn => faults > 0 \/ \E p \in Procs : pc[p] = "write"

\* For every number of processes and keys: as long as no call fails and no process
\* dies, a start never finds a file without a key but while another one writes
\* it (create_new, then write_all).
THEOREM TornKeyHasCause == Spec => []TornHasCause
<1>1. Init => TornHasCause
  BY DEF Init, TornHasCause
<1>2. ASSUME IInv, [Next]_vars, TornHasCause
      PROVE  TornHasCause'
  <2>0. pc \in [Procs -> Labels] /\ faults \in Nat
    BY <1>2 DEF IInv, TypeOK
  <2>1. ASSUME NEW p \in Procs, Create(p), path = Absent
        PROVE  TornHasCause'
    BY <2>0, <2>1 DEF TornHasCause, Create, Goes
  <2>2. ASSUME NEW p \in Procs, Write(p) \/ (Rename(p) /\ legacy # Absent)
        PROVE  TornHasCause'
    <3>1. path' \in Keys
      BY <1>2, <2>2 DEF IInv, TypeOK, Write, Rename
    <3> QED BY <3>1 DEF TornHasCause
  <2>3. ASSUME NEW p \in Procs, Fail(p)
        PROVE  TornHasCause'
    BY <2>0, <2>3 DEF TornHasCause, Fail
  <2>4. ASSUME NEW p \in Procs, pc[p] # "write", UNCHANGED <<path, faults>>,
               NEW next, pc' = [pc EXCEPT ![p] = next]
        PROVE  TornHasCause'
    BY <1>2, <2>0, <2>4 DEF TornHasCause
  <2>5. ASSUME NEW p \in Procs,
               \/ Start(p) \/ Look(p) \/ LookLegacy(p) \/ LookAgain(p) \/ Read(p)
               \/ Stop(p) \/ (Rename(p) /\ legacy = Absent)
               \/ (Create(p) /\ path # Absent)
        PROVE  TornHasCause'
    <3>1. /\ pc[p] # "write" /\ UNCHANGED <<path, faults>>
          /\ \E next : pc' = [pc EXCEPT ![p] = next]
      BY <2>5 DEF Start, Look, LookLegacy, LookAgain, Read, Stop, Rename, Create,
         Ends, Goes
    <3> QED BY <2>4, <3>1
  <2>6. ASSUME UNCHANGED <<path, pc, faults>>
        PROVE  TornHasCause'
    BY <1>2, <2>6 DEF TornHasCause
  <2> QED BY <1>2, <2>1, <2>2, <2>3, <2>5, <2>6 DEF Next, Encrypt, vars
<1> QED BY <1>1, <1>2, InvariantHolds, PTL DEF Spec

\* The file has no key and nobody is writing it.
Abandoned == path = Torn /\ \A p \in Procs : pc[p] # "write"

StaysDown ==
    /\ Abandoned'
    /\ \A p \in Procs : pc'[p] # "running"
    /\ UNCHANGED <<drawn, secrets>>

\* The price of create_new: after a writer has failed or died the file stays
\* without a key, whatever is started afterwards.  No process comes up, and none
\* draws a second key over the credentials of a first one.
THEOREM AbandonedStaysDown == Spec => [][Abandoned => StaysDown]_vars
<1>1. ASSUME IInv, Next, Abandoned
      PROVE  StaysDown
  <2>0. /\ pc \in [Procs -> Labels] /\ path = Torn /\ legacy = Absent
        /\ key \in [Procs -> Keys \cup {Absent}]
        /\ \A p \in Procs : pc[p] \notin {"write", "running"}
    BY <1>1 DEF IInv, TypeOK, LegacyFirst, Abandoned, OneKey
  <2>1. PICK p \in Procs :
          \/ Start(p) \/ Look(p) \/ LookLegacy(p) \/ Rename(p) \/ LookAgain(p)
          \/ Read(p) \/ Create(p) \/ Write(p) \/ Encrypt(p) \/ Stop(p) \/ Fail(p)
    BY <1>1 DEF Next
  <2>2. path' = Torn /\ UNCHANGED <<drawn, secrets>>
    BY <2>0, <2>1 DEF Start, Look, LookLegacy, Rename, LookAgain, Read, Create, Write,
       Encrypt, Stop, Fail
  <2>3. \E next \in Labels \ {"write", "running"} : Goes(p, next)
    BY <2>0, <2>1 DEF Start, Look, LookLegacy, Rename, LookAgain, Read, Create, Write,
       Encrypt, Stop, Fail, Ends, Labels
  <2>4. \A q \in Procs : pc'[q] \notin {"write", "running"}
    BY <2>0, <2>3 DEF Goes
  <2> QED BY <2>2, <2>4 DEF Abandoned, StaysDown
<1>2. IInv /\ [Next]_vars => [Abandoned => StaysDown]_vars
  BY <1>1
<1> QED BY <1>2, InvariantHolds, PTL DEF Spec
================================================================================
