------------------------------- MODULE MasterKey -------------------------------
(***************************************************************************)
(* SecretStore::load_or_create of src/src/secrets.rs, run by every process *)
(* that calls AppState::initialize: the service, and any command of the    *)
(* user CLI, over one data directory at the same time.  The key file is    *)
(* looked for, migrated from its legacy name, read, or created and then    *)
(* written: each file-system call is a step, and a process may fail or die *)
(* between two of them.  On Windows there is no legacy name: then the two  *)
(* steps of the migration find nothing.                                    *)
(***************************************************************************)
EXTENDS Naturals

CONSTANTS
    Procs,      \* processes
    Keys,       \* 32-byte keys; random, so each is drawn once
    Absent,     \* no such file
    Torn,       \* a file whose bytes do not unprotect to 32 bytes
    MaxFaults   \* bound: failing calls and deaths while loading

ASSUME MasterKeyAssumption ==
    /\ Absent \notin Keys /\ Torn \notin Keys /\ Absent # Torn
    /\ MaxFaults \in Nat

VARIABLES
    path,       \* the key file: Absent, Torn, or the key it holds
    legacy,     \* the file under the legacy name
    pc,         \* what each process does next
    key,        \* the key each process holds, or Absent
    drawn,      \* keys drawn so far
    secrets,    \* the keys under which stored credentials are encrypted
    faults      \* auxiliary: failing calls and deaths so far

vars == <<path, legacy, pc, key, drawn, secrets, faults>>

Labels == {"off", "look", "look_legacy", "rename", "look_again", "read",
           "create", "write", "running"}

Loading(p) == pc[p] \notin {"off", "running"}

\* The types; a process holds a key from the moment it draws or reads it.
TypeOK ==
    /\ path \in Keys \cup {Absent, Torn}
    /\ legacy \in Keys \cup {Absent}
    /\ pc \in [Procs -> Labels]
    /\ key \in [Procs -> Keys \cup {Absent}]
    /\ \A p \in Procs :
          /\ pc[p] \in {"create", "write", "running"} => key[p] # Absent
          /\ key[p] # Absent => key[p] \in drawn
    /\ drawn \subseteq Keys
    /\ secrets \subseteq drawn
    /\ faults \in 0 .. MaxFaults

\* A new installation, or one whose key still has the legacy name.
Init ==
    /\ path = Absent
    /\ legacy \in Keys \cup {Absent}
    /\ drawn = {legacy} \ {Absent}
    /\ secrets = drawn
    /\ pc = [p \in Procs |-> "off"]
    /\ key = [p \in Procs |-> Absent]
    /\ faults = 0

-------------------------------------------------------------------------------

Goes(p, next) == pc' = [pc EXCEPT ![p] = next]
Ends(p) == Goes(p, "off") /\ key' = [key EXCEPT ![p] = Absent]

Start(p) ==
    /\ pc[p] = "off"
    /\ Goes(p, "look")
    /\ UNCHANGED <<path, legacy, key, drawn, secrets, faults>>

Look(p) ==
    /\ pc[p] = "look"
    /\ Goes(p, IF path = Absent THEN "look_legacy" ELSE "look_again")
    /\ UNCHANGED <<path, legacy, key, drawn, secrets, faults>>

LegacyIgnored(p) ==
    /\ pc[p] = "look_legacy"
    /\ Goes(p, "look_again")
    /\ UNCHANGED <<path, legacy, key, drawn, secrets, faults>>

LookLegacy(p) ==
    /\ pc[p] = "look_legacy"
    /\ Goes(p, IF legacy = Absent THEN "look_again" ELSE "rename")
    /\ UNCHANGED <<path, legacy, key, drawn, secrets, faults>>

\* fs::rename replaces an existing file, and fails when its source is gone.
Rename(p) ==
    /\ pc[p] = "rename"
    /\ IF legacy = Absent
       THEN Ends(p) /\ UNCHANGED <<path, legacy>>
       ELSE /\ path' = legacy /\ legacy' = Absent
            /\ Goes(p, "look_again") /\ UNCHANGED key
    /\ UNCHANGED <<drawn, secrets, faults>>

LookAgain(p) ==
    /\ pc[p] = "look_again"
    /\ \/ /\ path # Absent
          /\ Goes(p, "read")
          /\ UNCHANGED <<key, drawn>>
       \/ /\ path = Absent
          /\ \E k \in Keys \ drawn :
                /\ key' = [key EXCEPT ![p] = k]
                /\ drawn' = drawn \cup {k}
          /\ Goes(p, "create")
    /\ UNCHANGED <<path, legacy, secrets, faults>>

ReadUnchecked(p) ==
    /\ pc[p] = "read"
    /\ Goes(p, "running") /\ key' = [key EXCEPT ![p] = path]
    /\ UNCHANGED <<path, legacy, drawn, secrets, faults>>

\* A file that does not hold 32 bytes is an error, not a key.
Read(p) ==
    /\ pc[p] = "read"
    /\ IF path \in Keys
       THEN Goes(p, "running") /\ key' = [key EXCEPT ![p] = path]
       ELSE Ends(p)
    /\ UNCHANGED <<path, legacy, drawn, secrets, faults>>

\* O_CREAT without O_EXCL.
CreateOrTruncate(p) ==
    /\ pc[p] = "create"
    /\ path' = Torn
    /\ Goes(p, "write")
    /\ UNCHANGED <<legacy, key, drawn, secrets, faults>>

\* create_new(true): the file must not exist yet.
Create(p) ==
    /\ pc[p] = "create"
    /\ IF path = Absent
       THEN path' = Torn /\ Goes(p, "write") /\ UNCHANGED key
       ELSE Ends(p) /\ UNCHANGED path
    /\ UNCHANGED <<legacy, drawn, secrets, faults>>

\* write_all to the open file; flush has nothing to do for a File.
Write(p) ==
    /\ pc[p] = "write"
    /\ path' = key[p]
    /\ Goes(p, "running")
    /\ UNCHANGED <<legacy, key, drawn, secrets, faults>>

\* encrypt and upsert_secret.
Encrypt(p) ==
    /\ pc[p] = "running"
    /\ secrets' = secrets \cup {key[p]}
    /\ UNCHANGED <<path, legacy, pc, key, drawn, faults>>

Stop(p) ==
    /\ pc[p] = "running"
    /\ Ends(p)
    /\ UNCHANGED <<path, legacy, drawn, secrets, faults>>

\* A call returns an error, or the process dies: what it wrote stays.
Fail(p) ==
    /\ Loading(p)
    /\ faults < MaxFaults /\ faults' = faults + 1
    /\ Ends(p)
    /\ UNCHANGED <<path, legacy, drawn, secrets>>

-------------------------------------------------------------------------------

Next ==
    \E p \in Procs :
        \/ Start(p) \/ Look(p) \/ LookLegacy(p) \/ Rename(p) \/ LookAgain(p)
        \/ Read(p) \/ Create(p) \/ Write(p) \/ Encrypt(p) \/ Stop(p) \/ Fail(p)

Spec == Init /\ [][Next]_vars

-------------------------------------------------------------------------------
(* Properties.                                                             *)

\* Whatever processes start at the same time, those that come up hold the key
\* in the file: a key that is still being written is never taken for one.
OneKey == \A p \in Procs : pc[p] = "running" => key[p] = path

\* Every stored credential can be decrypted with the key on disk, also when it
\* still has its legacy name.
SecretsReadable ==
    secrets \subseteq {path} \/ (path = Absent /\ secrets \subseteq {legacy})

\* "The master key remains unchanged" (README.en.md): once written it is never
\* replaced, and a legacy key becomes the key.
KeyIsKept ==
    [][/\ path \in Keys => path' = path
       /\ legacy # Absent => legacy \in {legacy', path'}]_vars
================================================================================
