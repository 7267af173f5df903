----------------------------- MODULE StateStore -----------------------------
(***************************************************************************)
(* The generation store (internal/state/store.go) at the level of files:   *)
(* one step per system call of Store.Write, with the agent dying, a call   *)
(* failing or power being lost between any two of them.                    *)
(*                                                                         *)
(* File system (external).  A rename is atomic and visible at once, and    *)
(* survives power loss for certain only after the next fsync of the        *)
(* directory; renames survive in the order they were made.  `views' is the *)
(* set of directories power loss may leave behind.  A file is known by the *)
(* generation written into it; it is complete, because its fsync precedes  *)
(* its rename, unless it decays later.                                     *)
(***************************************************************************)
EXTENDS Naturals, FiniteSets

CONSTANTS
  MaxWrites,       \* bound: number of generations written
  MaxCorruptions   \* bound: number of files that decay

ASSUME StoreAssumption == MaxWrites \in Nat /\ MaxCorruptions \in Nat

Missing == 0

VARIABLES
  dir,     \* the generations in current and previous as the process sees them
  views,   \* what power loss may leave of them
  bad,     \* generations whose file no longer passes its checksum
  pc,      \* where Store.Write is
  gen,     \* the generation being written, or the latest one written
  acked,   \* the generation known to be durable
  tried    \* generations begun and not acknowledged since

svars == <<dir, views, bad, pc, gen, acked, tried>>

-----------------------------------------------------------------------------
\* readAndValidate: the file exists and its checksum and semantics hold.
\* validateSemantic accepts what the engine writes (GenerationConsistent).
readAndValidate(g) == g # Missing /\ g \notin bad

\* Name_bug, here and below: Name with a plausible error, used by no module.
Load_previousFirst(d) ==
  IF readAndValidate(d.previous) THEN d.previous
  ELSE IF readAndValidate(d.current) THEN d.current
  ELSE Missing

\* Store.Load, Missing for ErrNoValidState.
Load(d) ==
  IF readAndValidate(d.current) THEN d.current
  ELSE IF readAndValidate(d.previous) THEN d.previous
  ELSE Missing

Rename(d) == dir' = d /\ views' = views \cup {d}

syncDir == views' = {dir} /\ UNCHANGED dir

-----------------------------------------------------------------------------
(* Store.Write *)

BeginWrite ==
  /\ pc = "idle" /\ gen < MaxWrites
  /\ gen' = gen + 1
  /\ tried' = tried \cup {gen + 1}
  /\ pc' = "temp"
  /\ UNCHANGED <<dir, views, bad, acked>>

\* The temporary file is written and fsynced under a name Load never opens.
WriteTemp ==
  /\ pc = "temp"
  /\ pc' = "rotate"
  /\ UNCHANGED <<dir, views, bad, gen, acked, tried>>

Rotate_unchecked ==
  /\ pc = "rotate"
  /\ IF dir.current # Missing
     THEN /\ Rename([current |-> Missing, previous |-> dir.current])
          /\ pc' = "syncRotated"
     ELSE /\ pc' = "activate"
          /\ UNCHANGED <<dir, views>>
  /\ UNCHANGED <<bad, gen, acked, tried>>

\* Only a valid current generation replaces the fallback.
Rotate ==
  /\ pc = "rotate"
  /\ IF readAndValidate(dir.current)
     THEN /\ Rename([current |-> Missing, previous |-> dir.current])
          /\ pc' = "syncRotated"
     ELSE /\ pc' = "activate"
          /\ UNCHANGED <<dir, views>>
  /\ UNCHANGED <<bad, gen, acked, tried>>

SyncRotated ==
  /\ pc = "syncRotated"
  /\ syncDir
  /\ pc' = "activate"
  /\ UNCHANGED <<bad, gen, acked, tried>>

Activate ==
  /\ pc = "activate"
  /\ Rename([dir EXCEPT !.current = gen])
  /\ pc' = "syncActive"
  /\ UNCHANGED <<bad, gen, acked, tried>>

\* The write returns without error.
SyncActive ==
  /\ pc = "syncActive"
  /\ syncDir
  /\ acked' = gen
  /\ tried' = {}
  /\ pc' = "idle"
  /\ UNCHANGED <<bad, gen>>

\* A call fails, or the agent is killed: the directory stays as it is.
WriteFails ==
  /\ pc # "idle"
  /\ pc' = "idle"
  /\ UNCHANGED <<dir, views, bad, gen, acked, tried>>

\* After power loss the agent runs on the generation Load finds.
PowerLoss ==
  /\ dir' \in views
  /\ views' = {dir'}
  /\ acked' = Load(dir')
  /\ tried' = {}
  /\ pc' = "idle"
  /\ UNCHANGED <<bad, gen>>

\* One of the two files at most decays at a time: current.json, while a valid
\* previous.json is in place.
CorruptCurrent ==
  /\ Cardinality(bad) < MaxCorruptions
  /\ readAndValidate(dir.current)
  /\ \A d \in views : readAndValidate(d.previous) /\ d.previous # dir.current
  /\ bad' = bad \cup {dir.current}
  /\ UNCHANGED <<dir, views, pc, gen, acked, tried>>

StoreInit ==
  /\ dir = [current |-> Missing, previous |-> Missing]
  /\ views = {dir}
  /\ bad = {}
  /\ pc = "idle"
  /\ gen = 0
  /\ acked = 0
  /\ tried = {}

StoreNext ==
  \/ BeginWrite \/ WriteTemp \/ Rotate \/ SyncRotated \/ Activate \/ SyncActive
  \/ WriteFails \/ PowerLoss \/ CorruptCurrent

StoreSpec == StoreInit /\ [][StoreNext]_svars

-----------------------------------------------------------------------------
(* Properties *)

\* store.go's comment on rotation: "a valid fallback generation is not
\* destroyed before the new current generation is atomically installed".  Once
\* a generation was acknowledged, Load always finds one, also when
\* current.json has decayed and writes fail or power is lost while a new one
\* is installed.
AlwaysLoadable ==
  acked # Missing => \A d \in views : Load(d) # Missing

\* The store implements the durable register the engine is built on: wherever
\* power is lost in Store.Write, after any number of failed writes, Load finds
\* the acknowledged generation or one begun after it.  As long as no file has
\* decayed; AlwaysLoadable says what is left when one has.
Register == INSTANCE DurableRegister WITH value <- acked, pending <- tried

ImplementsRegister ==
  Register!RegisterInit /\ [][bad' = {} => Register!RegisterNext]_<<acked, tried>>
=============================================================================
