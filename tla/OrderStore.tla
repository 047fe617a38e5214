---- MODULE OrderStore ----
(***************************************************************************)
(* The order store: a map in memory, and the JSON snapshot that every      *)
(* mutation rewrites in place (fs::write truncates, then writes).          *)
(*                                                                         *)
(*   memory  status of every order of the running process                  *)
(*   disk    the last complete snapshot                                    *)
(*   torn    the file no longer holds that snapshot, but a truncated one   *)
(*   up      a process is running                                          *)
(***************************************************************************)
EXTENDS OrderStatus

CONSTANTS Orders,       \* the order ids that callers submit
          Persistent,   \* the store has a persist_path
          IoErrors,     \* writing the snapshot may fail
          TornWrites    \* an interrupted write may leave a truncated file

ASSUME StoreAssumption ==
  /\ Persistent \in BOOLEAN
  /\ IoErrors   \in BOOLEAN
  /\ TornWrites \in BOOLEAN

VARIABLES memory, disk, torn, up

storeVars == <<memory, disk, torn, up>>

Empty == [o \in Orders |-> At(NoOrder)]

StoreInit == memory = Empty /\ disk = Empty /\ torn = FALSE /\ up = TRUE

\* The map is changed first; flush() runs on the changed map.
Put(o, s) == memory' = [memory EXCEPT ![o] = s] /\ UNCHANGED up

\* Fault: flush() runs before the map is changed.
FlushOkBeforePut == IF Persistent THEN disk' = memory /\ torn' = FALSE
                                  ELSE UNCHANGED <<disk, torn>>

FlushOk == IF Persistent THEN disk' = memory' /\ torn' = FALSE
                         ELSE UNCHANGED <<disk, torn>>

\* The write fails: memory keeps the change, the file its old contents, or
\* less than that when it had been truncated already.
FlushFails == /\ Persistent /\ IoErrors
              /\ UNCHANGED disk
              /\ torn' \in {torn, torn \/ TornWrites}

PendingIds == {o \in Orders : IsActive(memory[o].stage)}

\* The process is lost; inWrite when that happens inside flush().
StoreCrash(inWrite) ==
  /\ up /\ up' = FALSE
  /\ memory' = Empty
  /\ UNCHANGED disk
  /\ torn' \in {torn, torn \/ (Persistent /\ TornWrites /\ inWrite)}

\* A truncated file does not parse: the store cannot be opened at all.
WithPersistence == /\ ~up /\ ~torn
                   /\ up' = TRUE
                   /\ memory' = disk
                   /\ UNCHANGED <<disk, torn>>

StoreTypeOK == /\ memory \in [Orders -> StatusSet(Nat)]
               /\ disk   \in [Orders -> StatusSet(Nat)]
               /\ torn \in BOOLEAN
               /\ up   \in BOOLEAN

====
