--------------------------- MODULE TariffCatalogue ---------------------------
(* A tariff edited in the back office and read by its preview and by OCPI      *)
(* partners.  SupabaseTariffStore.update is a PATCH of the row, a DELETE of    *)
(* the components and one INSERT for each new one, a round trip each and no    *)
(* transaction; a read is two round trips.  InMemoryTariffStore does either at *)
(* once.  A saved version is a number; the row carries the version that named  *)
(* it and each component the version it was saved with.                        *)
EXTENDS Naturals, FiniteSets

CONSTANTS
    MaxVersion,   \* bound: saves
    Editors,      \* saves that may be under way at once
    Readers,      \* reads that may be under way at once
    TariffStores, \* the stores considered: "memory", "supabase"
    ComponentTypes\* the component types bodies are made of

ASSUME TariffCatalogueAssumption ==
    /\ MaxVersion \in Nat \ {0} /\ TariffStores \subseteq {"memory", "supabase"}
    /\ ComponentTypes \subseteq {"energy", "time", "flat", "idle"}

VARIABLES
    store,     \* which store the process was built with
    row,       \* version of the tariff row, 0 before it is created
    comps,     \* components in the table: [version, type]
    saves,     \* versions begun
    bodies,    \* what each version's body held
    edit,      \* the saves under way
    torn,      \* a save failed half-way or overlapped another, and none has completed alone since
    read       \* the reads under way

tcVars == <<store, row, comps, saves, bodies, edit, torn, read>>

NoEdit == [pc |-> "idle", version |-> 0, rest |-> {}, alone |-> FALSE]
NoRead == [pc |-> "idle", version |-> 0, comps |-> {}, undisturbed |-> TRUE]

TcTypeOK ==
    /\ store \in TariffStores /\ {row, saves} \subseteq 0..MaxVersion
    /\ comps \subseteq [version: 1..MaxVersion, type: ComponentTypes]
    /\ bodies \in [1..MaxVersion -> SUBSET ComponentTypes]
    /\ \A e \in Editors : edit[e].pc \in {"idle", "named", "cleared"} /\ edit[e].rest \subseteq ComponentTypes
    /\ torn \in BOOLEAN
    /\ \A k \in Readers : read[k].pc \in {"idle", "row", "done"} /\ read[k].comps \subseteq [version: 1..MaxVersion, type: ComponentTypes]

TcInit ==
    /\ store \in TariffStores
    /\ row = 0 /\ comps = {} /\ saves = 0 /\ torn = FALSE
    /\ bodies = [v \in 1..MaxVersion |-> {}]
    /\ edit = [e \in Editors |-> NoEdit]
    /\ read = [k \in Readers |-> NoRead]

------------------------------------------------------------------------------
Editing == {e \in Editors : edit[e] # NoEdit}
Disturbed == [k \in Readers |-> IF read[k].pc = "row" THEN [read[k] EXCEPT !.undisturbed = FALSE] ELSE read[k]]
Components(v, types) == [version: {v}, type: types]

\* validate_tariff_components: something must price the session, and the
\* smallest step_size of the body be positive; otherwise a 422 and no change.
ValidComponents(types, step) == types \cap {"energy", "time"} # {} /\ step > 0

\* A save begins: the row is created or renamed, and next is what the Supabase
\* store does then; the in-memory store is done.
BeginSave(e, types, step, next) ==
    /\ edit[e] = NoEdit /\ saves < MaxVersion /\ ValidComponents(types, step)
    /\ saves' = saves + 1 /\ row' = saves + 1
    /\ bodies' = [bodies EXCEPT ![saves + 1] = types]
    /\ IF store = "memory"
       THEN comps' = Components(saves + 1, types) /\ UNCHANGED edit
       ELSE /\ edit' = [f \in Editors |->
                          IF f = e THEN [pc |-> next, version |-> saves + 1, rest |-> types, alone |-> Editing = {}]
                          ELSE [edit[f] EXCEPT !.alone = FALSE]]
            /\ UNCHANGED comps
    /\ torn' = (torn \/ Editing # {})
    /\ read' = Disturbed
    /\ UNCHANGED store

\* POST /admin/tariffs makes the row, PUT /admin/tariffs/{tariff_id} needs it.
CreateTariff(e, types, step) == row = 0 /\ BeginSave(e, types, step, "cleared")
UpdateTariff(e, types, step) == row # 0 /\ BeginSave(e, types, step, "named")

\* Variant: the old components stay.
NothingCleared == comps

\* DELETE of every component of the tariff.
ClearedComponents == {}

DeleteComponents(e) ==
    /\ edit[e].pc = "named"
    /\ comps' = ClearedComponents
    /\ edit' = [edit EXCEPT ![e].pc = "cleared"]
    /\ read' = Disturbed
    /\ UNCHANGED <<store, row, saves, bodies, torn>>

\* _insert_components, one of them; the last ends the save.
InsertComponent(e, type) ==
    /\ edit[e].pc = "cleared" /\ type \in edit[e].rest
    /\ comps' = comps \cup Components(edit[e].version, {type})
    /\ IF edit[e].rest = {type}
       THEN edit' = [edit EXCEPT ![e] = NoEdit] /\ torn' = (torn /\ ~edit[e].alone)
       ELSE edit' = [edit EXCEPT ![e].rest = @ \ {type}] /\ UNCHANGED torn
    /\ read' = Disturbed
    /\ UNCHANGED <<store, row, saves, bodies>>

\* A round trip fails: the save ends with an error and what it has done stays.
SaveFails(e) ==
    /\ edit[e] # NoEdit
    /\ edit' = [edit EXCEPT ![e] = NoEdit]
    /\ torn' = TRUE /\ read' = Disturbed
    /\ UNCHANGED <<store, row, comps, saves, bodies>>

\* get: the row, then its components (_hydrate).  In memory both at once.
SelectRow(k) ==
    /\ read[k].pc = "idle" /\ row # 0
    /\ read' = [read EXCEPT ![k] = [pc |-> IF store = "memory" THEN "done" ELSE "row", version |-> row,
                                    comps |-> IF store = "memory" THEN comps ELSE {},
                                    undisturbed |-> ~torn /\ Editing = {}]]
    /\ UNCHANGED <<store, row, comps, saves, bodies, edit, torn>>

Hydrate(k) ==
    /\ read[k].pc = "row"
    /\ read' = [read EXCEPT ![k].pc = "done", ![k].comps = comps]
    /\ UNCHANGED <<store, row, comps, saves, bodies, edit, torn>>

ReadReturns(k) ==
    /\ read[k].pc = "done"
    /\ read' = [read EXCEPT ![k] = NoRead]
    /\ UNCHANGED <<store, row, comps, saves, bodies, edit, torn>>

\* to_ocpi_tariff: the price components of the one element a partner is shown.
OcpiType == [energy |-> "ENERGY", time |-> "TIME", flat |-> "FLAT", idle |-> "PARKING_TIME"]
OcpiElements(k) == {[type |-> OcpiType[x.type], price |-> x.version] : x \in read[k].comps}

\* Type and price are carried over; tariff_to_v211 has no elements to show.
TariffToV221(elements) == {[type |-> e.type, price |-> e.price] : e \in elements}
TariffToV230(elements) == {[type |-> e.type, price |-> e.price] : e \in elements}

\* GET /ocpi/{version}/tariffs/{tariff_id}.
GetTariffV221(k) == TariffToV221(OcpiElements(k))
GetTariffV230(k) == TariffToV230(OcpiElements(k))

TcNext ==
    \/ \E e \in Editors :
          \/ \E types \in SUBSET ComponentTypes, step \in 0..1 :
                CreateTariff(e, types, step) \/ UpdateTariff(e, types, step)
          \/ DeleteComponents(e) \/ SaveFails(e)
          \/ \E type \in ComponentTypes : InsertComponent(e, type)
    \/ \E k \in Readers : SelectRow(k) \/ Hydrate(k) \/ ReadReturns(k)

TcSpec == TcInit /\ [][TcNext]_tcVars

------------------------------------------------------------------------------
(* TariffIsWhole: update deletes the components before it inserts the new ones  *)
(* (supabase_billing.py:33-43).  A read no save overlapped, of a tariff no save *)
(* has left torn, has exactly the components of the version its row names,      *)
(* whatever failed or overlapped before, so that what a partner is shown of it  *)
(* can price a session, at the price saved last (tariff_validation.py:1-4).     *)
TariffIsWhole ==
    \A k \in Readers : read[k].pc = "done" /\ read[k].undisturbed =>
        /\ read[k].comps = Components(read[k].version, bodies[read[k].version])
        /\ \A shown \in {GetTariffV221(k), GetTariffV230(k)} :
              \E x \in shown : x.type \in {"ENERGY", "TIME"} /\ x.price = read[k].version
==============================================================================
