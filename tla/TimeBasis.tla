----------------------------- MODULE TimeBasis ------------------------------
(***************************************************************************)
(* performance/time_basis.py: the instant a wall-clock time of a journal   *)
(* stands for, under the time basis the user declared.  Instants and wall  *)
(* times are integers in one unit.  A zone is described around one change  *)
(* of its offset: daylight saving starting (a gap in its wall times) or    *)
(* ending (wall times shown twice).                                        *)
(***************************************************************************)
EXTENDS Integers

CONSTANT NoValue

Zones == [before : Int, after : Int, at : Int]

(* A declared basis; only the field its kind speaks of is used.              *)
TimeBases == [kind : {"UTC", "FIXED_OFFSET", "IANA"}, offset : Int, zone : Zones]

Larger(a, b) == IF a >= b THEN a ELSE b

Smaller(a, b) == IF a >= b THEN b ELSE a

(* ZoneInfo: the wall time an instant shows.                                 *)
Wall(zone, u) == u + (IF u < zone.at THEN zone.before ELSE zone.after)

(* ZoneInfo: the offset taken for a wall time.  Fold 0 keeps the old offset  *)
(* up to the later of the two wall times of the change, fold 1 up to the     *)
(* earlier one. *)
FoldOffset(zone, w, fold) ==
    LET change == zone.at + (IF fold = 0 THEN Larger(zone.before, zone.after)
                             ELSE Smaller(zone.before, zone.after)) IN
    IF w < change THEN zone.before ELSE zone.after

(* Faulty variant: what a fold yields is not converted back and compared. *)
UncheckedMappings(zone, w) == {w - FoldOffset(zone, w, fold) : fold \in {0, 1}}

iana_utc_mappings(zone, w) ==
    {u \in {w - FoldOffset(zone, w, fold) : fold \in {0, 1}} : Wall(zone, u) = w}

Valid(u) == [status |-> "VALID", utc |-> u]

Undetermined(status) == [status |-> status, utc |-> NoValue]

(* Several instants: ambiguous.  None: the wall time never was. *)
NormaliseIana(zone, w) ==
    LET mappings == iana_utc_mappings(zone, w) IN
    IF mappings = {} THEN Undetermined("NONEXISTENT")
    ELSE IF \E u \in mappings : mappings = {u} THEN Valid(CHOOSE u \in mappings : TRUE)
    ELSE Undetermined("AMBIGUOUS")

normalise_journal_datetime(w, basis) ==
    IF basis.kind = "UTC" THEN Valid(w)
    ELSE IF basis.kind = "FIXED_OFFSET" THEN Valid(w - basis.offset)
    ELSE NormaliseIana(basis.zone, w)

=============================================================================
