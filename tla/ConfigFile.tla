----------------------------- MODULE ConfigFile -----------------------------
(***************************************************************************)
(* Config::Load: two passes over the ini file, line by line.  The first    *)
(* collects the settings of the common sections, the second the schemas    *)
(* and their columns.                                                      *)
(*                                                                         *)
(* A value is the number of the line it stands on; 0 is no value, or the   *)
(* default.  A line is a section's name, a key with its value, or nothing  *)
(* to the loader: empty, a comment, a section's name with something behind *)
(* the bracket (a carriage return, a tab).                                 *)
(***************************************************************************)
EXTENDS Integers, Sequences, FiniteSetsExt

CONSTANTS
    SchemaLike,     \* the section names that contain "schema"
    ColumnSections  \* those that begin with "schema_column_"

ASSUME SectionsAssumption ==
    /\ "schema" \in SchemaLike /\ ColumnSections \subseteq SchemaLike \ {"schema"}
    /\ SchemaLike \intersect {"mysql", "redis"} = {}

None == 0
NoSection == ""

FileLines == [kind : {"section", "key", "other"}, name : STRING]
SectionLine(name) == [kind |-> "section", name |-> name]
KeyLine(key) == [kind |-> "key", name |-> key]
OtherLine == [kind |-> "other", name |-> ""]

VARIABLES
    file,      \* the lines
    pass,      \* "common", "schema", then "loaded" or "died"
    at,        \* the line to be read next
    section,   \* sCurSection
    keys,      \* vmap_kv: the lines collected for the current section
    comm,      \* m_mapCommConf
    db, table, cname, cindex,   \* sDatabase, sTable, sColumnName, sColumnIndex
    schemas    \* m_vSchemaConf

pairs == <<db, table, cname, cindex>>
configVars == <<file, pass, at, section, keys, comm, pairs, schemas>>

FreshConfig ==
    /\ pass = "common" /\ at = 1 /\ section = NoSection /\ keys = <<>>
    /\ comm = <<>> /\ schemas = <<>>
    /\ db = None /\ table = None /\ cname = None /\ cindex = None

\* A process of its own begins with nothing loaded.
FreshConfigNext ==
    /\ pass' = "common" /\ at' = 1 /\ section' = NoSection /\ keys' = <<>>
    /\ comm' = <<>> /\ schemas' = <<>>
    /\ db' = None /\ table' = None /\ cname' = None /\ cindex' = None

\* The next line of this pass is of that kind.
LineIs(p, kind) ==
    /\ pass = p
    /\ at <= Len(file) /\ file[at].kind = kind
    /\ at' = at + 1

LineName == file[at].name

(***************************************************************************)
(* LoadCommConf.                                                           *)
(***************************************************************************)
\* insert() leaves a section that is there already as it is.
Stored ==
    IF section \in DOMAIN comm THEN comm
    ELSE [s \in DOMAIN comm \union {section} |-> IF s = section THEN keys ELSE comm[s]]

\* Defect: the keys collected so far are kept for the next section.
CommSectionKeepsKeys ==
    /\ LineIs("common", "section")
    /\ IF section \notin SchemaLike \union {NoSection} THEN comm' = Stored ELSE UNCHANGED comm
    /\ section' = LineName
    /\ UNCHANGED <<file, pass, keys, pairs, schemas>>

\* A section is stored when the next one begins, and only then; the keys of
\* schema sections are not dropped.
CommSection ==
    /\ LineIs("common", "section")
    /\ IF section \notin SchemaLike \union {NoSection}
       THEN comm' = Stored /\ keys' = <<>>
       ELSE UNCHANGED <<comm, keys>>
    /\ section' = LineName
    /\ UNCHANGED <<file, pass, pairs, schemas>>

CommKey ==
    /\ LineIs("common", "key")
    /\ keys' = Append(keys, at)
    /\ UNCHANGED <<file, pass, section, comm, pairs, schemas>>

\* Defect: a line of no interest is looked at again.
SkipLineAgain ==
    /\ pass \in {"common", "schema"} /\ at <= Len(file) /\ file[at].kind = "other"
    /\ UNCHANGED configVars

SkipLine ==
    /\ \E p \in {"common", "schema"} : LineIs(p, "other")
    /\ UNCHANGED <<file, pass, section, keys, comm, pairs, schemas>>

CommEnd ==
    /\ pass = "common" /\ at > Len(file)
    /\ pass' = "schema" /\ at' = 1
    /\ section' = NoSection /\ keys' = <<>>
    /\ UNCHANGED <<file, comm, pairs, schemas>>

(***************************************************************************)
(* LoadSchemaConf.                                                         *)
(***************************************************************************)
\* Only names with "schema" in them count: what follows another section's
\* name is taken for the schema section before it.
SchemaSection ==
    /\ LineIs("schema", "section")
    /\ section' = IF LineName \in SchemaLike THEN LineName ELSE section
    /\ UNCHANGED <<file, pass, keys, comm, pairs, schemas>>

Schema(d, t) == [database |-> d, table |-> t, columns |-> <<>>]

\* Defect: a schema is made when its table comes.
SchemaKeyOnTable ==
    /\ LineIs("schema", "key")
    /\ section = "schema"
    /\ IF LineName = "table" /\ db # None
       THEN db' = None /\ table' = None /\ schemas' = Append(schemas, Schema(db, at))
       ELSE /\ db' = IF LineName = "database" THEN at ELSE db
            /\ table' = IF LineName = "table" THEN at ELSE table
            /\ UNCHANGED schemas
    /\ UNCHANGED <<file, pass, section, keys, comm, cname, cindex>>

\* A schema is made as soon as both its halves are known, in either order.
SchemaKey ==
    /\ LineIs("schema", "key")
    /\ section = "schema"
    /\ LET d == IF LineName = "database" THEN at ELSE db
           t == IF LineName = "table" THEN at ELSE table
       IN  IF d # None /\ t # None
           THEN db' = None /\ table' = None /\ schemas' = Append(schemas, Schema(d, t))
           ELSE db' = d /\ table' = t /\ UNCHANGED schemas
    /\ UNCHANGED <<file, pass, section, keys, comm, cname, cindex>>

\* What a line of a column section makes of the two halves of a column.
NameNow == IF LineName = "column_name" THEN at ELSE cname
IndexNow == IF LineName = "column_index" THEN at ELSE cindex
Complete == NameNow # None /\ IndexNow # None

ColumnHalf ==
    /\ LineIs("schema", "key")
    /\ section \in ColumnSections /\ ~Complete
    /\ cname' = NameNow /\ cindex' = IndexNow
    /\ UNCHANGED <<file, pass, section, keys, comm, db, table, schemas>>

\* Defect: the index is not forgotten.
ColumnAddedKeepsIndex ==
    /\ LineIs("schema", "key")
    /\ section \in ColumnSections /\ Complete
    /\ schemas # <<>>
    /\ schemas' = [schemas EXCEPT ![Len(schemas)].columns =
                      Append(@, [name |-> NameNow, index |-> IndexNow])]
    /\ cname' = None /\ cindex' = IndexNow
    /\ UNCHANGED <<file, pass, section, keys, comm, db, table>>

\* The last schema made gets the column.
ColumnAdded ==
    /\ LineIs("schema", "key")
    /\ section \in ColumnSections /\ Complete
    /\ schemas # <<>>
    /\ schemas' = [schemas EXCEPT ![Len(schemas)].columns =
                      Append(@, [name |-> NameNow, index |-> IndexNow])]
    /\ cname' = None /\ cindex' = None
    /\ UNCHANGED <<file, pass, section, keys, comm, db, table>>

\* Without a schema AddColumn is called on a null pointer.
ColumnDies ==
    /\ LineIs("schema", "key")
    /\ section \in ColumnSections /\ Complete
    /\ schemas = <<>>
    /\ pass' = "died"
    /\ UNCHANGED <<file, section, keys, comm, pairs, schemas>>

ForeignKey ==
    /\ LineIs("schema", "key")
    /\ section \notin ColumnSections \union {"schema"}
    /\ UNCHANGED <<file, pass, section, keys, comm, pairs, schemas>>

SchemaEnd ==
    /\ pass = "schema" /\ at > Len(file)
    /\ pass' = "loaded"
    /\ UNCHANGED <<file, at, section, keys, comm, pairs, schemas>>

LoadCommConf == CommSection \/ CommKey \/ CommEnd
LoadSchemaConf ==
    SchemaSection \/ SchemaKey \/ ColumnHalf \/ ColumnAdded \/ ColumnDies \/ ForeignKey \/ SchemaEnd
Load == LoadCommConf \/ SkipLine \/ LoadSchemaConf

\* GetConfigStr, GetConfigInt: the first line with that key in the section.
GetConfig(sec, key) ==
    IF sec \notin DOMAIN comm THEN None
    ELSE LET found == {i \in DOMAIN comm[sec] : file[comm[sec][i]].name = key}
         IN  IF found = {} THEN None ELSE comm[sec][Min(found)]

(***************************************************************************)
(* What stands in the file, for comparison.                                *)
(***************************************************************************)
IsSection(n) == file[n].kind = "section"
SectionsNamed(names) == {n \in DOMAIN file : IsSection(n) /\ file[n].name \in names}

\* The lines of the section whose name is on line n.
BodyOf(n) == {k \in n + 1 .. Len(file) : \A i \in n + 1 .. k : ~IsSection(i)}
InSection(n, key) == {k \in BodyOf(n) : file[k] = KeyLine(key)}
First(lines) == IF lines = {} THEN None ELSE Min(lines)

\* The value a reader of the file expects for a setting.
Stands(sec, key) ==
    IF SectionsNamed({sec}) = {} THEN None ELSE First(InSection(Min(SectionsNamed({sec})), key))

\* The columns that stand below the schema on line n and above the next.
ColumnsBelow(n) ==
    {c \in SectionsNamed(ColumnSections) :
        c > n /\ SectionsNamed({"schema"}) \intersect n + 1 .. c = {}}

\* The schema sections and column sections of the file are complete.
PairsWhole ==
    /\ \A n \in SectionsNamed({"schema"}) :
          InSection(n, "database") # {} /\ InSection(n, "table") # {}
    /\ \A n \in SectionsNamed(ColumnSections) :
          InSection(n, "column_name") # {} /\ InSection(n, "column_index") # {}

\* Another section begins below the one on line n.
Followed(n) == \E m \in n + 1 .. Len(file) : IsSection(m)
=============================================================================
