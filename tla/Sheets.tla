-------------------------------- MODULE Sheets --------------------------------
(***************************************************************************)
(* The Nodes and Keys sheets of the .ods book (db/schema.py, ods_read.py,   *)
(* ods.py, ods_write.py, cell_validation.py, node_record.py): an operator   *)
(* edits the book in LibreOffice, mesh loads it, changes rows and saves it. *)
(* The two take turns; that they do not is OdsStore's subject.              *)
(*                                                                          *)
(* A text is what it says, a sequence of words (none when it is blank, one  *)
(* for each member of a list), and how that is spelled: "plain", as         *)
(* written by mesh; "variant", another spelling that the kind of its column *)
(* accepts or tells apart; "wrong", no value of the kind.  Spaces around a  *)
(* text, styles, widths, drop-downs and comments are left out, and of the   *)
(* columns of each sheet those that differ in how they are treated.         *)
(***************************************************************************)
EXTENDS Integers, Sequences, FiniteSets, SequencesExt

CONSTANTS
    MaxBlankRows,    \* ods_read.MAX_BLANK_ROWS
    MaxRowRepeat,    \* ods_read.MAX_ROW_REPEAT
    MaxColumns,      \* ods_read.MAX_COLUMNS
    MaxChanges,      \* bound on the edits of a behaviour, by the operator or by mesh
    Chipset,         \* what chipsets.main_chipset says of a hardware model
    RankOf,          \* the natural order of the words that name rows
    FirstRows,       \* the rows the book is created with
    EditedColumns,   \* bound: the columns whose header or cells the operator edits
    Typed,           \* what the operator may type: <<sheet, column, cell>>
    Packs            \* the states a book may come back in from outside mesh

ASSUME BoundsFit ==
    /\ MaxBlankRows \in Nat /\ MaxRowRepeat \in Nat /\ MaxColumns \in Nat
    /\ 1 < MaxRowRepeat /\ MaxBlankRows < MaxRowRepeat /\ 13 < MaxColumns

VARIABLES
    book,      \* what is on disk: the pack and the two tables
    session,   \* the rows mesh holds in memory, why it has none, or NotLoaded
    changes    \* edits so far

sheetVars == <<book, session, changes>>

NotLoaded == [state |-> "closed"]

-----------------------------------------------------------------------------
(***************************************************************************)
(* The schema.                                                              *)
(***************************************************************************)
Column(name, kind) == [name |-> name, kind |-> kind, required |-> FALSE, legacy |-> FALSE]
Required(column) == [column EXCEPT !.required = TRUE]
Legacy(column) == [column EXCEPT !.legacy = TRUE]

NodesSpec == << Required(Column("node_id", "node_id")), Column("long_name", "text"),
                Column("hw_model", "table"), Column("main_chipset", "text"),
                Column("gps_alt", "number"), Column("authorized_admin_keys", "ref_list"),
                Column("private_key_ref", "ref"), Column("role", "table"),
                Column("ble_pin", "pin"), Column("management", "enum"),
                Column("unregistered_admin_keys", "key_list"), Column("archived_at", "timestamp") >>

KeysSpec == << Required(Column("key_ref", "ref")), Required(Column("owner_node_id", "ref")),
               Required(Column("key_type", "enum")), Required(Column("key_value", "key")),
               Legacy(Column("origin", "enum")) >>

SheetNames == {"Nodes", "Keys"}
Schema(sheet) == IF sheet = "Nodes" THEN NodesSpec ELSE KeysSpec

ColumnNames(sheet) == [i \in DOMAIN Schema(sheet) |-> Schema(sheet)[i].name]

RefSuffix == [admin_public |-> "_pub", admin_private |-> "_priv", channel_psk |-> "_psk"]

RefFor(owner, suffix) == IF owner = <<>> THEN <<>> ELSE Append(owner, suffix)

KeyRefOf(row) ==
    IF row.owner_node_id = <<>> \/ row.key_type = <<>> THEN <<>>
    ELSE RefFor(row.owner_node_id, RefSuffix[row.key_type[1]])

ChipsetOf(row) == IF row.hw_model = <<>> THEN <<>> ELSE Chipset[row.hw_model[1]]

\* schema.recompute_derived: the columns that other cells of the row decide.
Derived(sheet, row) ==
    IF sheet = "Nodes"
    THEN [main_chipset |-> ChipsetOf(row), private_key_ref |-> RefFor(row.node_id, "_priv")]
    ELSE [key_ref |-> KeyRefOf(row)]

-----------------------------------------------------------------------------
(***************************************************************************)
(* The document.  A table is its header and its row elements; a row element *)
(* is a list of runs of equal cells and the number of rows it stands for.   *)
(* A cell has its paragraphs and, of a string, perhaps a string value.      *)
(***************************************************************************)
Text(words, spelled) == [words |-> words, spelled |-> spelled]
NoText == Text(<<>>, "absent")
BlankText == Text(<<>>, "plain")
BlankCell == [own |-> BlankText, string |-> NoText, type |-> "none"]
StringCell(words) == [own |-> Text(words, "plain"), string |-> Text(words, "plain"), type |-> "string"]

Run(cell, repeat) == [cell |-> cell, repeat |-> repeat, covered |-> FALSE]
RowElement(runs, repeat) == [runs |-> runs, repeat |-> repeat]

Least(a, b) == IF a < b THEN a ELSE b
Times(x, n) == [i \in 1..n |-> x]

\* _extract_cell: a string's value stands for it, else what its paragraphs say.
CellText(cell) ==
    IF cell.type = "string" /\ cell.string # NoText THEN cell.string ELSE cell.own

ReadRowCells(row) ==
    LET upTo[k \in 0..Len(row.runs)] ==
            IF k = 0 THEN <<>>
            ELSE LET cells == upTo[k - 1]
                     run   == row.runs[k]
                 IN  cells \o Times(IF run.covered THEN BlankCell ELSE run.cell,
                                    Least(run.repeat, MaxColumns - Len(cells)))
    IN  upTo[Len(row.runs)]

AllBlank(cells) == \A i \in DOMAIN cells : CellText(cells[i]).words = <<>>
IsBlankRow(row) == AllBlank(ReadRowCells(row))

HasDataBelow(rows, index) == \E i \in index + 1..Len(rows) : ~IsBlankRow(rows[i])

\* One pass of _read_sheet's loop: `read` is the rows so far, the length and
\* the first row of the blank run they end in, and whether reading goes on.
\* The first data row of a sheet is row 2.
TakeRow(rows, read, index, cells, first, count) ==
    IF read.state # "reading" THEN read
    ELSE IF ~AllBlank(cells)
    THEN [read EXCEPT !.cells = @ \o Times(cells, count), !.blank = 0]
    ELSE IF rows[index].repeat > MaxRowRepeat \/ read.blank + count > MaxBlankRows
    THEN [read EXCEPT !.state = IF HasDataBelow(rows, index) THEN "gap" ELSE "done",
                      !.gap = first]
    ELSE [read EXCEPT !.cells = @ \o Times(cells, count), !.blank = @ + count, !.gap = first]

ReadRow(rows, read, index) ==
    TakeRow(rows, read, index, ReadRowCells(rows[index]),
            IF read.blank = 0 THEN Len(read.cells) + 2 ELSE read.gap,
            Least(rows[index].repeat, MaxRowRepeat))

\* As if an overlong blank run were always the end of the sheet.
ReadRowAndStop(rows, read, index) ==
    [ReadRow(rows, read, index) EXCEPT !.state = IF @ = "gap" THEN "done" ELSE @]

ReadOneRow(rows, read, index) == ReadRow(rows, read, index)

ReadSheet(table) ==
    FoldLeft(LAMBDA read, index : ReadOneRow(table.rows, read, index),
             [cells |-> <<>>, blank |-> 0, gap |-> 0, state |-> "reading"],
             [i \in DOMAIN table.rows |-> i])

Refused(why, sheet, row) == [state |-> "refused", why |-> why, sheet |-> sheet, row |-> row]
-----------------------------------------------------------------------------
(***************************************************************************)
(* From cells to rows.                                                      *)
(***************************************************************************)
Rejected == <<"rejected">>

OnceEach(words) == FoldLeft(LAMBDA kept, w : IF Contains(kept, w) \/ w = "" THEN kept ELSE Append(kept, w),
                            <<>>, words)

\* A character odfpy cannot write is replaced; nothing is refused.
SanitizeText(text) ==
    IF text.spelled = "variant" THEN Append(text.words, "replaced") ELSE text.words

\* What has one canonical form is brought to it, whatever the spelling.
Canonical(text) == IF text.spelled = "wrong" THEN Rejected ELSE text.words
ValidateNodeId(text) == Canonical(text)
ValidateTable(text) == Canonical(text)
ValidateNumber(text) == Canonical(text)
ValidateTimestamp(text) == Canonical(text)
ValidateKey(text) == Canonical(text)

\* What has no other form is taken as it stands or not at all.
ValidateEnum(text) == IF text.spelled = "plain" THEN text.words ELSE Rejected
ValidatePin(text) == IF text.spelled = "plain" THEN text.words ELSE Rejected

\* A reference in another letter case is another reference.
ValidateRef(text) ==
    IF text.spelled = "variant" THEN Append(text.words, "other case") ELSE Canonical(text)

\* A list loses its repetitions and its blanks.
ValidateRefList(text) == IF text.spelled = "wrong" THEN Rejected ELSE OnceEach(text.words)
ValidateKeyList(text) == IF text.spelled = "wrong" THEN Rejected ELSE OnceEach(text.words)

ValidateCell(column, text) ==
    CASE text.words = <<>> -> IF column.required THEN Rejected ELSE <<>>
      [] column.kind = "text" -> SanitizeText(text)
      [] column.kind = "node_id" -> ValidateNodeId(text)
      [] column.kind = "table" -> ValidateTable(text)
      [] column.kind = "enum" -> ValidateEnum(text)
      [] column.kind = "number" -> ValidateNumber(text)
      [] column.kind = "timestamp" -> ValidateTimestamp(text)
      [] column.kind = "key" -> ValidateKey(text)
      [] column.kind = "key_list" -> ValidateKeyList(text)
      [] column.kind = "ref" -> ValidateRef(text)
      [] column.kind = "ref_list" -> ValidateRefList(text)
      [] column.kind = "pin" -> ValidatePin(text)

\* _row_values: cells past the end are blank, and a text column has its own
\* paragraphs read in place of the string value.
CellIn(cells, i) == IF i \in DOMAIN cells THEN cells[i] ELSE BlankCell
ValueText(column, cell) == IF column.kind = "text" THEN cell.own ELSE CellText(cell)

TextLike == {"text", "node_id", "ref", "ref_list", "pin", "key"}
Coerced(sheet, cells) ==
    {<<"coerced", Schema(sheet)[i].name>> : i \in
        {j \in DOMAIN Schema(sheet) : Schema(sheet)[j].kind \in TextLike /\ CellIn(cells, j).type = "float"}}

IndexIn == [sheet \in SheetNames |->
               [name \in Range(ColumnNames(sheet)) |->
                   CHOOSE i \in DOMAIN Schema(sheet) : Schema(sheet)[i].name = name]]
IndexOf(sheet, name) == IndexIn[sheet][name]
NamesOf(sheet) == DOMAIN IndexIn[sheet]

Texts(sheet, cells) ==
    [i \in DOMAIN Schema(sheet) |-> ValueText(Schema(sheet)[i], CellIn(cells, i))]

Validated(sheet, texts) ==
    [name \in NamesOf(sheet) |->
        ValidateCell(Schema(sheet)[IndexOf(sheet, name)], texts[IndexOf(sheet, name)])]

Merged(row, derived) ==
    [name \in DOMAIN row |-> IF name \in DOMAIN derived THEN derived[name] ELSE row[name]]

Stale(row, derived) ==
    {<<"stale", name>> : name \in {n \in DOMAIN derived : row[n] # <<>> /\ row[n] # derived[n]}}

\* _apply_recompute: the derived columns take the place of what was cached.
Reconcile(sheet, loaded, cells, at, row, derived) ==
    [loaded EXCEPT !.rows = Append(@, Merged(row, derived)),
                   !.warnings = @ \cup {<<sheet, at>> \o w :
                                   w \in Coerced(sheet, cells) \cup Stale(row, derived)}]

LoadValidated(sheet, loaded, cells, at, row) ==
    IF \E name \in DOMAIN row : row[name] = Rejected THEN Refused("cell", sheet, at)
    ELSE Reconcile(sheet, loaded, cells, at, row, Derived(sheet, row))

\* _load_sheet_rows, one row of it: `loaded` is the rows and warnings so far or
\* the first refusal.
LoadRow(sheet, loaded, cells, at) ==
    IF \/ loaded.state # "loaded"
       \/ \A i \in DOMAIN Schema(sheet) : Texts(sheet, cells)[i].words = <<>> THEN loaded
    ELSE LoadValidated(sheet, loaded, cells, at, Validated(sheet, Texts(sheet, cells)))

LoadSheetRows(sheet, read) ==
    FoldLeft(LAMBDA loaded, i : LoadRow(sheet, loaded, read.cells[i], i + 1),
             [state |-> "loaded", rows |-> <<>>, warnings |-> {}],
             [i \in DOMAIN read.cells |-> i])

\* sorting.sorted_rows: nodes by name and then id, keys by reference.
Place(word) == IF word = <<>> THEN 0 ELSE RankOf[word[1]]
SortKey(sheet, row) ==
    IF sheet = "Nodes" THEN <<Place(row.long_name), Place(row.node_id)>>
    ELSE <<Place(row.owner_node_id), Place(row.key_type)>>
Before(sheet, a, b) ==
    LET k == SortKey(sheet, a)
        l == SortKey(sheet, b)
    IN  k[1] < l[1] \/ (k[1] = l[1] /\ k[2] < l[2])
SortedRows(sheet, rows) == SortSeq(rows, LAMBDA a, b : Before(sheet, a, b))

IdOf(sheet, row) == IF sheet = "Nodes" THEN row.node_id ELSE row.key_ref
Repeats(sheet, rows) ==
    \E i, j \in DOMAIN rows : i # j /\ IdOf(sheet, rows[i]) = IdOf(sheet, rows[j])

\* A header may lack the columns that files of older versions do not have.
Trimmed(header) == SubSeq(header, 1, Len(header) - Cardinality(
                       {i \in DOMAIN header : \A j \in i..Len(header) : header[j] = ""}))
ToleratedHeaders(sheet) ==
    {SubSeq(ColumnNames(sheet), 1, n) : n \in
        {m \in 0..Len(Schema(sheet)) : \A i \in m + 1..Len(Schema(sheet)) : Schema(sheet)[i].legacy}}
HeaderFits(sheet, table) == Trimmed(table.header) \in ToleratedHeaders(sheet)

\* header_diff: what a reader is told of a header that does not fit.  The two
\* are compared around the longest beginning and ending they share.
SharedStart(a, b) ==
    CHOOSE n \in 0..Least(Len(a), Len(b)) :
        /\ \A i \in 1..n : a[i] = b[i]
        /\ n = Least(Len(a), Len(b)) \/ a[n + 1] # b[n + 1]
After(s, n) == SubSeq(s, n + 1, Len(s))
BetweenEnds(a, b, n) ==
    SubSeq(a, n + 1, Len(a) - SharedStart(Reverse(After(a, n)), Reverse(After(b, n))))
Between(a, b) == BetweenEnds(a, b, SharedStart(a, b))

SameColumns(a, b) ==
    Len(a) = Len(b) /\ \A x \in Range(a) \cup Range(b) :
        Cardinality({i \in DOMAIN a : a[i] = x}) = Cardinality({i \in DOMAIN b : b[i] = x})

Says(what, at, name) == [what |-> what, at |-> at, name |-> name]

Diagnosis(found, expected, extra, missing, at) ==
    CASE IsStrictPrefix(found, expected) -> Says("missing at the end", at, "")
      [] SameColumns(found, expected) -> Says("reordered", at, "")
      [] extra = <<>> /\ Len(missing) = 1 -> Says("deleted", at, missing[1])
      [] Len(extra) = 1 /\ missing = <<>> -> Says("inserted", at, extra[1])
      [] Len(extra) = 1 /\ Len(missing) = 1 -> Says("renamed", at, missing[1])
      [] OTHER -> Says("something else", at, "")

Diagnose(found, expected) ==
    Diagnosis(found, expected, Between(found, expected), Between(expected, found),
              SharedStart(found, expected) + 1)

HeaderHint(sheet) == Diagnose(Trimmed(book[sheet].header), ColumnNames(sheet))

\* _preflight: the size before anything is unpacked, then the manifest, and
\* whether the book is encrypted before a part is called damaged.
Preflight(pack) ==
    CASE pack.oversized -> "too big"
      [] pack.manifest # "sound" -> "damaged"
      [] pack.encrypted -> "password"
      [] pack.content # "sound" -> "damaged"
      [] OTHER -> "sound"

\* ods.parse_database, in its order.
ParseRows(nodes, keys) ==
    CASE nodes.state # "loaded" -> nodes
      [] keys.state # "loaded" -> keys
      [] Repeats("Nodes", nodes.rows) -> Refused("twice", "Nodes", 0)
      [] Repeats("Keys", keys.rows) -> Refused("twice", "Keys", 0)
      [] OTHER -> [state    |-> "loaded",
                   Nodes    |-> SortedRows("Nodes", nodes.rows),
                   Keys     |-> SortedRows("Keys", keys.rows),
                   warnings |-> nodes.warnings \cup keys.warnings]

ParseTables(f, nodes, keys) ==
    CASE nodes.state = "gap" -> Refused("gap", "Nodes", nodes.gap)
      [] keys.state = "gap" -> Refused("gap", "Keys", keys.gap)
      [] ~HeaderFits("Nodes", f.Nodes) -> Refused("header", "Nodes", 1)
      [] ~HeaderFits("Keys", f.Keys) -> Refused("header", "Keys", 1)
      [] OTHER -> ParseRows(LoadSheetRows("Nodes", nodes), LoadSheetRows("Keys", keys))

ParseDatabase(f) ==
    IF Preflight(f.pack) # "sound" THEN Refused(Preflight(f.pack), "book", 0)
    ELSE ParseTables(f, ReadSheet(f.Nodes), ReadSheet(f.Keys))

-----------------------------------------------------------------------------
(***************************************************************************)
(* From rows to cells.                                                      *)
(***************************************************************************)
DataCell(words) == IF words = <<>> THEN BlankCell ELSE StringCell(words)

BuildTable(sheet, rows) ==
    [header |-> ColumnNames(sheet),
     rows   |-> [i \in DOMAIN rows |->
        RowElement([c \in DOMAIN Schema(sheet) |-> Run(DataCell(rows[i][Schema(sheet)[c].name]), 1)], 1)]]

SoundPack == [oversized |-> FALSE, manifest |-> "sound", encrypted |-> FALSE, content |-> "sound"]

BuildDocument(nodes, keys) ==
    [pack  |-> SoundPack,
     Nodes |-> BuildTable("Nodes", SortedRows("Nodes", nodes)),
     Keys  |-> BuildTable("Keys", SortedRows("Keys", keys))]

\* NodeRecord.from_row and to_row: a blank management is observed, only a node
\* under the template has a default role, and derived columns are the record's.
FromRow(row) ==
    LET managed == IF row.management = <<>> THEN <<"observed">> ELSE row.management
    IN  [row EXCEPT !.management = managed,
                    !.role = IF @ = <<>> /\ managed = <<"template">> THEN <<"CLIENT">> ELSE @,
                    !.authorized_admin_keys = OnceEach(@)]
ToRow(record) == Merged(record, Derived("Nodes", record))

\* KeyRecord.from_row takes a row whose reference is the one its cells make.
KeyRecordFits(row) == row.key_type # <<>> /\ row.key_ref = KeyRefOf(row)

-----------------------------------------------------------------------------
SheetsInit ==
    /\ \E rows \in FirstRows : book = BuildDocument(rows.Nodes, rows.Keys)
    /\ session = NotLoaded
    /\ changes = 0

\* The operator's edits: each leaves what LibreOffice would store.
Change(sheet, table) ==
    /\ changes < MaxChanges /\ session = NotLoaded
    /\ changes' = changes + 1
    /\ book' = [book EXCEPT ![sheet] = table]
    /\ UNCHANGED session

InsertBlankRows(sheet) ==
    \E at \in 1..Len(book[sheet].rows) + 1, n \in {1, MaxBlankRows, MaxBlankRows + 1, MaxRowRepeat + 1} :
        Change(sheet, [book[sheet] EXCEPT !.rows =
            InsertAt(@, at, RowElement(<<Run(BlankCell, MaxColumns)>>, n))])

CopyRow(sheet) ==
    \E at \in DOMAIN book[sheet].rows :
        Change(sheet, [book[sheet] EXCEPT !.rows[at].repeat = 2])

Swapped(s, i) == [s EXCEPT ![i] = s[i + 1], ![i + 1] = s[i]]
SwapRows(sheet) ==
    \E at \in 1..Len(book[sheet].rows) - 1 :
        Change(sheet, [book[sheet] EXCEPT !.rows = Swapped(@, at)])

TypeCell ==
    \E t \in Typed : \E at \in DOMAIN book[t[1]].rows :
        LET runs == book[t[1]].rows[at].runs
            c    == IndexOf(t[1], t[2])
        IN  /\ c \in DOMAIN runs /\ Len(runs) >= Len(Schema(t[1]))
            /\ Change(t[1], [book[t[1]] EXCEPT !.rows[at].runs[c].cell = t[3]])

\* Merging a cell with the one to its left hides it and what it says.
MergeCells(sheet) ==
    \E at \in DOMAIN book[sheet].rows, c \in EditedColumns \ {1} :
        /\ c \in DOMAIN book[sheet].rows[at].runs
        /\ Change(sheet, [book[sheet] EXCEPT !.rows[at].runs[c].covered = TRUE])

DeleteColumn(sheet) ==
    \E c \in EditedColumns \cap DOMAIN book[sheet].header :
        /\ \A i \in DOMAIN book[sheet].rows : c \in DOMAIN book[sheet].rows[i].runs
        /\ Change(sheet, [header |-> RemoveAt(book[sheet].header, c),
                          rows   |-> [i \in DOMAIN book[sheet].rows |->
                             [book[sheet].rows[i] EXCEPT !.runs = RemoveAt(@, c)]]])

RenameColumn(sheet) ==
    \E c \in EditedColumns \cap DOMAIN book[sheet].header :
        Change(sheet, [book[sheet] EXCEPT !.header[c] = "renamed"])

SwapHeaders(sheet) ==
    \E c \in EditedColumns \cap 1..Len(book[sheet].header) - 1 :
        Change(sheet, [book[sheet] EXCEPT !.header = Swapped(@, c)])

InsertColumn(sheet) ==
    \E c \in EditedColumns \cap 1..Len(book[sheet].header) + 1 :
        /\ \A i \in DOMAIN book[sheet].rows : Len(book[sheet].rows[i].runs) + 1 >= c
        /\ Change(sheet, [header |-> InsertAt(book[sheet].header, c, "inserted"),
                          rows   |-> [i \in DOMAIN book[sheet].rows |->
                             [book[sheet].rows[i] EXCEPT !.runs = InsertAt(@, c, Run(BlankCell, 1))]]])

\* Something typed to the right of the sheet's own columns.
TypeBeside(sheet) ==
    \E at \in DOMAIN book[sheet].rows :
        /\ Len(book[sheet].rows[at].runs) = Len(Schema(sheet))
        /\ Change(sheet, [book[sheet] EXCEPT !.rows[at].runs = Append(@, Run(StringCell(<<"aside">>), 1))])

ComeBack ==
    \E pack \in Packs :
        /\ changes < MaxChanges /\ session = NotLoaded
        /\ changes' = changes + 1
        /\ book' = [book EXCEPT !.pack = pack]
        /\ UNCHANGED session

LoadSheets ==
    /\ session = NotLoaded
    /\ session' = ParseDatabase(book)
    /\ UNCHANGED <<book, changes>>

\* NodeRepository.upsert of a row that was read.
TouchNode ==
    /\ session.state = "loaded" /\ changes < MaxChanges
    /\ \E i \in DOMAIN session.Nodes, ref \in {<<>>, <<"new_pub">>} :
          LET record == [FromRow(session.Nodes[i]) EXCEPT
                            !.authorized_admin_keys = OnceEach(@ \o ref)]
          IN  session' = [session EXCEPT
                 !.state = "changed",
                 !.Nodes = SortedRows("Nodes", [@ EXCEPT ![i] = ToRow(record)])]
    /\ changes' = changes + 1
    /\ UNCHANGED book

\* OdsDatabase.save writes only what loads back; then the session ends.
SaveSheets ==
    /\ session.state = "changed"
    /\ LET document == BuildDocument(session.Nodes, session.Keys)
       IN  IF ParseDatabase(document).state = "loaded"
           THEN /\ book' = document
                /\ session' = NotLoaded
           ELSE /\ session' = [session EXCEPT !.state = "unsaved"]
                /\ UNCHANGED book
    /\ UNCHANGED changes

SheetsNext ==
    \/ \E sheet \in SheetNames : \/ InsertBlankRows(sheet) \/ CopyRow(sheet) \/ SwapRows(sheet)
                                 \/ MergeCells(sheet) \/ TypeBeside(sheet) \/ DeleteColumn(sheet)
                                 \/ RenameColumn(sheet) \/ SwapHeaders(sheet) \/ InsertColumn(sheet)
    \/ TypeCell \/ ComeBack \/ LoadSheets \/ TouchNode \/ SaveSheets

-----------------------------------------------------------------------------
(***************************************************************************)
(* The sheet as a reader sees it, without the reader's limits.              *)
(***************************************************************************)
\* The sheet's row at which row element `i` begins, the header being row 1.
RowNumber(table, i) ==
    2 + FoldFunction(+, 0, [j \in 1..i - 1 |-> table.rows[j].repeat])

\* What is seen in column c of a row element: the run that spans it.
SeenAt(row, c) ==
    LET end[k \in 0..Len(row.runs)] == IF k = 0 THEN 0 ELSE end[k - 1] + row.runs[k].repeat
        spans == {k \in DOMAIN row.runs : end[k] - row.runs[k].repeat < c /\ c <= end[k]}
    IN  IF spans = {} \/ \E k \in spans : row.runs[k].covered THEN BlankCell
        ELSE row.runs[CHOOSE k \in spans : TRUE].cell

Seen(sheet, i) ==
    [c \in DOMAIN Schema(sheet) |-> ValueText(Schema(sheet)[c], SeenAt(book[sheet].rows[i], c))]

\* The row elements with something in the sheet's own columns.
DataElements(sheet) ==
    {i \in DOMAIN book[sheet].rows : \E c \in DOMAIN Schema(sheet) : Seen(sheet, i)[c].words # <<>>}

WithDerived(sheet, row) == Merged(row, Derived(sheet, row))
SeenRow(sheet, i) == WithDerived(sheet, Validated(sheet, Seen(sheet, i)))

\* Nothing an operator left in the sheets is dropped, shifted or counted twice:
\* the rows of a session are the rows seen, in their order by name, and the
\* references and the chipset follow from the cells they depend on.
RowsAreWhole ==
    session.state = "loaded" =>
        \A sheet \in SheetNames :
            /\ {session[sheet][i] : i \in DOMAIN session[sheet]} =
                  {SeenRow(sheet, i) : i \in DataElements(sheet)}
            /\ Len(session[sheet]) =
                  FoldFunction(+, 0, [i \in DataElements(sheet) |-> book[sheet].rows[i].repeat])
            /\ \A i \in 1..Len(session[sheet]) - 1 :
                  ~Before(sheet, session[sheet][i + 1], session[sheet][i])
            /\ \A i \in DOMAIN session.Keys : KeyRecordFits(session.Keys[i])

StaleIn(sheet, row) == Stale(row, Derived(sheet, row))

\* A cell whose text LibreOffice may have changed, and a derived cell that says
\* something else than its sources, are named at the row an operator sees.
WarningsAreTrue ==
    session.state = "loaded" =>
        session.warnings =
            UNION {UNION {{<<sheet, RowNumber(book[sheet], i)>> \o w : w \in
                Coerced(sheet, [c \in DOMAIN Schema(sheet) |-> SeenAt(book[sheet].rows[i], c)])
                \cup StaleIn(sheet, Validated(sheet, Seen(sheet, i)))} :
                    i \in DataElements(sheet)} : sheet \in SheetNames}

\* The mend a header's diagnosis proposes gives the expected header back.
Mends(hint, found, expected) ==
    /\ found # expected
    /\ CASE hint.what = "missing at the end" ->
              found \o SubSeq(expected, Len(found) + 1, Len(expected)) = expected
         [] hint.what = "reordered" -> Range(found) = Range(expected)
         [] hint.what = "deleted" -> InsertAt(found, hint.at, hint.name) = expected
         [] hint.what = "inserted" -> RemoveAt(found, hint.at) = expected
         [] hint.what = "renamed" -> [found EXCEPT ![hint.at] = hint.name] = expected
         [] OTHER -> changes > 1
HintMends(sheet) == Mends(HeaderHint(sheet), Trimmed(book[sheet].header), ColumnNames(sheet))

\* A refusal is never idle, and points at the row to mend: the first row of the
\* blank block, or the row with the cell that is wrong.
RefusalsAreTrue ==
    session.state = "refused" =>
        CASE session.why = "gap" ->
               LET table == book[session.sheet]
               IN  \E i, j \in DOMAIN table.rows :
                      /\ i <= j /\ RowNumber(table, i) = session.row
                      /\ \A k \in i..j : IsBlankRow(table.rows[k])
                      /\ RowNumber(table, j + 1) - session.row > MaxBlankRows
                      /\ i = 1 \/ ~IsBlankRow(table.rows[i - 1])
                      /\ HasDataBelow(table.rows, j)
          [] session.why = "cell" ->
               \E i \in DataElements(session.sheet) :
                   /\ RowNumber(book[session.sheet], i) = session.row
                   /\ \E c \in DOMAIN Schema(session.sheet) :
                         ValidateCell(Schema(session.sheet)[c], Seen(session.sheet, i)[c]) = Rejected
          [] session.why = "twice" ->
               \E i, j \in DataElements(session.sheet) :
                   /\ i # j \/ book[session.sheet].rows[i].repeat > 1
                   /\ IdOf(session.sheet, SeenRow(session.sheet, i)) =
                         IdOf(session.sheet, SeenRow(session.sheet, j))
          [] session.why = "header" -> HintMends(session.sheet)
          [] session.why = "password" -> book.pack.encrypted
          [] OTHER -> book.pack # SoundPack

\* An encrypted book is called that, and not damaged, though its parts are
\* unreadable; what mesh holds can always be written and reads back as it is.
SavesReadBack ==
    /\ session.state # "unsaved"
    /\ session.state = "refused" /\ book.pack.encrypted /\ book.pack.manifest = "sound"
         /\ ~book.pack.oversized => session.why = "password"
    /\ session.state \in {"loaded", "changed"} =>
          LET again == ParseDatabase(BuildDocument(session.Nodes, session.Keys))
          IN  /\ again.state = "loaded" /\ again.warnings = {}
              /\ again.Nodes = session.Nodes /\ again.Keys = session.Keys

SheetsAreWhole == RowsAreWhole /\ WarningsAreTrue /\ RefusalsAreTrue /\ SavesReadBack
=============================================================================
