----------------------------- MODULE MabDevices ------------------------------
(* The CSV files of the MAB whitelist: what export_csv writes of a table and *)
(* what import_csv makes of a file (features/mab_devices/service.py).        *)
(* A file is a header and lines of cells, a cell a text as in Evaluator; a   *)
(* device is a function of its columns.                                      *)
EXTENDS Evaluator, SequencesExt

CONSTANTS
  NormalMac,  \* the texts with twelve hexadecimal digits -> aa:bb:cc:dd:ee:ff
  Instant,    \* the texts a date is read from -> the time they name
  Iso,        \* isoformat(): a time -> its text
  Width       \* what the columns of a limited width hold: [column -> tokens]

CSV_KNOWN_HEADERS == {"mac_address", "name", "description", "device_type",
                      "assigned_vlan_id", "expiry_date"}
CsvHeader == <<"mac_address", "name", "description", "device_type", "assigned_vlan_id", "expiry_date">>

\* The names of the columns are lower case and not blank.
ASSUME HeadersAssumption == CSV_KNOWN_HEADERS \cap (DOMAIN Fold \cup {Blank}) = {}

ASSUME WidthAssumption ==
  DOMAIN Width \subseteq {"name", "description", "device_type"} /\ \A c \in DOMAIN Width : Width[c] \in Nat

\* VARCHAR(n): a text that is longer is no value of the column.
Fits(row) == \A c \in DOMAIN Width : row[c] = Null \/ Len(row[c][2]) <= Width[c]

\* A row: its address normal, its VLAN and its time such as can be written.
Optional(v, S) == v = Null \/ v \in S
MabDevice(d) ==
  /\ DOMAIN d = CSV_KNOWN_HEADERS \cup {"enabled"}
  /\ \E m \in DOMAIN NormalMac :
       d["mac_address"] = Text(m) /\ NormalMac[m] = m /\ m # <<>> /\ Strip(m) = m
  /\ \A c \in {"name", "description", "device_type"} : Optional(d[c], {"text"} \X Seq(Token))
  /\ Optional(d["assigned_vlan_id"], {<<"num", Numeral[t]>> : t \in {t \in DOMAIN Numeral : Numeral[t] \in 1 .. 4094}})
  /\ Optional(d["expiry_date"],
              {<<"time", x>> : x \in {x \in DOMAIN Iso : /\ Iso[x] \in DOMAIN Instant /\ Instant[Iso[x]] = x
                                                      /\ Iso[x] # <<>> /\ Strip(Iso[x]) = Iso[x]}})
  /\ Fits(d)

\* The cell of a column: None is written as an empty one.
Cell(device, column) ==
  LET v == device[column] IN
  CASE v = Null -> <<>>
    [] v # Null /\ IsA("time", v) -> Iso[v[2]]
    [] OTHER -> Str(v)

\* export_csv: a line for each device, a cell for each column but "enabled".
ExportCsv(table) ==
  LET devices == SetToSeq(table) IN
  [header |-> [j \in 1 .. 6 |-> <<CsvHeader[j]>>],
   lines  |-> [i \in DOMAIN devices |-> [j \in 1 .. 6 |-> Cell(devices[i], CsvHeader[j])]]]

-----------------------------------------------------------------------------
Key(h) == Lower(Strip(h))
Columns(file) == {c \in CSV_KNOWN_HEADERS : \E j \in DOMAIN file.header : Key(file.header[j]) = <<c>>}

\* A line shorter than the header has None in its last cells; one that is
\* longer has a list under the key None, which has no strip().
Overlong(file) == \E i \in DOMAIN file.lines : Len(file.lines[i]) > Len(file.header)
Blanks(line) == \A j \in DOMAIN line : Strip(line[j]) = <<>>

\* The known columns that are not blank on a line; of two columns with one
\* name the last counts.
Clean(file, line) ==
  LET named(c) == {j \in DOMAIN file.header : Key(file.header[j]) = <<c>>}
      value(c) == LET j == CHOOSE j \in named(c) : \A k \in named(c) : k <= j
                  IN IF j \in DOMAIN line THEN Strip(line[j]) ELSE <<>>
  IN [c \in {c \in Columns(file) : value(c) # <<>>} |-> value(c)]

\* What the validators of MabDeviceBulkItem accept, and the item they make.
Valid(given) ==
  /\ "mac_address" \in DOMAIN given /\ given.mac_address \in DOMAIN NormalMac
  /\ "assigned_vlan_id" \in DOMAIN given =>
       \E t \in DOMAIN Numeral : given.assigned_vlan_id = <<t>> /\ Numeral[t] \in 1 .. 4094
  /\ "expiry_date" \in DOMAIN given => given.expiry_date \in DOMAIN Instant

MabDeviceBulkItem(given) ==
  [c \in CSV_KNOWN_HEADERS |->
     CASE c \notin DOMAIN given -> Null
       [] c \in DOMAIN given /\ c = "mac_address" -> Text(NormalMac[given[c]])
       [] c \in DOMAIN given /\ c = "assigned_vlan_id" -> <<"num", Numeral[given[c][1]]>>
       [] c \in DOMAIN given /\ c = "expiry_date" -> <<"time", Instant[given[c]]>>
       [] OTHER -> Text(given[c])]

\* _parse_csv_to_bulk_items: the items by line, and the lines that are wrong
\* (0: the header); blank lines are neither.
Parsed(file) ==
  LET tried == {i \in DOMAIN file.lines : ~Blanks(file.lines[i])}
      given == [i \in tried |-> Clean(file, file.lines[i])]
      good  == {i \in tried : Valid(given[i])}
  IN IF "mac_address" \notin Columns(file) THEN [items |-> <<>>, errors |-> {0}]
     ELSE [items |-> [i \in good |-> MabDeviceBulkItem(given[i])], errors |-> tried \ good]

-----------------------------------------------------------------------------
\* An item becomes a row that is enabled.
Enlisted(item) == [c \in CSV_KNOWN_HEADERS \cup {"enabled"} |-> IF c = "enabled" THEN TRUE ELSE item[c]]

\* A mistake: ON CONFLICT DO UPDATE.
Upsert(state, item) ==
  LET rest == {d \in state.table : d["mac_address"] # item["mac_address"]}
  IN [table |-> rest \cup {Enlisted(item)}, created |-> state.created + 1, skipped |-> state.skipped]

\* bulk_insert_mab_device: ON CONFLICT (mac_address, tenant_id) DO NOTHING.
BulkInsert(state, item) ==
  IF \E d \in state.table : d["mac_address"] = item["mac_address"]
  THEN [table |-> state.table, created |-> state.created, skipped |-> state.skipped + 1]
  ELSE [table |-> state.table \cup {Enlisted(item)}, created |-> state.created + 1, skipped |-> state.skipped]

\* The INSERT of an item that does not fit raises, conflict or not, and the
\* transaction is rolled back with every item before it.
Refused(items) == \E i \in DOMAIN items : ~Fits(items[i])

\* bulk_import: one item after the other, so the first of two of a MAC stays.
BulkImport(items, last, table) ==
  LET after[n \in 0 .. last] ==
        IF n = 0 THEN [table |-> table, created |-> 0, skipped |-> 0]
        ELSE IF n \in DOMAIN items THEN BulkInsert(after[n - 1], items[n])
        ELSE after[n - 1]
  IN after[last]

\* import_csv, with the table it leaves and the lines that are wrong.  An
\* overlong line raises before any device is inserted.
ImportCsv(file, table) ==
  LET raised == [items |-> <<>>, errors |-> {"raises"}]
      read   == IF "mac_address" \in Columns(file) /\ Overlong(file) THEN raised ELSE Parsed(file)
      parsed == IF Refused(read.items) THEN raised ELSE read
      done   == BulkImport(parsed.items, Len(file.lines), table)
  IN [table |-> done.table, created |-> done.created, errors |-> parsed.errors]
=============================================================================
