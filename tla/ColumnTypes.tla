----------------------------- MODULE ColumnTypes -----------------------------
(***************************************************************************)
(* The type of one column and the form of its values on the way from the   *)
(* source to the destination: Field.ParseValue (lib/debezium) turns what   *)
(* Kafka delivers into Go values, Save infers the column's KindDetails     *)
(* from the values that arrive (lib/typing), a flush creates the column,   *)
(* takes over what the destination says about it                           *)
(* (MergeColumnsFromDestination), and every client casts the values for    *)
(* its temporary table.  A flush fails and is repeated with a grown batch, *)
(* and a restart reads the column's type back from the destination.        *)
(*                                                                         *)
(* A value is its Go type and what the code looks at: a text is one that   *)
(* is JSON, a date, a time, a timestamp or none of these.                  *)
(***************************************************************************)
EXTENDS Integers, FiniteSets

CONSTANTS
  MaxRows,     \* bound on the different values of a batch
  MaxFailures  \* bound on failing flushes

Destinations == {"snowflake", "bigquery", "redshift", "mssql", "s3"}

\* Precisions that are no precision: of no decimal, nil, and decimal.PrecisionNotSpecified.
NoDetails == -3
NilPrecision == -2
PrecisionNotSpecified == -1
MaxPrecisionBeforeString == 38
DefaultScale == 5

\* typing.KindDetails: the kind, ExtendedTimeDetails (type, and whether a format is set)
\* and ExtendedDecimalDetails.
Kind(k) == [k |-> k, t |-> "none", f |-> FALSE, p |-> NoDetails, s |-> 0]
TimeKind(t, f) == [Kind("time") EXCEPT !.t = t, !.f = f]

\* decimal.NewDecimal: NUMERIC(5, 6) of Postgres is NUMERIC(7, 6).
NewDecimal(p, s) == [p |-> IF p >= 0 /\ s > p THEN s + 1 ELSE p, s |-> s]
DecimalKind(p, s) == [Kind("decimal") EXCEPT !.p = NewDecimal(p, s).p, !.s = s]

Invalid == Kind("invalid")
Unknown == Kind("unknown")   \* not in the cache
Missing == Kind("missing")   \* the destination does not have the column

\* A Go value.
Value(go) == [go |-> go, t |-> "none", p |-> NoDetails, s |-> 0]
ExtendedTime(t) == [Value("etime") EXCEPT !.t = t]
Decimal(p, s) == [Value("decimal") EXCEPT !.p = NewDecimal(p, s).p, !.s = s]

Texts == {"text", "json", "date", "time", "datetime", "toast"}
IsText(v) == v.go \in Texts

-----------------------------------------------------------------------------
\* A field of a Debezium schema: type, name and the parameters of a decimal.  A field of
\* a MongoDB document has no schema.
Field(type, name) == [type |-> type, name |-> name, p |-> NoDetails, s |-> 0]
DecimalField(p, s) == [Field("bytes", "Decimal") EXCEPT !.p = p, !.s = s]

Fields ==
  {Field(type, "none") : type \in {"string", "bytes", "boolean", "int16", "int32", "int64", "float",
                                   "double", "struct", "array", "map"}}
  \cup {Field("string", name) : name \in {"Json", "Enum", "Uuid", "ZonedTimestamp", "ZonedTime"}}
  \cup {Field("int64", name) : name \in {"Timestamp", "MicroTimestamp", "MicroTime", "connect.Timestamp"}}
  \cup {Field("int32", name) : name \in {"Date", "Time", "Year", "connect.Date", "connect.Time"}}
  \cup {Field("struct", name) : name \in {"Point", "Geometry", "Geography", "VariableScaleDecimal"}}
  \cup {DecimalField(NilPrecision, 2), DecimalField(10, 2), DecimalField(10, 0), DecimalField(38, 0),
        DecimalField(39, 2), DecimalField(38, 12), DecimalField(5, 6)}
  \cup {Field("mongo", name) : name \in {"number", "boolean", "string", "date", "object", "list"}}

Schemaless(fd) == fd.type = "mongo"
Integers16to64 == {"int16", "int32", "int64"}
TimeOf(fd) ==
  IF fd.name \in {"Timestamp", "MicroTimestamp", "connect.Timestamp", "ZonedTimestamp"} THEN "datetime"
  ELSE IF fd.name \in {"Date", "connect.Date"} THEN "date"
  ELSE IF fd.name \in {"Time", "MicroTime", "connect.Time", "ZonedTime"} THEN "time"
  ELSE "none"

\* What arrives for the field, besides NULL: numbers are float64 after JSON.  Some times
\* no layout of ParseExtendedDateTime fits: a timestamp after the year 9999, a time of day
\* with trailing zeros.  They are texts.
Incoming(fd) ==
  IF fd.name = "Json" THEN {"json", "toast"}
  ELSE IF fd.name = "ZonedTimestamp" THEN {"datetime", "text"}
  ELSE IF fd.name = "ZonedTime" THEN {"time", "text"}
  ELSE IF fd.name = "Decimal" THEN {"base64"}
  ELSE IF fd.type = "string" THEN {"text", "json", "date", "toast"}
  ELSE IF fd.type = "bytes" THEN {"text"}
  ELSE IF fd.type = "boolean" \/ fd.name = "boolean" THEN {"bool"}
  ELSE IF fd.type \in {"struct", "map"} \/ fd.name = "object" THEN {"map"}
  ELSE IF fd.type = "array" \/ fd.name = "list" THEN {"slice"}
  ELSE IF fd.name = "string" THEN {"text", "json"}
  ELSE IF fd.name = "date" /\ Schemaless(fd) THEN {"date"}
  ELSE IF TimeOf(fd) # "none" THEN {"float", "far"}   \* "far": a year after 9999
  ELSE {"float"}

\* Field.ToKindDetails: by the Debezium name first, then by the type.
ToKindDetails(fd) ==
  IF TimeOf(fd) # "none" THEN TimeKind(TimeOf(fd), FALSE)
  ELSE IF fd.name \in {"Json", "Point", "Geometry", "Geography"} THEN Kind("struct")
  ELSE IF fd.name = "Decimal" THEN DecimalKind(fd.p, fd.s)
  ELSE IF fd.name = "VariableScaleDecimal" THEN DecimalKind(PrecisionNotSpecified, DefaultScale)
  ELSE IF fd.type \in {"map", "struct"} THEN Kind("struct")
  ELSE IF fd.type \in Integers16to64 THEN Kind("int")
  ELSE IF fd.type \in {"float", "double"} THEN Kind("float")
  ELSE IF fd.type \in {"string", "bytes"} THEN Kind("string")
  ELSE IF fd.type = "boolean" THEN Kind("bool")
  ELSE IF fd.type = "array" THEN Kind("array")
  ELSE Invalid

\* parseGeometry, parseGeometryPoint: GeoJSON of a map; no result is an error.
parseGeometry(raw) == IF raw = "map" THEN {Value("json")} ELSE {}

\* DecodeDecimal with the field's parameters, and with the scale the row comes with.
DecodeDecimal(fd) == {Decimal(fd.p, fd.s)}
DecodeDebeziumVariableDecimal == {Decimal(PrecisionNotSpecified, s) : s \in {0, 2}}

\* FromDebeziumTypeToTime: IsValid refuses years after 9999.
FromDebeziumTypeToTime(fd, raw) == IF raw = "far" THEN {} ELSE {ExtendedTime(TimeOf(fd))}

\* Field.ParseValue
FieldParseValue(fd, raw) ==
  IF raw \in {"nil", "toast"} THEN {Value(raw)}
  ELSE IF ToKindDetails(fd) = Kind("int") THEN {Value("int")}
  ELSE IF fd.name \in {"Point", "Geometry", "Geography"} THEN parseGeometry(raw)
  ELSE IF fd.name = "Decimal" THEN DecodeDecimal(fd)
  ELSE IF fd.name = "VariableScaleDecimal" THEN DecodeDebeziumVariableDecimal
  ELSE IF TimeOf(fd) # "none" /\ fd.type # "string" THEN FromDebeziumTypeToTime(fd, raw)
  ELSE {Value(raw)}

\* GetData keeps the original value of a field that does not parse.
GetData(fd, raw) ==
  IF FieldParseValue(fd, raw) # {} THEN FieldParseValue(fd, raw)
  ELSE {Value(IF raw = "far" THEN "float" ELSE raw)}

\* GetEventFromBytes of MongoDB: what ParseValue takes for a struct is marshalled, a text
\* that looks like JSON too.
GetEventFromBytes(raw) == {Value(IF raw = "map" THEN "json" ELSE IF raw = "json" THEN "text" ELSE raw)}

\* The values a row may get.
RowValues(fd, raw) == IF Schemaless(fd) THEN GetEventFromBytes(raw) ELSE GetData(fd, raw)

\* The part of typing.ParseValue that looks at the value.
KindOfValue(v) ==
  IF v.go = "int" THEN Kind("int")
  ELSE IF v.go = "float" THEN Kind("float")
  ELSE IF v.go = "bool" THEN Kind("bool")
  ELSE IF v.go \in {"date", "time", "datetime"} THEN TimeKind(v.go, TRUE)
  ELSE IF v.go \in {"json", "map"} THEN Kind("struct")
  ELSE IF v.go = "text" THEN Kind("string")
  ELSE IF v.go = "decimal" THEN DecimalKind(v.p, v.s)
  ELSE IF v.go = "etime" THEN TimeKind(v.t, TRUE)
  ELSE IF v.go = "slice" THEN Kind("array")
  ELSE Invalid

\* typing.ParseValue: the schema decides, but for times and decimals with a value.
ParseValue(fd, createAll, v) ==
  IF v.go = "nil" /\ ~createAll THEN Invalid
  ELSE IF Schemaless(fd) THEN KindOfValue(v)
  ELSE IF v.go # "nil" /\ ToKindDetails(fd).k \in {"time", "decimal"} THEN KindOfValue(v)
  ELSE ToKindDetails(fd)

-----------------------------------------------------------------------------
\* A destination's column type; blanks in its name are written as underscores.
Type(ty) == [ty |-> ty, p |-> 0, s |-> 0]
Numeric(ty, p, s) == [ty |-> ty, p |-> p, s |-> s]
NoColumn == Type("none")

\* Decimal.toKind
ToNumeric(kd, exceededKind) ==
  LET p == IF kd.p = NilPrecision THEN MaxPrecisionBeforeString ELSE kd.p
  IN IF p > MaxPrecisionBeforeString \/ p = PrecisionNotSpecified
     THEN Type(exceededKind) ELSE Numeric("numeric", p, kd.s)

\* Decimal.BigQueryKind with isNumeric and isBigNumeric
BigQueryKind(kd) ==
  LET least == IF kd.s > 1 THEN kd.s ELSE 1
      within(scale, more) == kd.p >= 0 /\ kd.s \in 0..scale /\ kd.p \in least..(kd.s + more)
  IN IF within(9, 29) THEN Numeric("numeric", kd.p, kd.s)
     ELSE IF within(38, 38) THEN Numeric("bignumeric", kd.p, kd.s)
     ELSE Type("string")

kindToSnowflake == [float |-> "float", int |-> "int", bool |-> "boolean", array |-> "array", struct |-> "variant",
  string |-> "string", datetime |-> "timestamp_tz", date |-> "date", time |-> "time"]
kindToBigQuery == [float |-> "float64", int |-> "int", bool |-> "bool", array |-> "array<string>", struct |-> "json",
  string |-> "string", datetime |-> "timestamp", date |-> "date", time |-> "time"]
kindToRedshift == [float |-> "float", int |-> "int8", bool |-> "boolean_null", array |-> "varchar(max)",
  struct |-> "super", string |-> "varchar(max)", datetime |-> "timestamp_with_time_zone", date |-> "date",
  time |-> "time"]
kindToMSSQL == [float |-> "float", int |-> "bigint", bool |-> "bit", array |-> "nvarchar(max)",
  struct |-> "nvarchar(max)", string |-> "varchar(max)", datetime |-> "datetime2", date |-> "date", time |-> "time"]

kindToDWH == [snowflake |-> kindToSnowflake, bigquery |-> kindToBigQuery, redshift |-> kindToRedshift,
  mssql |-> kindToMSSQL]

\* typing.KindToDWHType; a decimal without details is a nil pointer.
KindToDWHType(d, kd) ==
  IF kd.k = "time" THEN Type(kindToDWH[d][kd.t])
  ELSE IF kd.k # "decimal" THEN Type(kindToDWH[d][kd.k])
  ELSE IF kd.p = NoDetails THEN Type("panic")
  ELSE IF d = "bigquery" THEN BigQueryKind(kd)
  ELSE ToNumeric(kd, IF d = "snowflake" THEN "string" ELSE "text")

\* KindDetails.ParquetAnnotation
ParquetAnnotation(kd) ==
  IF kd.k \in {"string", "struct"} \/ kd.t \in {"date", "time"} THEN Type("byte_array")
  ELSE IF kd.k = "float" THEN Type("float")
  ELSE IF kd.k \in {"int", "time"} THEN Type("int64")
  ELSE IF kd.k = "decimal" /\ kd.p \in {NilPrecision, PrecisionNotSpecified} THEN Type("byte_array")
  ELSE IF kd.k = "decimal" THEN Numeric("decimal", kd.p, kd.s)
  ELSE IF kd.k = "bool" THEN Type("boolean")
  ELSE Type("list")

\* How the destination describes the column.
DescribedName(d, ty) ==
  IF d = "snowflake" /\ ty \in {"int", "numeric"} THEN "number"
  ELSE IF d = "snowflake" /\ ty = "string" THEN "varchar"
  ELSE IF d = "bigquery" /\ ty = "int" THEN "int64"
  ELSE IF d = "redshift" /\ ty = "int8" THEN "bigint"
  ELSE IF d = "redshift" /\ ty = "float" THEN "double_precision"
  ELSE IF d = "redshift" /\ ty \in {"varchar(max)", "text"} THEN "character_varying"
  ELSE IF d = "redshift" /\ ty = "boolean_null" THEN "boolean"
  ELSE IF d = "redshift" /\ ty = "time" THEN "time_without_time_zone"
  ELSE IF d = "mssql" /\ ty = "nvarchar(max)" THEN "nvarchar"
  ELSE IF d = "mssql" /\ ty = "varchar(max)" THEN "varchar"
  ELSE ty
Described(d, type) == [type EXCEPT !.ty = DescribedName(d, @)]

\* Faulty variant of ParseNumeric: a number is read as text.
ParseNumericAsText(type) == Kind("string")

\* typing.ParseNumeric: without a scale, or with scale 0, an integer.
ParseNumeric(type) == IF type.s = 0 THEN Kind("int") ELSE DecimalKind(type.p, type.s)

\* The names each destination uses.
snowflakeTypeToKind(type) ==
  IF type.ty \in {"number", "numeric"} THEN ParseNumeric(type)
  ELSE IF type.ty \in {"float", "double", "real"} THEN Kind("float")
  ELSE IF type.ty \in {"int", "integer", "bigint"} THEN Kind("int")
  ELSE IF type.ty \in {"varchar", "char", "string", "text"} THEN Kind("string")
  ELSE IF type.ty = "boolean" THEN Kind("bool")
  ELSE IF type.ty \in {"variant", "object"} THEN Kind("struct")
  ELSE IF type.ty = "array" THEN Kind("array")
  ELSE IF type.ty \in {"timestamp", "timestamp_tz", "timestamp_ntz"} THEN TimeKind("datetime", FALSE)
  ELSE IF type.ty \in {"time", "date"} THEN TimeKind(type.ty, FALSE)
  ELSE Invalid

\* A NUMERIC without parameters has no decimal details.
bigQueryTypeToKind(type) ==
  IF type.ty \in {"numeric", "bignumeric"} THEN (IF type.p = 0 THEN Kind("decimal") ELSE ParseNumeric(type))
  ELSE IF type.ty \in {"float", "float64"} THEN Kind("float")
  ELSE IF type.ty \in {"int", "int64"} THEN Kind("int")
  ELSE IF type.ty = "string" THEN Kind("string")
  ELSE IF type.ty \in {"bool", "boolean"} THEN Kind("bool")
  ELSE IF type.ty \in {"struct", "json", "record"} THEN Kind("struct")
  ELSE IF type.ty = "array<string>" THEN Kind("array")
  ELSE IF type.ty \in {"datetime", "timestamp"} THEN TimeKind("datetime", FALSE)
  ELSE IF type.ty \in {"time", "date"} THEN TimeKind(type.ty, FALSE)
  ELSE Invalid

redshiftTypeToKind(type) ==
  IF type.ty = "numeric" THEN ParseNumeric(type)
  ELSE IF type.ty = "character_varying" THEN Kind("string")
  ELSE IF type.ty = "super" THEN Kind("struct")
  ELSE IF type.ty \in {"integer", "bigint"} THEN Kind("int")
  ELSE IF type.ty = "double_precision" THEN Kind("float")
  ELSE IF type.ty \in {"timestamp_with_time_zone", "timestamp_without_time_zone"} THEN TimeKind("datetime", FALSE)
  ELSE IF type.ty = "time_without_time_zone" THEN TimeKind("time", FALSE)
  ELSE IF type.ty = "date" THEN TimeKind("date", FALSE)
  ELSE IF type.ty = "boolean" THEN Kind("bool")
  ELSE Invalid

mssqlTypeToKind(type) ==
  IF type.ty = "numeric" THEN ParseNumeric(type)
  ELSE IF type.ty \in {"char", "varchar", "nchar", "nvarchar", "ntext", "text"} THEN Kind("string")
  ELSE IF type.ty \in {"smallint", "tinyint", "bigint", "int"} THEN Kind("int")
  ELSE IF type.ty \in {"float", "real"} THEN Kind("float")
  ELSE IF type.ty \in {"datetime", "datetime2"} THEN TimeKind("datetime", FALSE)
  ELSE IF type.ty \in {"time", "date"} THEN TimeKind(type.ty, FALSE)
  ELSE IF type.ty = "bit" THEN Kind("bool")
  ELSE Invalid

DwhTypeToKind(d, type) ==
  IF d = "snowflake" THEN snowflakeTypeToKind(type)
  ELSE IF d = "bigquery" THEN bigQueryTypeToKind(type)
  ELSE IF d = "redshift" THEN redshiftTypeToKind(type)
  ELSE mssqlTypeToKind(type)

-----------------------------------------------------------------------------
(***************************************************************************)
(* What a value becomes for the temporary table or the file.               *)
(***************************************************************************)
\* fmt.Sprint
Sprint(v) ==
  IF v.go = "int" THEN "int"
  ELSE IF v.go = "float" THEN "number"
  ELSE IF v.go = "bool" THEN "bool"
  ELSE IF v.go = "decimal" THEN (IF v.s # 0 THEN "number" ELSE IF v.p \in 1..18 THEN "int" ELSE "bigint")
  ELSE IF v.go = "toast" THEN "text"
  ELSE IF IsText(v) THEN v.go
  ELSE "go_syntax"

\* ext.ParseFromInterface and the format that is then used.
TimeForm(kd, v) ==
  IF v.go \notin {"etime", "date", "time", "datetime"} \/ kd.t = "none" THEN "error"
  ELSE IF kd.t = "time" \/ kd.f THEN kd.t
  ELSE IF v.go = "etime" THEN v.t
  ELSE v.go

\* A struct: the TOAST placeholder becomes an object, what is no text is marshalled.
StructForm(kd, v) ==
  IF kd # Kind("struct") THEN Sprint(v) ELSE IF v.go = "toast" \/ ~IsText(v) THEN "json" ELSE v.go

\* values.ToString, for Snowflake and Redshift
ToString(kd, v) ==
  IF kd.k = "time" THEN TimeForm(kd, v)
  ELSE IF kd.k = "string" THEN (IF v.go \in {"map", "slice"} THEN "json" ELSE Sprint(v))
  ELSE IF kd.k = "struct" THEN StructForm(kd, v)
  ELSE IF kd.k = "array" THEN "json"
  ELSE IF kd.k = "int" /\ v.go \in {"float", "bool"} THEN "int"
  ELSE IF kd.k = "decimal" /\ v.go # "float" /\ v.go # "decimal" /\ ~IsText(v) THEN "error"
  ELSE Sprint(v)

\* castColVal of BigQuery; Decimal.Value is a string when it may have too many digits.
castColVal(kd, v) ==
  IF kd.k = "decimal" THEN (IF v.go = "decimal" THEN Sprint(v) ELSE "error")
  ELSE IF kd.k = "time" /\ TimeForm(kd, v) = "error" THEN "error"
  ELSE IF kd.k = "time" THEN kd.t
  ELSE IF kd.k = "struct" /\ v.go = "toast" THEN "json"
  ELSE IF kd.k = "array" THEN "array"
  ELSE Sprint(v)

\* parseValue of MSSQL: the driver gets a Go value.
parseValue(kd, v) ==
  IF kd.k = "time" THEN (IF v.go \in {"etime", "date", "time", "datetime"} THEN "go_time" ELSE "error")
  ELSE IF kd.k = "string" THEN (IF v.go \in {"map", "slice"} THEN "json" ELSE Sprint(v))
  ELSE IF kd.k = "struct" THEN StructForm(kd, v)
  ELSE IF kd.k = "array" THEN "json"
  ELSE IF kd.k \in {"int", "float"} /\ IsText(v) THEN "error"
  ELSE IF kd.k \in {"int", "float"} /\ v.go = "decimal" THEN "go_decimal"
  ELSE IF kd.k = "bool" THEN (IF v.go \in {"bool", "int"} THEN "bool" ELSE "error")
  ELSE IF kd.k = "decimal" /\ v.go # "float" /\ v.go # "decimal" /\ ~IsText(v) THEN "error"
  ELSE Sprint(v)

\* parquetutil.ParseValue: a date or time is formatted with the column's format alone.
ParquetValue(kd, v) ==
  IF kd.k = "time" /\ TimeForm(kd, v) = "error" THEN "error"
  ELSE IF kd.k = "time" /\ kd.t = "datetime" THEN "int"
  ELSE IF kd.k = "time" THEN (IF kd.f THEN kd.t ELSE "empty")
  ELSE IF kd.k = "struct" THEN StructForm(kd, v)
  ELSE IF kd.k = "array" THEN "array"
  ELSE IF kd.k = "decimal" THEN (IF v.go = "decimal" THEN Sprint(v) ELSE "error")
  ELSE Sprint(v)

Cast(d, kd, v) ==
  IF v.go = "nil" THEN "null"
  ELSE IF d \in {"snowflake", "redshift"} THEN ToString(kd, v)
  ELSE IF d = "bigquery" THEN castColVal(kd, v)
  ELSE IF d = "mssql" THEN parseValue(kd, v)
  ELSE ParquetValue(kd, v)

Numbers == {"numeric", "bignumeric", "float", "float64", "int", "decimal"}
TextTypes == {"string", "varchar(max)", "nvarchar(max)", "text", "byte_array"}
DateTimes == {"timestamp_tz", "timestamp", "timestamp_with_time_zone", "datetime2"}

\* What a column of the type can hold.  Snowflake's int is NUMBER(38, 0).
Accepts(d, type, form) ==
  \/ form = "null"
  \/ type.ty \in Numbers /\ form \in {"int", "number", "bigint"} /\ ~(d = "bigquery" /\ type.ty = "int")
  \/ type.ty \in {"int", "int8", "bigint", "int64"} /\ form = "int"
  \/ type.ty \in TextTypes /\ form \notin {"error", "empty", "go_syntax", "go_decimal", "go_time"}
  \/ type.ty \in {"variant", "json", "super"} /\ form = "json"
  \/ type.ty = "array" /\ form = "json"
  \/ type.ty \in {"array<string>", "list"} /\ form = "array"
  \/ type.ty \in {"boolean", "boolean_null", "bool", "bit"} /\ form = "bool"
  \/ type.ty \in DateTimes /\ form \in {"datetime", "go_time"}
  \/ type.ty \in {"date", "time"} /\ form \in {type.ty, "go_time"}

\* A value of the first type can be assigned to a column of the second.
Assignable(from, to) ==
  \/ from.ty = to.ty
  \/ from.ty \in TextTypes /\ to.ty \in TextTypes
  \/ from.ty \in Numbers \cup {"int8", "bigint"} /\ to.ty \in Numbers \cup {"int8", "bigint"}

-----------------------------------------------------------------------------
VARIABLES
  dest,       \* the destination's kind
  field,      \* the source's column
  createAll,  \* createAllColumnsIfAvailable
  kind,       \* KindDetails of the in-memory column
  rows,       \* the column's values in the buffered rows
  column,     \* the destination's column
  cached,     \* KindDetails of the column in the DwhTableConfig
  pc,         \* "idle" or "staging"
  failures

vars == <<dest, field, createAll, kind, rows, column, cached, pc, failures>>

\* The destination has no such column yet, or somebody made it a plain NUMERIC of BigQuery.
PlainNumeric(d, fd) ==
  IF d = "bigquery" /\ fd.name = "Decimal" /\ BigQueryKind(ToKindDetails(fd)).ty = "numeric"
  THEN {Type("numeric")} ELSE {}

Init ==
  /\ dest \in Destinations
  /\ field \in Fields
  /\ createAll \in BOOLEAN
  /\ kind = Invalid
  /\ rows = {}
  /\ column \in {NoColumn} \cup PlainNumeric(dest, field)
  /\ cached = Unknown
  /\ pc = "idle"
  /\ failures = 0

\* Save: the column's kind is inferred until one is known; a placeholder says nothing.
Save(v) ==
  /\ pc = "idle"
  /\ Cardinality(rows \cup {v}) <= MaxRows
  /\ rows' = rows \cup {v}
  /\ kind' = IF kind = Invalid /\ v.go # "toast" THEN ParseValue(field, createAll, v) ELSE kind
  /\ UNCHANGED <<dest, field, createAll, column, cached, pc, failures>>

\* GetTableConfig: the cached column or what the destination describes.
TableConfig ==
  IF cached # Unknown THEN cached
  ELSE IF column = NoColumn THEN Missing ELSE DwhTypeToKind(dest, Described(dest, column))

\* Faulty variant of Retyped: an integer replaces a decimal.
RetypedAlways(found) ==
  [kind EXCEPT !.k = found.k,
               !.t = IF found.t # "none" THEN found.t ELSE @,
               !.p = IF @ = NoDetails THEN found.p ELSE @,
               !.s = IF kind.p = NoDetails THEN found.s ELSE @]

\* Faulty variant of Retyped: the details stay behind.
RetypedKindOnly(found) == [kind EXCEPT !.k = found.k]

\* MergeColumnsFromDestination: the destination's kind replaces the one in memory, unless
\* an integer would replace a decimal; the format and known decimal details stay.
Retyped(found) ==
  [kind EXCEPT !.k = IF @ = "decimal" /\ found.k = "int" THEN @ ELSE found.k,
               !.t = IF found.t # "none" THEN found.t ELSE @,
               !.p = IF @ = NoDetails THEN found.p ELSE @,
               !.s = IF kind.p = NoDetails THEN found.s ELSE @]

\* A flush: the column is added unless its kind is invalid, and the types are merged.
StartFlush ==
  /\ pc = "idle"
  /\ rows # {}
  /\ pc' = "staging"
  /\ IF dest = "s3" THEN UNCHANGED <<kind, column, cached>>
     ELSE LET added == TableConfig = Missing /\ kind # Invalid
              found == IF added THEN kind ELSE TableConfig
          IN /\ column' = IF added THEN KindToDWHType(dest, kind) ELSE column
             /\ cached' = found
             /\ kind' = IF found = Missing THEN kind ELSE Retyped(found)
  /\ UNCHANGED <<dest, field, createAll, rows, failures>>

\* The type of the column in the temporary table or the file; invalid ones are left out.
StagedType == IF dest = "s3" THEN ParquetAnnotation(kind) ELSE KindToDWHType(dest, kind)

\* The nil pointer of a decimal without details.
Panics == kind # Invalid /\ StagedType.ty = "panic"

Staged == kind # Invalid => ~Panics /\ \A v \in rows : Accepts(dest, StagedType, Cast(dest, kind, v))

\* The batch is written and wiped.
FlushSucceeds ==
  /\ pc = "staging"
  /\ Staged
  /\ rows' = {}
  /\ kind' = Invalid
  /\ pc' = "idle"
  /\ UNCHANGED <<dest, field, createAll, column, cached, failures>>

\* The destination fails, or the values cannot be staged; the batch and its columns stay.
FlushFails ==
  /\ pc = "staging"
  /\ ~Panics
  /\ IF Staged THEN failures < MaxFailures /\ failures' = failures + 1 ELSE UNCHANGED failures
  /\ pc' = "idle"
  /\ UNCHANGED <<dest, field, createAll, kind, rows, column, cached>>

\* A restart, after a panic or for another reason; the rows are delivered again.
Restart ==
  /\ rows' = {}
  /\ kind' = Invalid
  /\ cached' = Unknown
  /\ pc' = "idle"
  /\ UNCHANGED <<dest, field, createAll, column, failures>>

Next ==
  \/ \E raw \in Incoming(field) \cup {"nil"} : \E v \in RowValues(field, raw) : Save(v)
  \/ StartFlush \/ FlushSucceeds \/ FlushFails \/ Restart

Spec == Init /\ [][Next]_vars

-----------------------------------------------------------------------------
Precisions == {NoDetails, NilPrecision, PrecisionNotSpecified} \cup Nat
Kinds == [k: {"invalid", "unknown", "missing", "float", "int", "decimal", "bool", "array", "struct", "string", "time"},
          t: {"none", "date", "time", "datetime"}, f: BOOLEAN, p: Precisions, s: Nat]

\* The shape of every variable: the column in memory never has a kind that only stands for
\* the cache's or the destination's lack of one, and a time says which time it is.
TypeOK ==
  /\ dest \in Destinations
  /\ field \in Fields
  /\ createAll \in BOOLEAN
  /\ kind \in Kinds /\ kind.k \notin {"unknown", "missing"}
  /\ kind.k = "time" => kind.t # "none"
  /\ cached \in Kinds
  /\ pc \in {"idle", "staging"}
  /\ failures \in Nat
  /\ IsFiniteSet(rows)

\* What is known to go wrong: a time that did not parse stays a number or a text, and even
\* makes the column one; BigQuery does not marshal a map; the decimal details of a plain NUMERIC are nil; an integer taken over
\* for NULLs stays when the flush fails and decimals follow; and a Parquet file gets no
\* date when the column's kind came without a format.
Unparsed ==
  /\ TimeOf(field) # "none"
  /\ rows \cap {Value("float"), Value("text")} # {} \/ column.ty \in {"float", "float64"} \cup TextTypes
UnmarshalledMap == dest = "bigquery" /\ Value("map") \in rows
NilDetails == kind.k = "decimal" /\ kind.p = NoDetails
StaleInteger == kind.k = "int" /\ field.name = "Decimal" /\ failures > 0
NoFormat == dest = "s3" /\ kind.k = "time" /\ ~kind.f
KnownDefect == Unparsed \/ UnmarshalledMap \/ NilDetails \/ StaleInteger \/ NoFormat

\* Type inference, the destination's description and the casts of a client agree: every
\* buffered value of a column, whichever value came first, whether the column was just
\* created, cached or described after a restart, and however often the flush was
\* repeated, takes a form the temporary column accepts (but for the known defects).
StagingNeverSticks == pc = "staging" => Staged \/ KnownDefect

\* The temporary column can be merged into the target's: MergeColumnsFromDestination and
\* the two directions of the type mapping never let them drift apart, so no MERGE has to
\* assign text to a number or an object to a string.
TempFitsTarget ==
  pc = "staging" /\ dest # "s3" /\ kind # Invalid /\ ~KnownDefect => Assignable(StagedType, column)

=============================================================================
