-------------------------- MODULE ColumnTypesProofs --------------------------
(***************************************************************************)
(* Proofs about ColumnTypes, for batches of any size and any number of     *)
(* failing flushes and restarts: every Debezium and MongoDB field on every *)
(* destination.                                                            *)
(***************************************************************************)
EXTENDS ColumnTypes, FiniteSetTheorems, TLAPS

\* Fields are told apart by what they hold: a time, a decimal, or something whose kind
\* has no details.
TimeName(fd) == IF fd.type = "mongo" /\ fd.name = "date" THEN "date" ELSE TimeOf(fd)
IsDecimal(fd) == fd.name \in {"Decimal", "VariableScaleDecimal"}
IsPlain(fd) == TimeName(fd) = "none" /\ ~IsDecimal(fd)

MongoKind(name) ==
  IF name = "number" THEN "float"
  ELSE IF name = "boolean" THEN "bool"
  ELSE IF name = "object" THEN "struct"
  ELSE IF name = "list" THEN "array"
  ELSE "string"
PlainKind(fd) == IF fd.type = "mongo" THEN MongoKind(fd.name) ELSE ToKindDetails(fd).k

\* The values of a field of the kind, besides NULL.
PlainValues(k) ==
  IF k = "string" THEN {"text", "json", "date", "toast"}
  ELSE IF k = "struct" THEN {"map", "json", "toast"}
  ELSE IF k = "array" THEN {"slice"}
  ELSE {k}
PlainKinds == {"string", "bool", "int", "float", "array", "struct"}
Times == {"date", "time", "datetime"}
Warehouses == Destinations \ {"s3"}

\* What a warehouse makes of such a kind: some have no type for an array or an object.
Reread(d, k) == IF (d \in {"redshift", "mssql"} /\ k = "array") \/ (d = "mssql" /\ k = "struct") THEN "string" ELSE k

\* The type of the column in the temporary table or the file.
TypeOf(d, kd) == IF d = "s3" THEN ParquetAnnotation(kd) ELSE KindToDWHType(d, kd)

\* The types the warehouses have for the kinds without details and for times,
Creates(d, k, ty) ==
  \/ /\ d = "snowflake"
     /\ \/ (k = "float" /\ ty = "float") \/ (k = "int" /\ ty = "int") \/ (k = "bool" /\ ty = "boolean")
        \/ (k = "array" /\ ty = "array") \/ (k = "struct" /\ ty = "variant") \/ (k = "string" /\ ty = "string")
        \/ (k = "datetime" /\ ty = "timestamp_tz") \/ (k = "date" /\ ty = "date") \/ (k = "time" /\ ty = "time")
  \/ /\ d = "bigquery"
     /\ \/ (k = "float" /\ ty = "float64") \/ (k = "int" /\ ty = "int") \/ (k = "bool" /\ ty = "bool")
        \/ (k = "array" /\ ty = "array<string>") \/ (k = "struct" /\ ty = "json") \/ (k = "string" /\ ty = "string")
        \/ (k = "datetime" /\ ty = "timestamp") \/ (k = "date" /\ ty = "date") \/ (k = "time" /\ ty = "time")
  \/ /\ d = "redshift"
     /\ \/ (k = "float" /\ ty = "float") \/ (k = "int" /\ ty = "int8") \/ (k = "bool" /\ ty = "boolean_null")
        \/ (k = "array" /\ ty = "varchar(max)") \/ (k = "struct" /\ ty = "super") \/ (k = "string" /\ ty = "varchar(max)")
        \/ (k = "datetime" /\ ty = "timestamp_with_time_zone") \/ (k = "date" /\ ty = "date") \/ (k = "time" /\ ty = "time")
  \/ /\ d = "mssql"
     /\ \/ (k = "float" /\ ty = "float") \/ (k = "int" /\ ty = "bigint") \/ (k = "bool" /\ ty = "bit")
        \/ (k = "array" /\ ty = "nvarchar(max)") \/ (k = "struct" /\ ty = "nvarchar(max)") \/ (k = "string" /\ ty = "varchar(max)")
        \/ (k = "datetime" /\ ty = "datetime2") \/ (k = "date" /\ ty = "date") \/ (k = "time" /\ ty = "time")

\* and the names under which they describe them.
Describes(d, k, ty) ==
  \/ /\ d = "snowflake"
     /\ \/ (k = "float" /\ ty = "float") \/ (k = "int" /\ ty = "number") \/ (k = "bool" /\ ty = "boolean")
        \/ (k = "array" /\ ty = "array") \/ (k = "struct" /\ ty = "variant") \/ (k = "string" /\ ty = "varchar")
        \/ (k = "datetime" /\ ty = "timestamp_tz") \/ (k = "date" /\ ty = "date") \/ (k = "time" /\ ty = "time")
  \/ /\ d = "bigquery"
     /\ \/ (k = "float" /\ ty = "float64") \/ (k = "int" /\ ty = "int64") \/ (k = "bool" /\ ty = "bool")
        \/ (k = "array" /\ ty = "array<string>") \/ (k = "struct" /\ ty = "json") \/ (k = "string" /\ ty = "string")
        \/ (k = "datetime" /\ ty = "timestamp") \/ (k = "date" /\ ty = "date") \/ (k = "time" /\ ty = "time")
  \/ /\ d = "redshift"
     /\ \/ (k = "float" /\ ty = "double_precision") \/ (k = "int" /\ ty = "bigint") \/ (k = "bool" /\ ty = "boolean")
        \/ (k = "array" /\ ty = "character_varying") \/ (k = "struct" /\ ty = "super") \/ (k = "string" /\ ty = "character_varying")
        \/ (k = "datetime" /\ ty = "timestamp_with_time_zone") \/ (k = "date" /\ ty = "date") \/ (k = "time" /\ ty = "time_without_time_zone")
  \/ /\ d = "mssql"
     /\ \/ (k = "float" /\ ty = "float") \/ (k = "int" /\ ty = "bigint") \/ (k = "bool" /\ ty = "bit")
        \/ (k = "array" /\ ty = "nvarchar") \/ (k = "struct" /\ ty = "nvarchar") \/ (k = "string" /\ ty = "varchar")
        \/ (k = "datetime" /\ ty = "datetime2") \/ (k = "date" /\ ty = "date") \/ (k = "time" /\ ty = "time")

\* A decimal with details, and which of them Transfer deals with: the precision is at
\* least the scale.
Dec(p, s) == [Kind("decimal") EXCEPT !.p = p, !.s = s]
Proper(p, s) ==
  /\ s \in Nat
  /\ \/ p = PrecisionNotSpecified
     \/ p = NilPrecision /\ s <= 38
     \/ p \in Nat /\ s <= p

\* The warehouse has a number for it, and not a text.
IsNumber(d, p, s) ==
  IF d = "bigquery" THEN p >= 1 /\ s <= 38 /\ s <= p /\ p <= s + 38
  ELSE p # PrecisionNotSpecified /\ p <= 38
NumberField(d, fd) == IsNumber(d, ToKindDetails(fd).p, ToKindDetails(fd).s)

\* A kind that a column of such a field may have.
Fits(d, fd, kd) ==
  /\ kd \in Kinds
  /\ kd.k \in {"decimal", "int", "string"}
  /\ kd.t = "none" /\ kd.f = FALSE
  /\ kd.k = "int" => NumberField(d, fd)
  /\ kd.k = "string" => ~NumberField(d, fd)
  /\ IF kd.p = NoDetails THEN kd.s = 0
     ELSE Proper(kd.p, kd.s) /\ (IsNumber(d, kd.p, kd.s) <=> NumberField(d, fd))

-----------------------------------------------------------------------------
\* The types and names of fields.
LEMMA FieldFacts ==
  ASSUME NEW fd \in Fields
  PROVE  \/ fd.type \in {"string", "bytes", "boolean", "int16", "int32", "int64", "float", "double", "struct", "array",
                         "map"} /\ fd.name = "none"
         \/ fd.type = "string" /\ fd.name \in {"Json", "Enum", "Uuid", "ZonedTimestamp", "ZonedTime"}
         \/ fd.type = "int64" /\ fd.name \in {"Timestamp", "MicroTimestamp", "MicroTime", "connect.Timestamp"}
         \/ fd.type = "int32" /\ fd.name \in {"Date", "Time", "Year", "connect.Date", "connect.Time"}
         \/ fd.type = "struct" /\ fd.name \in {"Point", "Geometry", "Geography", "VariableScaleDecimal"}
         \/ /\ fd.type = "bytes" /\ fd.name = "Decimal" /\ fd.s \in {0, 2, 6, 12}
            /\ \/ fd.p = NilPrecision /\ fd.s = 2
               \/ fd.p \in {5, 10, 38, 39} /\ (fd.s <= fd.p \/ fd.p = 5)
         \/ fd.type = "mongo" /\ fd.name \in {"number", "boolean", "string", "date", "object", "list"}
<1>1. \A type, name : Field(type, name).type = type /\ Field(type, name).name = name
  BY DEF Field
<1>2. \A p, s : /\ DecimalField(p, s).type = "bytes" /\ DecimalField(p, s).name = "Decimal"
                /\ DecimalField(p, s).p = p /\ DecimalField(p, s).s = s
  BY DEF DecimalField, Field
<1>3. CASE fd \in {DecimalField(NilPrecision, 2), DecimalField(10, 2), DecimalField(10, 0), DecimalField(38, 0),
                   DecimalField(39, 2), DecimalField(38, 12), DecimalField(5, 6)}
  BY <1>2, <1>3
<1> QED
  BY <1>1, <1>3 DEF Fields

\* The fields of a kind and of a value.
LEMMA RecordFacts ==
  /\ \A k : Kind(k).k = k /\ Kind(k).t = "none" /\ Kind(k).f = FALSE /\ Kind(k).p = NoDetails /\ Kind(k).s = 0
  /\ \A t, f : /\ TimeKind(t, f).k = "time" /\ TimeKind(t, f).t = t /\ TimeKind(t, f).f = f
               /\ TimeKind(t, f).p = NoDetails /\ TimeKind(t, f).s = 0
  /\ \A go : Value(go).go = go
  /\ \A t : ExtendedTime(t).go = "etime" /\ ExtendedTime(t).t = t
BY DEF Kind, TimeKind, Value, ExtendedTime

\* ToKindDetails of a field without details, and the kind of a MongoDB field's values.
LEMMA PlainFacts ==
  ASSUME NEW fd \in Fields, IsPlain(fd)
  PROVE  /\ PlainKind(fd) \in PlainKinds
         /\ fd.type # "mongo" => ToKindDetails(fd) = Kind(PlainKind(fd))
<1>1. CASE fd.type = "mongo"
  BY <1>1, FieldFacts DEF IsPlain, TimeName, PlainKind, MongoKind, PlainKinds
<1>2. CASE fd.type # "mongo"
  <2>1. TimeOf(fd) = "none" /\ ~IsDecimal(fd)
    BY <1>2 DEF IsPlain, TimeName
  <2>2. \E k \in PlainKinds : ToKindDetails(fd) = Kind(k)
    BY <1>2, <2>1, FieldFacts DEF ToKindDetails, PlainKinds, Integers16to64, IsDecimal
  <2> QED
    BY <1>2, <2>2, RecordFacts DEF PlainKind
<1> QED
  BY <1>1, <1>2

\* The values GetData and GetEventFromBytes make of such a field.
LEMMA PlainValueFacts ==
  ASSUME NEW fd \in Fields, IsPlain(fd), NEW raw \in Incoming(fd) \cup {"nil"}, NEW v \in RowValues(fd, raw)
  PROVE  \E go \in {"nil"} \cup PlainValues(PlainKind(fd)) : v = Value(go)
<1>1. CASE fd.type = "mongo"
  BY <1>1, FieldFacts DEF IsPlain, TimeName, PlainKind, MongoKind, PlainValues, Incoming, RowValues, GetEventFromBytes,
    Schemaless, TimeOf
<1>2. CASE fd.type # "mongo"
  <2>1. TimeOf(fd) = "none" /\ ~IsDecimal(fd)
    BY <1>2 DEF IsPlain, TimeName
  <2>2. v \in GetData(fd, raw)
    BY <1>2 DEF RowValues, Schemaless
  <2>3. ToKindDetails(fd) = Kind(PlainKind(fd)) /\ PlainKind(fd) \in PlainKinds
    BY <1>2, PlainFacts
  <2>4. CASE fd.name \in {"Point", "Geometry", "Geography"}
    <3>1. PlainKind(fd) = "struct"
      BY <1>2, <2>1, <2>4, RecordFacts DEF PlainKind, ToKindDetails
    <3> QED
      BY <2>1, <2>2, <2>3, <2>4, <3>1, FieldFacts, RecordFacts DEF PlainValues, Incoming, GetData, FieldParseValue,
        parseGeometry
  <2>5. CASE PlainKind(fd) = "int"
    BY <2>1, <2>2, <2>3, <2>5, FieldFacts, RecordFacts DEF PlainValues, Incoming, GetData, FieldParseValue,
      ToKindDetails, Integers16to64, IsDecimal
  <2>6. CASE PlainKind(fd) # "int" /\ fd.name \notin {"Point", "Geometry", "Geography"}
    <3>1. v = Value(raw)
      BY <2>1, <2>2, <2>3, <2>6, RecordFacts, FieldFacts DEF GetData, FieldParseValue, IsDecimal, Incoming
    <3>2. ToKindDetails(fd).k = PlainKind(fd)
      BY <2>3, RecordFacts
    <3>3. PlainKind(fd) = IF fd.name = "Json" \/ fd.type \in {"map", "struct"} THEN "struct"
                          ELSE IF fd.type \in {"string", "bytes"} THEN "string"
                          ELSE IF fd.type = "boolean" THEN "bool"
                          ELSE IF fd.type = "array" THEN "array"
                          ELSE "float"
      BY <1>2, <2>1, <2>6, <3>2, RecordFacts, FieldFacts DEF ToKindDetails, Integers16to64, IsDecimal
    <3>4. raw = "nil" \/
          raw \in IF fd.name = "Json" THEN {"json", "toast"}
                 ELSE IF fd.type = "string" THEN {"text", "json", "date", "toast"}
                 ELSE IF fd.type = "bytes" THEN {"text"}
                 ELSE IF fd.type = "boolean" THEN {"bool"}
                 ELSE IF fd.type \in {"struct", "map"} THEN {"map"}
                 ELSE IF fd.type = "array" THEN {"slice"}
                 ELSE {"float"}
      BY <1>2, <2>1, FieldFacts DEF Incoming, IsDecimal, Schemaless, TimeOf
    <3>5. raw \in {"nil"} \cup PlainValues(PlainKind(fd))
      BY <3>3, <3>4 DEF PlainValues
    <3> QED
      BY <3>1, <3>5
  <2> QED
    BY <2>4, <2>5, <2>6
<1> QED
  BY <1>1, <1>2

\* The first value that is no placeholder gives the column its kind, if any does.
LEMMA PlainParse ==
  ASSUME NEW fd \in Fields, IsPlain(fd), NEW raw \in Incoming(fd) \cup {"nil"}, NEW v \in RowValues(fd, raw),
         v.go # "toast", NEW c \in BOOLEAN
  PROVE  ParseValue(fd, c, v) \in {Invalid, Kind(PlainKind(fd))}
<1>1. CASE fd.type = "mongo"
  <2>1. v = Value(IF raw = "map" THEN "json" ELSE IF raw = "json" THEN "text" ELSE raw)
    BY <1>1 DEF RowValues, GetEventFromBytes, Schemaless
  <2>2. ParseValue(fd, c, v) \in {Invalid, KindOfValue(v)}
    BY <1>1 DEF ParseValue, Schemaless
  <2>3. fd.name \in {"number", "boolean", "string", "object", "list"}
    BY <1>1, FieldFacts DEF IsPlain, TimeName
  <2>4. \/ raw = "nil"
        \/ fd.name = "number" /\ raw = "float"
        \/ fd.name = "boolean" /\ raw = "bool"
        \/ fd.name = "string" /\ raw \in {"text", "json"}
        \/ fd.name = "object" /\ raw = "map"
        \/ fd.name = "list" /\ raw = "slice"
    BY <1>1, <2>3 DEF Incoming, Schemaless, TimeOf
  <2>5. \/ v.go = "nil"
        \/ fd.name = "number" /\ v.go = "float"
        \/ fd.name = "boolean" /\ v.go = "bool"
        \/ fd.name = "string" /\ v.go = "text"
        \/ fd.name = "object" /\ v.go = "json"
        \/ fd.name = "list" /\ v.go = "slice"
    BY <2>1, <2>3, <2>4, RecordFacts
  <2>6. KindOfValue(v) = Invalid \/ KindOfValue(v) = Kind(MongoKind(fd.name))
    BY <2>3, <2>5 DEF KindOfValue, MongoKind
  <2> QED
    BY <1>1, <2>2, <2>6 DEF PlainKind
<1>2. CASE fd.type # "mongo"
  <2>1. ToKindDetails(fd) = Kind(PlainKind(fd)) /\ PlainKind(fd) \in PlainKinds
    BY <1>2, PlainFacts
  <2>2. ToKindDetails(fd).k \notin {"time", "decimal"}
    BY <2>1, RecordFacts DEF PlainKinds
  <2> QED
    BY <1>2, <2>1, <2>2 DEF ParseValue, Schemaless
<1> QED
  BY <1>1, <1>2

\* What a type looks like when it is described.
LEMMA DescribedFacts ==
  /\ \A ty : Type(ty).ty = ty /\ Type(ty).p = 0 /\ Type(ty).s = 0
  /\ \A d, ty, p, s : /\ Described(d, Numeric(ty, p, s)).ty = DescribedName(d, ty)
                      /\ Described(d, Numeric(ty, p, s)).p = p
                      /\ Described(d, Numeric(ty, p, s)).s = s
  /\ \A d, ty : Described(d, Type(ty)).ty = DescribedName(d, ty)
BY DEF Type, Numeric, Described

\* What the warehouses call the columns Transfer creates.
LEMMA NameFacts ==
  ASSUME NEW d \in Warehouses, NEW k \in PlainKinds \cup Times
  PROVE  /\ Creates(d, k, kindToDWH[d][k])
         /\ Describes(d, k, DescribedName(d, kindToDWH[d][k]))
         /\ kindToDWH[d][k] \notin {"none", "panic"}
         /\ k \in Times => kindToDWH[d][k] \notin {"float", "float64"} \cup TextTypes
<1> DEFINE ty == kindToDWH[d][k]
<1>1. d \in {"snowflake", "bigquery", "redshift", "mssql"}
  BY DEF Warehouses, Destinations
<1>2. k \in {"string", "bool", "int", "float", "array", "struct", "date", "time", "datetime"}
  BY DEF PlainKinds, Times
<1>3. CASE d = "snowflake"
  <2>1. kindToDWH[d] = kindToSnowflake
    BY <1>3 DEF kindToDWH
  <2>2. Creates(d, k, ty)
    BY <1>2, <1>3, <2>1 DEF kindToSnowflake, Creates
  <2> HIDE DEF ty
  <2>3. Describes(d, k, DescribedName(d, ty)) /\ ty \notin {"none", "panic"} /\ (k \in Times => ty \notin {"float", "float64"} \cup TextTypes)
    BY <1>3, <2>2 DEF Creates, Describes, DescribedName, Times, TextTypes
  <2> QED
    BY <2>2, <2>3 DEF ty
<1>4. CASE d = "bigquery"
  <2>1. kindToDWH[d] = kindToBigQuery
    BY <1>4 DEF kindToDWH
  <2>2. Creates(d, k, ty)
    BY <1>2, <1>4, <2>1 DEF kindToBigQuery, Creates
  <2> HIDE DEF ty
  <2>3. Describes(d, k, DescribedName(d, ty)) /\ ty \notin {"none", "panic"} /\ (k \in Times => ty \notin {"float", "float64"} \cup TextTypes)
    BY <1>4, <2>2 DEF Creates, Describes, DescribedName, Times, TextTypes
  <2> QED
    BY <2>2, <2>3 DEF ty
<1>5. CASE d = "redshift"
  <2>1. kindToDWH[d] = kindToRedshift
    BY <1>5 DEF kindToDWH
  <2>2. Creates(d, k, ty)
    BY <1>2, <1>5, <2>1 DEF kindToRedshift, Creates
  <2> HIDE DEF ty
  <2>3. Describes(d, k, DescribedName(d, ty)) /\ ty \notin {"none", "panic"} /\ (k \in Times => ty \notin {"float", "float64"} \cup TextTypes)
    BY <1>5, <2>2 DEF Creates, Describes, DescribedName, Times, TextTypes
  <2> QED
    BY <2>2, <2>3 DEF ty
<1>6. CASE d = "mssql"
  <2>1. kindToDWH[d] = kindToMSSQL
    BY <1>6 DEF kindToDWH
  <2>2. Creates(d, k, ty)
    BY <1>2, <1>6, <2>1 DEF kindToMSSQL, Creates
  <2> HIDE DEF ty
  <2>3. Describes(d, k, DescribedName(d, ty)) /\ ty \notin {"none", "panic"} /\ (k \in Times => ty \notin {"float", "float64"} \cup TextTypes)
    BY <1>6, <2>2 DEF Creates, Describes, DescribedName, Times, TextTypes
  <2> QED
    BY <2>2, <2>3 DEF ty
<1> QED
  BY <1>1, <1>3, <1>4, <1>5, <1>6

\* Creating a column and describing it.
LEMMA PlainReread ==
  ASSUME NEW d \in Warehouses, NEW k \in PlainKinds
  PROVE  DwhTypeToKind(d, Described(d, Type(kindToDWH[d][k]))) = Kind(Reread(d, k))
<1> DEFINE described == Described(d, Type(kindToDWH[d][k]))
<1>1. d \in {"snowflake", "bigquery", "redshift", "mssql"}
  BY DEF Warehouses, Destinations
<1>2. Describes(d, k, described.ty) /\ described.s = 0
  <2>1. described.ty = DescribedName(d, kindToDWH[d][k]) /\ described.s = 0
    BY DEF Type, Described
  <2> QED
    BY <2>1, NameFacts
<1> HIDE DEF described
<1> USE DEF PlainKinds, Reread, Describes
<1>3. CASE d = "snowflake"
  <2>1. snowflakeTypeToKind(described) = Kind(Reread(d, k))
    BY <1>2, <1>3 DEF snowflakeTypeToKind, ParseNumeric
  <2> QED
    BY <1>3, <2>1 DEF DwhTypeToKind, described
<1>4. CASE d = "bigquery"
  <2>1. bigQueryTypeToKind(described) = Kind(Reread(d, k))
    BY <1>2, <1>4 DEF bigQueryTypeToKind, ParseNumeric
  <2> QED
    BY <1>4, <2>1 DEF DwhTypeToKind, described
<1>5. CASE d = "redshift"
  <2>1. redshiftTypeToKind(described) = Kind(Reread(d, k))
    BY <1>2, <1>5 DEF redshiftTypeToKind, ParseNumeric
  <2> QED
    BY <1>5, <2>1 DEF DwhTypeToKind, described
<1>6. CASE d = "mssql"
  <2>1. mssqlTypeToKind(described) = Kind(Reread(d, k))
    BY <1>2, <1>6 DEF mssqlTypeToKind, ParseNumeric
  <2> QED
    BY <1>6, <2>1 DEF DwhTypeToKind, described
<1> QED
  BY <1>1, <1>3, <1>4, <1>5, <1>6 DEF described

\* The same for a time: it comes back without its format.
LEMMA TimeReread ==
  ASSUME NEW d \in Warehouses, NEW k \in Times
  PROVE  DwhTypeToKind(d, Described(d, Type(kindToDWH[d][k]))) = TimeKind(k, FALSE)
<1> DEFINE described == Described(d, Type(kindToDWH[d][k]))
<1>1. d \in {"snowflake", "bigquery", "redshift", "mssql"}
  BY DEF Warehouses, Destinations
<1>2. Describes(d, k, described.ty) /\ described.s = 0
  <2>1. described.ty = DescribedName(d, kindToDWH[d][k]) /\ described.s = 0
    BY DEF Type, Described
  <2> QED
    BY <2>1, NameFacts
<1> HIDE DEF described
<1> USE DEF Times, Describes
<1>3. CASE d = "snowflake"
  <2>1. snowflakeTypeToKind(described) = TimeKind(k, FALSE)
    BY <1>2, <1>3 DEF snowflakeTypeToKind
  <2> QED
    BY <1>3, <2>1 DEF DwhTypeToKind, described
<1>4. CASE d = "bigquery"
  <2>1. bigQueryTypeToKind(described) = TimeKind(k, FALSE)
    BY <1>2, <1>4 DEF bigQueryTypeToKind
  <2> QED
    BY <1>4, <2>1 DEF DwhTypeToKind, described
<1>5. CASE d = "redshift"
  <2>1. redshiftTypeToKind(described) = TimeKind(k, FALSE)
    BY <1>2, <1>5 DEF redshiftTypeToKind
  <2> QED
    BY <1>5, <2>1 DEF DwhTypeToKind, described
<1>6. CASE d = "mssql"
  <2>1. mssqlTypeToKind(described) = TimeKind(k, FALSE)
    BY <1>2, <1>6 DEF mssqlTypeToKind
  <2> QED
    BY <1>6, <2>1 DEF DwhTypeToKind, described
<1> QED
  BY <1>1, <1>3, <1>4, <1>5, <1>6 DEF described

\* The types of the temporary column.
LEMMA PlainTypes ==
  ASSUME NEW d \in Destinations, NEW k \in PlainKinds, NEW ty, ty = TypeOf(d, Kind(k)).ty
  PROVE  \/ k = "string" /\ ty \in TextTypes
         \/ k = "int" /\ ty \in {"int", "int8", "bigint", "int64"}
         \/ k = "float" /\ ty \in {"float", "float64"}
         \/ k = "bool" /\ ty \in {"boolean", "boolean_null", "bool", "bit"}
         \/ k = "array" /\ ty = IF d = "snowflake" THEN "array" ELSE IF d = "bigquery" THEN "array<string>"
                               ELSE IF d = "s3" THEN "list" ELSE IF d = "redshift" THEN "varchar(max)" ELSE "nvarchar(max)"
         \/ k = "struct" /\ ty = IF d = "snowflake" THEN "variant" ELSE IF d = "bigquery" THEN "json"
                                ELSE IF d = "s3" THEN "byte_array" ELSE IF d = "redshift" THEN "super" ELSE "nvarchar(max)"
<1>1. CASE d = "s3"
  <2>1. ty = ParquetAnnotation(Kind(k)).ty
    BY <1>1 DEF TypeOf
  <2>2. \A kd : kd.k = k /\ kd.t = "none" => ParquetAnnotation(kd) =
          Type(IF k \in {"string", "struct"} THEN "byte_array" ELSE IF k = "float" THEN "float"
               ELSE IF k = "int" THEN "int64" ELSE IF k = "bool" THEN "boolean" ELSE "list")
    BY DEF ParquetAnnotation, PlainKinds
  <2>3. ty = IF k \in {"string", "struct"} THEN "byte_array" ELSE IF k = "float" THEN "float"
             ELSE IF k = "int" THEN "int64" ELSE IF k = "bool" THEN "boolean" ELSE "list"
    BY <2>1, <2>2, RecordFacts, DescribedFacts
  <2> QED
    BY <1>1, <2>3 DEF PlainKinds, TextTypes
<1>2. CASE d # "s3"
  <2>1. ty = kindToDWH[d][k]
    BY <1>2, RecordFacts, DescribedFacts DEF TypeOf, KindToDWHType, PlainKinds
  <2>2. Creates(d, k, ty)
    BY <1>2, <2>1, NameFacts DEF Warehouses
  <2> QED
    BY <2>2 DEF Creates, TextTypes, PlainKinds
<1> QED
  BY <1>1, <1>2

\* The forms of the values.
LEMMA PlainForms ==
  ASSUME NEW d \in Destinations, NEW k \in PlainKinds, NEW kk \in {k, Reread(d, k)},
         NEW go \in PlainValues(k), ~(d = "bigquery" /\ go = "map")
  PROVE  LET form == Cast(d, Kind(kk), Value(go))
         IN  \/ k = "string" /\ form \in {"text", "json", "date"}
             \/ k = "int" /\ form = "int"
             \/ k = "float" /\ form = "number"
             \/ k = "bool" /\ form = "bool"
             \/ k = "array" /\ form = IF d \in {"bigquery", "s3"} THEN "array" ELSE "json"
             \/ k = "struct" /\ form = "json"
             \/ k = "struct" /\ kk = "string" /\ form \in {"json", "text"}
<1> DEFINE v == Value(go)
           kd == Kind(kk)
<1>1. v.go = go /\ kd.k = kk /\ kd.t = "none" /\ kd = Kind(kk) /\ (kk = "struct" => kd = Kind("struct"))
  BY RecordFacts
<1>2. kk = IF (d \in {"redshift", "mssql"} /\ k = "array" /\ kk # k) \/ (d = "mssql" /\ k = "struct" /\ kk # k)
           THEN "string" ELSE k
  BY DEF Reread
<1>3. \/ k = "string" /\ go \in {"text", "json", "date", "toast"}
      \/ k = "struct" /\ go \in {"map", "json", "toast"}
      \/ k = "array" /\ go = "slice"
      \/ k = "int" /\ go = "int"
      \/ k = "float" /\ go = "float"
      \/ k = "bool" /\ go = "bool"
  BY DEF PlainValues, PlainKinds
<1>4. go # "nil" /\ d \in {"snowflake", "bigquery", "redshift", "mssql", "s3"}
  BY <1>3 DEF Destinations
<1>5. Sprint(v) = IF go = "float" THEN "number" ELSE IF go = "toast" THEN "text"
                  ELSE IF go \in {"map", "slice"} THEN "go_syntax" ELSE go
  BY <1>1, <1>3 DEF Sprint, IsText, Texts
<1> HIDE DEF v, kd
<1>6. CASE d \in {"snowflake", "redshift"}
  <2>1. Cast(d, kd, v) = ToString(kd, v)
    BY <1>1, <1>4, <1>6 DEF Cast
  <2> QED
    BY <1>1, <1>2, <1>3, <1>5, <1>6, <2>1 DEF ToString, StructForm, IsText, Texts, v, kd
<1>7. CASE d = "bigquery"
  <2>1. Cast(d, kd, v) = castColVal(kd, v)
    BY <1>1, <1>4, <1>7 DEF Cast
  <2> QED
    BY <1>1, <1>2, <1>3, <1>5, <1>7, <2>1 DEF castColVal, v, kd
<1>8. CASE d = "mssql"
  <2>1. Cast(d, kd, v) = parseValue(kd, v)
    BY <1>1, <1>4, <1>8 DEF Cast
  <2> QED
    BY <1>1, <1>2, <1>3, <1>5, <1>8, <2>1 DEF parseValue, StructForm, IsText, Texts, v, kd
<1>9. CASE d = "s3"
  <2>1. Cast(d, kd, v) = ParquetValue(kd, v)
    BY <1>1, <1>4, <1>9 DEF Cast
  <2> QED
    BY <1>1, <1>2, <1>3, <1>5, <1>9, <2>1 DEF ParquetValue, StructForm, IsText, Texts, v, kd
<1> QED
  BY <1>4, <1>6, <1>7, <1>8, <1>9

\* A column without details takes every value of its field, in its own kind and in the
\* one the warehouse describes; BigQuery's maps are the exception.
LEMMA PlainAccepted ==
  ASSUME NEW d \in Destinations, NEW k \in PlainKinds, NEW kk \in {k, Reread(d, k)},
         NEW go \in {"nil"} \cup PlainValues(k), ~(d = "bigquery" /\ go = "map")
  PROVE  Accepts(d, TypeOf(d, Kind(kk)), Cast(d, Kind(kk), Value(go)))
<1>1. CASE go = "nil"
  BY <1>1, RecordFacts DEF Accepts, Cast
<1>2. CASE go # "nil"
  <2> DEFINE type == TypeOf(d, Kind(kk))
             form == Cast(d, Kind(kk), Value(go))
  <2>1. kk \in PlainKinds /\ (kk = k \/ (kk = "string" /\ k \in {"array", "struct"} /\ d \in {"redshift", "mssql"}))
    BY DEF Reread, PlainKinds
  <2>2. \/ kk = "string" /\ type.ty \in TextTypes
        \/ kk = "int" /\ type.ty \in {"int", "int8", "bigint", "int64"}
        \/ kk = "float" /\ type.ty \in {"float", "float64"}
        \/ kk = "bool" /\ type.ty \in {"boolean", "boolean_null", "bool", "bit"}
        \/ kk = "array" /\ type.ty = IF d = "snowflake" THEN "array" ELSE IF d = "bigquery" THEN "array<string>"
                              ELSE IF d = "s3" THEN "list" ELSE IF d = "redshift" THEN "varchar(max)" ELSE "nvarchar(max)"
        \/ kk = "struct" /\ type.ty = IF d = "snowflake" THEN "variant" ELSE IF d = "bigquery" THEN "json"
                               ELSE IF d = "s3" THEN "byte_array" ELSE IF d = "redshift" THEN "super" ELSE "nvarchar(max)"
    BY <2>1, PlainTypes
  <2>3. \/ k = "string" /\ form \in {"text", "json", "date"}
        \/ k = "int" /\ form = "int"
        \/ k = "float" /\ form = "number"
        \/ k = "bool" /\ form = "bool"
        \/ k = "array" /\ form = IF d \in {"bigquery", "s3"} THEN "array" ELSE "json"
        \/ k = "struct" /\ form = "json"
        \/ k = "struct" /\ kk = "string" /\ form \in {"json", "text"}
    BY <1>2, PlainForms
  <2> HIDE DEF type, form
  <2>4. Accepts(d, type, form)
    BY <2>1, <2>2, <2>3 DEF Accepts, Numbers, TextTypes
  <2> QED
    BY <2>4 DEF type, form
<1> QED
  BY <1>1, <1>2

-----------------------------------------------------------------------------
\* The values of a time: one that did not parse stays a number or a text.
MisfitValues == {Value("float"), Value("text")}
MisfitKinds == {"float", "string"}

LEMMA TimeValueFacts ==
  ASSUME NEW fd \in Fields, NEW t, t = TimeName(fd), t # "none",
         NEW raw \in Incoming(fd) \cup {"nil"}, NEW v \in RowValues(fd, raw)
  PROVE  /\ t \in Times
         /\ \/ v \in {Value("nil"), ExtendedTime(t), Value(t)}
            \/ v \in MisfitValues /\ TimeOf(fd) # "none"
<1>1. CASE fd.type = "mongo"
  <2>1. fd.name = "date" /\ t = "date"
    BY <1>1, FieldFacts DEF TimeName, TimeOf
  <2>2. raw \in {"date", "nil"}
    BY <1>1, <2>1 DEF Incoming, Schemaless
  <2> QED
    BY <1>1, <2>1, <2>2 DEF RowValues, GetEventFromBytes, Schemaless, Times
<1>2. CASE fd.type # "mongo"
  <2>1. t = TimeOf(fd) /\ t \in Times
    BY <1>2 DEF TimeName, TimeOf, Times
  <2>2. v \in GetData(fd, raw)
    BY <1>2 DEF RowValues, Schemaless
  <2>3. ToKindDetails(fd) # Kind("int")
    <3>1. ToKindDetails(fd) = TimeKind(t, FALSE)
      BY <2>1 DEF ToKindDetails
    <3>2. ToKindDetails(fd).k = "time" /\ Kind("int").k = "int"
      BY <3>1 DEF TimeKind, Kind
    <3> QED
      BY <3>2
  <2>4. fd.name \notin {"Point", "Geometry", "Geography", "Decimal", "VariableScaleDecimal", "Json"}
    BY <2>1 DEF TimeOf
  <2>5. CASE fd.type = "string"
    <3>1. raw \in {"nil", t, "text"}
      BY <2>1, <2>5, FieldFacts DEF Incoming, TimeOf
    <3>2. v = Value(raw)
      BY <2>2, <2>3, <2>4, <2>5, <3>1 DEF GetData, FieldParseValue, Times
    <3> QED
      BY <2>1, <3>1, <3>2 DEF MisfitValues
  <2>6. CASE fd.type # "string"
    <3>1. raw \in {"nil", "float", "far"}
      BY <1>2, <2>1, <2>6, FieldFacts DEF Incoming, TimeOf, Schemaless
    <3>2. FieldParseValue(fd, raw) = IF raw = "nil" THEN {Value("nil")} ELSE IF raw = "far" THEN {} ELSE {ExtendedTime(t)}
      BY <2>1, <2>3, <2>4, <2>6, <3>1 DEF FieldParseValue, FromDebeziumTypeToTime
    <3>3. CASE raw = "far"
      <4>1. GetData(fd, raw) = {Value("float")}
        BY <3>2, <3>3 DEF GetData
      <4> QED
        BY <2>1, <2>2, <4>1 DEF MisfitValues
    <3>4. CASE raw # "far"
      <4>1. FieldParseValue(fd, raw) \in {{Value("nil")}, {ExtendedTime(t)}}
        BY <3>2, <3>4
      <4>2. v \in FieldParseValue(fd, raw)
        BY <2>2, <4>1 DEF GetData
      <4> QED
        BY <2>1, <4>1, <4>2
    <3> QED
      BY <3>3, <3>4
  <2> QED
    BY <2>5, <2>6
<1> QED
  BY <1>1, <1>2

\* A time, or what did not parse as one, gives the column its kind.
LEMMA TimeParse ==
  ASSUME NEW fd \in Fields, NEW t, t = TimeName(fd), t # "none", NEW c \in BOOLEAN,
         NEW v, \/ v \in {Value("nil"), ExtendedTime(t), Value(t)}
                \/ v \in MisfitValues /\ TimeOf(fd) # "none"
  PROVE  \/ ParseValue(fd, c, v) \in {Invalid, TimeKind(t, FALSE), TimeKind(t, TRUE)}
         \/ v \in MisfitValues /\ TimeOf(fd) # "none" /\ ParseValue(fd, c, v) \in {Kind("float"), Kind("string")}
<1>1. t \in Times
  BY DEF TimeName, TimeOf, Times
<1>2. \/ v = Value("nil") /\ v.go = "nil"
      \/ v = ExtendedTime(t) /\ v.go = "etime" /\ v.t = t
      \/ v = Value(t) /\ v.go = t
      \/ v \in MisfitValues /\ v.go \in {"float", "text"} /\ TimeOf(fd) # "none"
  BY RecordFacts DEF MisfitValues
<1>3. \/ KindOfValue(v) \in {Invalid, TimeKind(t, TRUE)}
      \/ v \in MisfitValues /\ TimeOf(fd) # "none" /\ KindOfValue(v) \in {Kind("float"), Kind("string")}
  BY <1>1, <1>2 DEF KindOfValue, Times
<1>4. fd.type # "mongo" => ToKindDetails(fd) = TimeKind(t, FALSE)
  BY DEF TimeName, ToKindDetails
<1> QED
  BY <1>3, <1>4 DEF ParseValue, Schemaless

\* A time is accepted in every destination, but for a Parquet column without a format.
LEMMA TimeAccepted ==
  ASSUME NEW d \in Destinations, NEW t \in Times, NEW kd, kd.k = "time", kd.t = t, kd.f \in BOOLEAN, d = "s3" => kd.f,
         NEW v \in {Value("nil"), ExtendedTime(t), Value(t)}
  PROVE  /\ Accepts(d, TypeOf(d, kd), Cast(d, kd, v))
         /\ d # "s3" => TypeOf(d, kd) = Type(kindToDWH[d][t])
<1>1. \/ v.go = "nil"
      \/ v.go = "etime" /\ v.t = t
      \/ v.go = t
  BY RecordFacts
<1>2. d # "s3" => TypeOf(d, kd) = Type(kindToDWH[d][t]) /\ Creates(d, t, TypeOf(d, kd).ty)
  BY NameFacts, DescribedFacts DEF TypeOf, KindToDWHType, Warehouses
<1>3. CASE v.go = "nil"
  BY <1>2, <1>3 DEF Accepts, Cast
<1>4. CASE v.go # "nil"
  <2>1. TimeForm(kd, v) = t
    BY <1>1, <1>4 DEF TimeForm, Times
  <2>2. v.go \in {"etime", "date", "time", "datetime"}
    BY <1>1, <1>4 DEF Times
  <2>3. CASE d = "s3"
    <3>1. TypeOf(d, kd) = Type(IF t = "datetime" THEN "int64" ELSE "byte_array")
      BY <2>3 DEF TypeOf, ParquetAnnotation, Times
    <3>2. Cast(d, kd, v) = IF t = "datetime" THEN "int" ELSE t
      BY <1>4, <2>1, <2>3 DEF Cast, ParquetValue, Times
    <3>3. TypeOf(d, kd).ty = IF t = "datetime" THEN "int64" ELSE "byte_array"
      BY <3>1, DescribedFacts
    <3> QED
      BY <2>3, <3>2, <3>3 DEF Accepts, TextTypes, Times
  <2>4. CASE d = "mssql"
    <3>1. Cast(d, kd, v) = "go_time"
      BY <1>4, <2>2, <2>4 DEF Cast, parseValue
    <3> QED
      BY <1>2, <2>4, <3>1 DEF Accepts, Creates, DateTimes, Times
  <2>5. CASE d \in {"snowflake", "bigquery", "redshift"}
    <3>1. Cast(d, kd, v) = t
      BY <1>4, <2>1, <2>5 DEF Cast, ToString, castColVal, Times
    <3> QED
      BY <1>2, <2>5, <3>1 DEF Accepts, Creates, DateTimes, Times
  <2> QED
    BY <1>2, <2>3, <2>4, <2>5 DEF Destinations
<1> QED
  BY <1>3, <1>4

-----------------------------------------------------------------------------
\* The fields of a decimal.
LEMMA DecimalRecordFacts ==
  /\ \A p, s : /\ Dec(p, s).k = "decimal" /\ Dec(p, s).t = "none" /\ Dec(p, s).f = FALSE
               /\ Dec(p, s).p = p /\ Dec(p, s).s = s
  /\ \A p, s : DecimalKind(p, s) = Dec(NewDecimal(p, s).p, s)
  /\ \A p, s : /\ Decimal(p, s).go = "decimal" /\ Decimal(p, s).p = NewDecimal(p, s).p /\ Decimal(p, s).s = s
BY DEF Dec, DecimalKind, Decimal, Kind, Value

\* NewDecimal leaves no scale above the precision, and what it made alone.
LEMMA NewDecimalFacts ==
  /\ \A p, s : Proper(p, s) => NewDecimal(p, s).p = p
  /\ \A p, s : p \in Nat /\ s \in Nat => Proper(NewDecimal(p, s).p, s)
<1>1. \A p, s : NewDecimal(p, s).p = IF p >= 0 /\ s > p THEN s + 1 ELSE p
  BY DEF NewDecimal
<1>2. ASSUME NEW p, NEW s, Proper(p, s)
      PROVE  NewDecimal(p, s).p = p
  BY <1>1, <1>2 DEF Proper, PrecisionNotSpecified, NilPrecision
<1>3. ASSUME NEW p \in Nat, NEW s \in Nat
      PROVE  Proper(NewDecimal(p, s).p, s)
  <2>1. CASE s > p
    <3>1. NewDecimal(p, s).p = s + 1
      BY <1>1, <2>1
    <3> QED
      BY <3>1 DEF Proper
  <2>2. CASE ~(s > p)
    <3>1. NewDecimal(p, s).p = p
      BY <1>1, <2>2
    <3> QED
      BY <2>2, <3>1 DEF Proper
  <2> QED
    BY <2>1, <2>2
<1> QED
  BY <1>2, <1>3

\* The kind of a decimal field.
LEMMA DecimalFieldFacts ==
  ASSUME NEW fd \in Fields, IsDecimal(fd)
  PROVE  /\ fd.type \in {"bytes", "struct"} /\ TimeOf(fd) = "none"
         /\ \E p, s : Proper(p, s) /\ ToKindDetails(fd) = Dec(p, s)
         /\ fd.name = "Decimal" => ToKindDetails(fd) = DecimalKind(fd.p, fd.s)
         /\ fd.name = "VariableScaleDecimal" => ToKindDetails(fd) = Dec(PrecisionNotSpecified, DefaultScale)
<1>1. fd.type \in {"bytes", "struct"} /\ TimeOf(fd) = "none"
  BY FieldFacts DEF IsDecimal, TimeOf
<1>2. CASE fd.name = "Decimal"
  <2>1. ToKindDetails(fd) = DecimalKind(fd.p, fd.s)
    BY <1>1, <1>2 DEF ToKindDetails
  <2>2. /\ fd.s \in {0, 2, 6, 12}
        /\ \/ fd.p = NilPrecision /\ fd.s = 2
           \/ fd.p \in {5, 10, 38, 39} /\ (fd.s <= fd.p \/ fd.p = 5)
    BY <1>2, FieldFacts
  <2>3. Proper(NewDecimal(fd.p, fd.s).p, fd.s)
    <3>1. CASE fd.p = NilPrecision /\ fd.s = 2
      <4>1. Proper(fd.p, fd.s)
        BY <3>1 DEF Proper
      <4> QED
        BY <4>1, NewDecimalFacts
    <3>2. CASE fd.p \in {5, 10, 38, 39}
      <4>1. fd.p \in Nat /\ fd.s \in Nat
        BY <2>2, <3>2
      <4> QED
        BY <4>1, NewDecimalFacts
    <3> QED
      BY <2>2, <3>1, <3>2
  <2>4. ToKindDetails(fd) = Dec(NewDecimal(fd.p, fd.s).p, fd.s)
    BY <2>1, DecimalRecordFacts
  <2> QED
    BY <1>1, <1>2, <2>1, <2>3, <2>4
<1>3. CASE fd.name = "VariableScaleDecimal"
  <2>1. ToKindDetails(fd) = DecimalKind(PrecisionNotSpecified, DefaultScale)
    BY <1>1, <1>3 DEF ToKindDetails
  <2>2. Proper(PrecisionNotSpecified, DefaultScale)
    BY DEF Proper, DefaultScale
  <2>3. ToKindDetails(fd) = Dec(PrecisionNotSpecified, DefaultScale)
    BY <2>1, <2>2, DecimalRecordFacts, NewDecimalFacts
  <2> QED
    BY <1>1, <1>3, <2>2, <2>3
<1> QED
  BY <1>2, <1>3 DEF IsDecimal

\* The values of a decimal field, and that the warehouse has the same for them as for
\* the field.
LEMMA DecimalValueFacts ==
  ASSUME NEW fd \in Fields, IsDecimal(fd), NEW raw \in Incoming(fd) \cup {"nil"}, NEW v \in RowValues(fd, raw), NEW d
  PROVE  \/ v = Value("nil")
         \/ v.go = "decimal" /\ Proper(v.p, v.s) /\ (IsNumber(d, v.p, v.s) <=> NumberField(d, fd))
<1>1. fd.type \in {"bytes", "struct"} /\ TimeOf(fd) = "none"
  BY DecimalFieldFacts
<1>2. PICK p, s : Proper(p, s) /\ ToKindDetails(fd) = Dec(p, s)
  BY DecimalFieldFacts
<1>3. v \in GetData(fd, raw)
  BY <1>1 DEF RowValues, Schemaless
<1>4. ToKindDetails(fd) # Kind("int")
  <2>1. ToKindDetails(fd).k = "decimal" /\ Kind("int").k = "int"
    BY <1>2, DecimalRecordFacts, RecordFacts
  <2> QED
    BY <2>1
<1>5. CASE raw = "nil"
  BY <1>3, <1>5 DEF GetData, FieldParseValue
<1>6. CASE raw # "nil" /\ fd.name = "Decimal"
  <2>1. raw # "toast"
    BY <1>1, <1>6 DEF Incoming
  <2>2. FieldParseValue(fd, raw) = {Decimal(fd.p, fd.s)}
    BY <1>4, <1>6, <2>1 DEF FieldParseValue, DecodeDecimal
  <2>3. v = Decimal(fd.p, fd.s)
    BY <1>3, <2>2 DEF GetData
  <2>4. Dec(p, s) = Dec(NewDecimal(fd.p, fd.s).p, fd.s)
    BY <1>2, <1>6, DecimalFieldFacts, DecimalRecordFacts
  <2>5. v.go = "decimal" /\ v.p = p /\ v.s = s /\ ToKindDetails(fd).p = p /\ ToKindDetails(fd).s = s
    BY <1>2, <2>3, <2>4, DecimalRecordFacts
  <2> QED
    BY <1>2, <2>5 DEF NumberField
<1>7. CASE raw # "nil" /\ fd.name = "VariableScaleDecimal"
  <2>1. raw # "toast"
    BY <1>1, <1>7, FieldFacts DEF Incoming
  <2>2. FieldParseValue(fd, raw) = {Decimal(PrecisionNotSpecified, x) : x \in {0, 2}}
    BY <1>4, <1>7, <2>1 DEF FieldParseValue, DecodeDebeziumVariableDecimal
  <2>3. PICK x \in {0, 2} : v = Decimal(PrecisionNotSpecified, x)
    BY <1>3, <2>2 DEF GetData
  <2>4. Proper(PrecisionNotSpecified, x)
    BY DEF Proper
  <2>5. v.go = "decimal" /\ v.p = PrecisionNotSpecified /\ v.s = x
    BY <2>3, <2>4, NewDecimalFacts, DecimalRecordFacts
  <2>6. ToKindDetails(fd).p = PrecisionNotSpecified
    BY <1>7, DecimalFieldFacts, DecimalRecordFacts
  <2> QED
    BY <2>4, <2>5, <2>6 DEF NumberField, IsNumber, PrecisionNotSpecified
<1> QED
  BY <1>5, <1>6, <1>7 DEF IsDecimal

\* The warehouse's type for a decimal with details: a number that holds it, or a text.
LEMMA DecimalTypes ==
  ASSUME NEW d \in Warehouses, NEW p, NEW s, Proper(p, s), NEW kd, kd.k = "decimal", kd.p = p, kd.s = s
  PROVE  /\ IsNumber(d, p, s) =>
              \E ty \in {"numeric", "bignumeric"}, q \in Nat :
                /\ KindToDWHType(d, kd) = Numeric(ty, q, s)
                /\ s <= q /\ IsNumber(d, q, s)
                /\ d # "bigquery" => ty = "numeric"
         /\ ~IsNumber(d, p, s) => KindToDWHType(d, kd) = Type(IF d \in {"snowflake", "bigquery"} THEN "string" ELSE "text")
<1>1. p # NoDetails /\ p \in Int /\ s \in Nat
  BY DEF Proper, NoDetails, PrecisionNotSpecified, NilPrecision
<1>2. CASE d = "bigquery"
  <2>1. KindToDWHType(d, kd) = BigQueryKind(kd)
    BY <1>1, <1>2 DEF KindToDWHType
  <2>2. /\ IsNumber(d, p, s) => BigQueryKind(kd) \in {Numeric("numeric", p, s), Numeric("bignumeric", p, s)}
        /\ ~IsNumber(d, p, s) => BigQueryKind(kd) = Type("string")
    <3> DEFINE within(scale, more) == p >= 0 /\ s \in 0..scale /\ p \in (IF s > 1 THEN s ELSE 1)..(s + more)
    <3>1. BigQueryKind(kd) = IF within(9, 29) THEN Numeric("numeric", p, s)
                             ELSE IF within(38, 38) THEN Numeric("bignumeric", p, s) ELSE Type("string")
      BY DEF BigQueryKind
    <3>2. IsNumber(d, p, s) <=> within(38, 38)
      BY <1>1, <1>2 DEF IsNumber
    <3>3. within(9, 29) => within(38, 38)
      BY <1>1
    <3> HIDE DEF within
    <3> QED
      BY <3>1, <3>2, <3>3
  <2>3. IsNumber(d, p, s) => p \in Nat /\ s <= p
    BY <1>1, <1>2 DEF IsNumber
  <2> QED
    BY <1>2, <2>1, <2>2, <2>3
<1>3. CASE d # "bigquery"
  <2> DEFINE q == IF p = NilPrecision THEN MaxPrecisionBeforeString ELSE p
             text == IF d = "snowflake" THEN "string" ELSE "text"
  <2>1. KindToDWHType(d, kd) = ToNumeric(kd, text)
    BY <1>1, <1>3 DEF KindToDWHType
  <2>2. ToNumeric(kd, text) = IF q > MaxPrecisionBeforeString \/ q = PrecisionNotSpecified
                              THEN Type(text) ELSE Numeric("numeric", q, s)
    BY DEF ToNumeric
  <2>3. IsNumber(d, p, s) <=> ~(q > MaxPrecisionBeforeString \/ q = PrecisionNotSpecified)
    BY <1>1, <1>3 DEF IsNumber, MaxPrecisionBeforeString, PrecisionNotSpecified, NilPrecision
  <2>4. IsNumber(d, p, s) => q \in Nat /\ s <= q /\ IsNumber(d, q, s)
    BY <1>1, <1>3 DEF IsNumber, Proper, MaxPrecisionBeforeString, PrecisionNotSpecified, NilPrecision
  <2>5. text = IF d \in {"snowflake", "bigquery"} THEN "string" ELSE "text"
    BY <1>3
  <2> HIDE DEF q, text
  <2> QED
    BY <1>3, <2>1, <2>2, <2>3, <2>4, <2>5
<1> QED
  BY <1>2, <1>3

\* What the warehouses say of a number: an integer, or a decimal with its details.
LEMMA NumberReread ==
  ASSUME NEW d \in Warehouses, NEW ty \in {"numeric", "bignumeric"}, d # "bigquery" => ty = "numeric",
         NEW q \in Nat, NEW s \in Nat, s <= q, IsNumber(d, q, s)
  PROVE  DwhTypeToKind(d, Described(d, Numeric(ty, q, s))) = IF s = 0 THEN Kind("int") ELSE Dec(q, s)
<1> DEFINE described == Described(d, Numeric(ty, q, s))
<1>1. described.ty = (IF d = "snowflake" THEN "number" ELSE ty) /\ described.p = q /\ described.s = s
  <2>1. DescribedName(d, ty) = IF d = "snowflake" THEN "number" ELSE ty
    BY DEF DescribedName
  <2> QED
    BY <2>1, DescribedFacts
<1>2. ParseNumeric(described) = IF s = 0 THEN Kind("int") ELSE DecimalKind(q, s)
  BY <1>1 DEF ParseNumeric
<1>3. DecimalKind(q, s) = Dec(q, s)
  <2>1. Proper(q, s)
    BY DEF Proper
  <2> QED
    BY <2>1, NewDecimalFacts, DecimalRecordFacts
<1>4. d = "bigquery" => q # 0
  BY DEF IsNumber
<1> HIDE DEF described
<1>5. DwhTypeToKind(d, described) = ParseNumeric(described)
  BY <1>1, <1>4 DEF Warehouses, Destinations, DwhTypeToKind, snowflakeTypeToKind, bigQueryTypeToKind,
    redshiftTypeToKind, mssqlTypeToKind
<1> QED
  BY <1>2, <1>3, <1>5 DEF described

\* What they say of a text.
LEMMA TextReread ==
  ASSUME NEW d \in Warehouses
  PROVE  DwhTypeToKind(d, Described(d, Type(IF d \in {"snowflake", "bigquery"} THEN "string" ELSE "text"))) = Kind("string")
<1> DEFINE ty == IF d \in {"snowflake", "bigquery"} THEN "string" ELSE "text"
           described == Described(d, Type(ty))
<1>1. DescribedName(d, ty) = IF d = "snowflake" THEN "varchar" ELSE IF d = "bigquery" THEN "string"
                             ELSE IF d = "redshift" THEN "character_varying" ELSE "text"
  BY DEF DescribedName, Warehouses, Destinations
<1>2. described.ty = DescribedName(d, ty)
  BY DescribedFacts
<1> HIDE DEF described, ty
<1>3. DwhTypeToKind(d, described) = Kind("string")
  BY <1>1, <1>2 DEF Warehouses, Destinations, DwhTypeToKind, snowflakeTypeToKind, bigQueryTypeToKind,
    redshiftTypeToKind, mssqlTypeToKind
<1> QED
  BY <1>3 DEF described, ty

\* A NUMERIC without parameters.
LEMMA PlainNumericReread ==
  DwhTypeToKind("bigquery", Described("bigquery", Type("numeric"))) = Kind("decimal")
<1> DEFINE described == Described("bigquery", Type("numeric"))
<1>1. described.ty = "numeric" /\ described.p = 0
  <2>1. DescribedName("bigquery", "numeric") = "numeric"
    BY DEF DescribedName
  <2> QED
    BY <2>1 DEF Described, Type
<1> HIDE DEF described
<1>2. DwhTypeToKind("bigquery", described) = Kind("decimal")
  BY <1>1 DEF DwhTypeToKind, bigQueryTypeToKind
<1> QED
  BY <1>2 DEF described

\* The kinds are kinds.
LEMMA KindsFacts ==
  /\ \A k \in {"invalid", "unknown", "missing", "decimal"} \cup PlainKinds : Kind(k) \in Kinds
  /\ \A t \in Times, f \in BOOLEAN : TimeKind(t, f) \in Kinds
  /\ \A p, s : Proper(p, s) => Dec(p, s) \in Kinds
<1>1. ASSUME NEW k \in {"invalid", "unknown", "missing", "decimal"} \cup PlainKinds
      PROVE  Kind(k) \in Kinds
  BY <1>1 DEF Kind, Kinds, PlainKinds, Precisions
<1>2. ASSUME NEW t \in Times, NEW f \in BOOLEAN
      PROVE  TimeKind(t, f) \in Kinds
  BY <1>2 DEF TimeKind, Kind, Kinds, Times, Precisions
<1>3. ASSUME NEW p, NEW s, Proper(p, s)
      PROVE  Dec(p, s) \in Kinds
  <2>1. p \in Precisions /\ s \in Nat
    BY <1>3 DEF Proper, Precisions
  <2> QED
    BY <2>1 DEF Dec, Kind, Kinds
<1> QED
  BY <1>1, <1>2, <1>3

\* Creating a decimal's column and describing it gives a kind that fits the field.
LEMMA DecimalReread ==
  ASSUME NEW d \in Warehouses, NEW fd, NEW p, NEW s, Proper(p, s), IsNumber(d, p, s) <=> NumberField(d, fd)
  PROVE  Fits(d, fd, DwhTypeToKind(d, Described(d, KindToDWHType(d, Dec(p, s)))))
<1> DEFINE found == DwhTypeToKind(d, Described(d, KindToDWHType(d, Dec(p, s))))
<1>0. Dec(p, s).k = "decimal" /\ Dec(p, s).p = p /\ Dec(p, s).s = s /\ s \in Nat
  BY DecimalRecordFacts DEF Proper
<1>1. CASE IsNumber(d, p, s)
  <2>1. PICK ty \in {"numeric", "bignumeric"}, q \in Nat :
          /\ KindToDWHType(d, Dec(p, s)) = Numeric(ty, q, s)
          /\ s <= q /\ IsNumber(d, q, s)
          /\ d # "bigquery" => ty = "numeric"
    BY <1>0, <1>1, DecimalTypes
  <2>2. found = IF s = 0 THEN Kind("int") ELSE Dec(q, s)
    BY <1>0, <2>1, NumberReread
  <2>3. q # NoDetails /\ Proper(q, s)
    BY <1>0, <2>1 DEF Proper, NoDetails
  <2>4. CASE s = 0
    <3>1. found = Kind("int")
      BY <2>2, <2>4
    <3>2. Fits(d, fd, Kind("int"))
      BY <1>1, RecordFacts, KindsFacts DEF Fits, PlainKinds
    <3> QED
      BY <3>1, <3>2
  <2>5. CASE s # 0
    <3>1. found = Dec(q, s)
      BY <2>2, <2>5
    <3>2. Fits(d, fd, Dec(q, s))
      BY <1>1, <2>1, <2>3, DecimalRecordFacts, KindsFacts DEF Fits
    <3> QED
      BY <3>1, <3>2
  <2> QED
    BY <2>4, <2>5
<1>2. CASE ~IsNumber(d, p, s)
  <2>1. found = Kind("string")
    BY <1>0, <1>2, DecimalTypes, TextReread
  <2>2. Fits(d, fd, Kind("string"))
    BY <1>2, RecordFacts, KindsFacts DEF Fits, PlainKinds
  <2> QED
    BY <2>1, <2>2
<1> QED
  BY <1>1, <1>2

\* The temporary column of a kind that fits: numbers go to a number and texts to a text.
LEMMA FittingTypes ==
  ASSUME NEW d \in Warehouses, NEW fd, NEW kd, Fits(d, fd, kd), ~(kd.k = "decimal" /\ kd.p = NoDetails)
  PROVE  LET ty == KindToDWHType(d, kd).ty
         IN  /\ kd.k = "decimal" /\ NumberField(d, fd) => ty \in {"numeric", "bignumeric"}
             /\ kd.k = "int" => ty \in {"int", "int8", "bigint"}
             /\ ~NumberField(d, fd) => ty \in TextTypes
<1>1. CASE kd.k = "decimal"
  <2>1. Proper(kd.p, kd.s) /\ (IsNumber(d, kd.p, kd.s) <=> NumberField(d, fd))
    BY <1>1 DEF Fits
  <2>2. CASE NumberField(d, fd)
    <3>1. PICK ty \in {"numeric", "bignumeric"}, q \in Nat : KindToDWHType(d, kd) = Numeric(ty, q, kd.s)
      BY <1>1, <2>1, <2>2, DecimalTypes
    <3>2. KindToDWHType(d, kd).ty = ty
      BY <3>1 DEF Numeric
    <3> QED
      BY <1>1, <2>2, <3>2
  <2>3. CASE ~NumberField(d, fd)
    <3>1. KindToDWHType(d, kd) = Type(IF d \in {"snowflake", "bigquery"} THEN "string" ELSE "text")
      BY <1>1, <2>1, <2>3, DecimalTypes
    <3>2. KindToDWHType(d, kd).ty \in {"string", "text"}
      BY <3>1, DescribedFacts
    <3> QED
      BY <1>1, <2>3, <3>2 DEF TextTypes
  <2> QED
    BY <2>2, <2>3
<1>2. CASE kd.k \in {"int", "string"}
  <2>1. KindToDWHType(d, kd).ty = kindToDWH[d][kd.k]
    BY <1>2, DescribedFacts DEF KindToDWHType
  <2>2. Creates(d, kd.k, kindToDWH[d][kd.k])
    BY <1>2, NameFacts DEF PlainKinds
  <2>3. /\ kd.k = "int" => kindToDWH[d][kd.k] \in {"int", "int8", "bigint"}
        /\ kd.k = "string" => kindToDWH[d][kd.k] \in TextTypes
    BY <1>2, <2>2 DEF Creates, TextTypes
  <2>4. kd.k = "int" => NumberField(d, fd)
    BY DEF Fits
  <2> QED
    BY <1>2, <2>1, <2>3, <2>4
<1> QED
  BY <1>1, <1>2 DEF Fits

\* A decimal is a number to every client, and no error.
LEMMA DecimalForm ==
  ASSUME NEW d \in Destinations, NEW kd, kd.k = "decimal" \/ (kd.k = "string" /\ d # "s3"), NEW v, v.go = "decimal"
  PROVE  Cast(d, kd, v) \in {"int", "number", "bigint"}
<1>1. Sprint(v) \in {"int", "number", "bigint"}
  BY DEF Sprint
<1>2. Cast(d, kd, v) = Sprint(v)
  BY DEF Cast, ToString, castColVal, parseValue, ParquetValue, Destinations
<1> QED
  BY <1>1, <1>2

\* A decimal is accepted wherever it is not an integer that stands for the column.
LEMMA DecimalAccepted ==
  ASSUME NEW d \in Destinations, NEW fd, NEW kd, Fits(d, fd, kd), ~(kd.k = "decimal" /\ kd.p = NoDetails),
         d = "s3" => kd.k = "decimal", NEW v, v = Value("nil") \/ (kd.k # "int" /\ v.go = "decimal")
  PROVE  Accepts(d, TypeOf(d, kd), Cast(d, kd, v))
<1>1. CASE v = Value("nil")
  <2>1. Cast(d, kd, v) = "null"
    BY <1>1, RecordFacts DEF Cast
  <2> QED
    BY <2>1 DEF Accepts
<1>2. CASE kd.k # "int" /\ v.go = "decimal"
  <2>1. kd.k \in {"decimal", "string"}
    BY <1>2 DEF Fits
  <2>2. Cast(d, kd, v) \in {"int", "number", "bigint"}
    BY <1>2, <2>1, DecimalForm
  <2>3. CASE d = "s3"
    <3>1. TypeOf(d, kd) = ParquetAnnotation(kd)
      BY <2>3 DEF TypeOf
    <3>2. ParquetAnnotation(kd) \in {Type("byte_array"), Numeric("decimal", kd.p, kd.s)}
      BY <2>3 DEF ParquetAnnotation
    <3>3. TypeOf(d, kd).ty \in {"byte_array", "decimal"}
      BY <3>1, <3>2 DEF Type, Numeric
    <3> QED
      BY <2>2, <2>3, <3>3 DEF Accepts, Numbers, TextTypes
  <2>4. CASE d # "s3"
    <3>1. TypeOf(d, kd) = KindToDWHType(d, kd)
      BY <2>4 DEF TypeOf
    <3>2. TypeOf(d, kd).ty \in {"numeric", "bignumeric"} \cup TextTypes
      <4>1. kd.k = "string" => ~NumberField(d, fd)
        BY DEF Fits
      <4> QED
        BY <2>1, <2>4, <3>1, <4>1, FittingTypes DEF Warehouses
    <3> QED
      BY <2>2, <3>2 DEF Accepts, Numbers, TextTypes
  <2> QED
    BY <2>3, <2>4
<1> QED
  BY <1>1, <1>2

-----------------------------------------------------------------------------
\* No description of a column says that it is missing.
LEMMA DescribedKind ==
  ASSUME NEW d, NEW type
  PROVE  DwhTypeToKind(d, type) # Missing
<1>1. Missing.k = "missing"
  BY RecordFacts DEF Missing
<1>2. ParseNumeric(type).k \in {"int", "decimal"}
  BY RecordFacts, DecimalRecordFacts DEF ParseNumeric
<1>3. snowflakeTypeToKind(type).k # "missing"
  BY <1>2 DEF snowflakeTypeToKind, Kind, TimeKind, Invalid
<1>4. bigQueryTypeToKind(type).k # "missing"
  BY <1>2 DEF bigQueryTypeToKind, Kind, TimeKind, Invalid
<1>5. redshiftTypeToKind(type).k # "missing"
  BY <1>2 DEF redshiftTypeToKind, Kind, TimeKind, Invalid
<1>6. mssqlTypeToKind(type).k # "missing"
  BY <1>2 DEF mssqlTypeToKind, Kind, TimeKind, Invalid
<1> QED
  BY <1>1, <1>3, <1>4, <1>5, <1>6 DEF DwhTypeToKind

-----------------------------------------------------------------------------
(***************************************************************************)
(* The inductive invariant.                                                *)
(***************************************************************************)
\* What is cached goes with the destination's column: a file has none, a column that is
\* not there is not cached as one, and a flush has made the column.
ColumnInv ==
  /\ dest = "s3" => column = NoColumn /\ cached = Unknown
  /\ column = NoColumn => cached \in {Unknown, Missing}
  /\ column # NoColumn => cached # Missing
  /\ pc = "staging" /\ kind # Invalid /\ dest # "s3" => column # NoColumn

\* A field without details: its column is of the kind's type, and the kind in memory is
\* the field's or the one the warehouse describes that type with.
PlainInv ==
  LET k == PlainKind(field)
      both == {Kind(k), Kind(Reread(dest, k))}
  IN /\ \A v \in rows : \E go \in {"nil"} \cup PlainValues(k) : v = Value(go)
     /\ kind \in {Invalid} \cup both
     /\ column = NoColumn => kind \in {Invalid, Kind(k)}
     /\ column # NoColumn => column = Type(kindToDWH[dest][k])
     /\ cached \in {Unknown, Missing} \cup both

\* A time: what did not parse makes the column a number or a text only while it is
\* buffered or once it has made the destination's column one.
MisfitType(type) == type.ty \in {"float", "float64"} \cup TextTypes
TimeLike(kd, t) ==
  /\ kd \in Kinds
  /\ kd.k \in {"time"} \cup MisfitKinds
  /\ kd.k = "time" => kd.t = t
  /\ kd.t \in {"none", t}
  /\ kd.p = NoDetails
  /\ kd.s = 0
TimeInv ==
  LET t == TimeName(field)
  IN /\ \A v \in rows : \/ v \in {Value("nil"), ExtendedTime(t), Value(t)}
                        \/ v \in MisfitValues /\ TimeOf(field) # "none"
     /\ kind = Invalid \/ TimeLike(kind, t)
     /\ kind.k \in MisfitKinds =>
          TimeOf(field) # "none" /\ (rows \cap MisfitValues # {} \/ MisfitType(column))
     /\ \/ column = NoColumn
        \/ column = Type(kindToDWH[dest][t])
        \/ TimeOf(field) # "none" /\ \E g \in MisfitKinds : column = Type(kindToDWH[dest][g])
     /\ cached \in {Unknown, Missing} \/ TimeLike(cached, t)
     /\ cached.k \in MisfitKinds => MisfitType(column)

\* A decimal: the kind in memory, the cached one and the column are all numbers, or all
\* texts, and an integer stands for a decimal only while there are no values.
DecimalValue(v) == v.go = "decimal" /\ Proper(v.p, v.s)
DecimalInv ==
  /\ \A v \in rows : \/ v = Value("nil")
                     \/ DecimalValue(v) /\ (IsNumber(dest, v.p, v.s) <=> NumberField(dest, field))
  /\ kind = Invalid \/ Fits(dest, field, kind)
  /\ kind = Invalid => rows \subseteq {Value("nil")}
  /\ column = NoColumn => kind = Invalid \/ (kind.k = "decimal" /\ kind.p # NoDetails)
  /\ cached \in {Unknown, Missing} \/ Fits(dest, field, cached)
  /\ \/ column = NoColumn
     \/ column = Type("numeric") /\ dest = "bigquery" /\ NumberField(dest, field)
     \/ \E p, s : /\ Proper(p, s)
                  /\ IsNumber(dest, p, s) <=> NumberField(dest, field)
                  /\ column = KindToDWHType(dest, Dec(p, s))
  /\ kind.k = "int" => failures > 0 \/ (pc = "staging" /\ rows \subseteq {Value("nil")})

IInv ==
  /\ TypeOK
  /\ ColumnInv
  /\ IsPlain(field) => PlainInv
  /\ TimeName(field) # "none" => TimeInv
  /\ IsDecimal(field) => DecimalInv

-----------------------------------------------------------------------------
\* Every field is of one class.
LEMMA Classes ==
  ASSUME NEW fd \in Fields
  PROVE  \/ IsPlain(fd) /\ TimeName(fd) = "none" /\ ~IsDecimal(fd)
         \/ ~IsPlain(fd) /\ TimeName(fd) \in Times /\ ~IsDecimal(fd)
         \/ ~IsPlain(fd) /\ TimeName(fd) = "none" /\ IsDecimal(fd)
<1>1. TimeName(fd) \in Times \cup {"none"}
  BY DEF TimeName, TimeOf, Times
<1>2. IsDecimal(fd) => TimeName(fd) = "none"
  BY FieldFacts DEF IsDecimal, TimeName, TimeOf
<1> QED
  BY <1>1, <1>2 DEF IsPlain, Times

\* The kinds of each class have the shape TypeOK asks for.
KindOK(kd) ==
  /\ kd \in Kinds /\ kd.k \notin {"unknown", "missing"}
  /\ kd.k = "time" => kd.t # "none"

\* Invalid, and every kind a field of each class may have, are in shape.
LEMMA ShapeFacts ==
  ASSUME NEW d, NEW fd \in Fields
  PROVE  /\ KindOK(Invalid) /\ Unknown \in Kinds /\ Missing \in Kinds
         /\ IsPlain(fd) => \A kd \in {Kind(PlainKind(fd)), Kind(Reread(d, PlainKind(fd)))} : KindOK(kd)
         /\ TimeName(fd) # "none" => \A kd : TimeLike(kd, TimeName(fd)) => KindOK(kd)
         /\ IsDecimal(fd) => \A kd : Fits(d, fd, kd) => KindOK(kd)
<1>1. KindOK(Invalid) /\ Unknown \in Kinds /\ Missing \in Kinds
  BY KindsFacts, RecordFacts DEF KindOK, Invalid, Unknown, Missing
<1>2. ASSUME IsPlain(fd)
      PROVE  \A kd \in {Kind(PlainKind(fd)), Kind(Reread(d, PlainKind(fd)))} : KindOK(kd)
  <2>1. PlainKind(fd) \in PlainKinds /\ Reread(d, PlainKind(fd)) \in PlainKinds
    BY <1>2, PlainFacts DEF Reread, PlainKinds
  <2>2. \A k \in PlainKinds : KindOK(Kind(k))
    BY KindsFacts, RecordFacts DEF KindOK, PlainKinds
  <2> QED
    BY <2>1, <2>2
<1>3. ASSUME TimeName(fd) # "none"
      PROVE  \A kd : TimeLike(kd, TimeName(fd)) => KindOK(kd)
  BY <1>3 DEF TimeLike, KindOK, MisfitKinds
<1>4. \A kd : Fits(d, fd, kd) => KindOK(kd)
  BY DEF Fits, KindOK
<1> QED
  BY <1>1, <1>2, <1>3, <1>4

\* The kinds that are no kinds of a column are told apart from the others.
LEMMA DistinctKinds ==
  /\ Invalid.k = "invalid" /\ Unknown.k = "unknown" /\ Missing.k = "missing"
  /\ Invalid.t = "none" /\ Invalid.f = FALSE /\ Invalid.p = NoDetails /\ Invalid.s = 0
  /\ \A kd : KindOK(kd) => kd # Unknown /\ kd # Missing
BY RecordFacts DEF Invalid, Unknown, Missing, KindOK

\* A kind is its fields.
LEMMA SameKind ==
  ASSUME NEW a \in Kinds, NEW b \in Kinds, a.k = b.k, a.t = b.t, a.f = b.f, a.p = b.p, a.s = b.s
  PROVE  a = b
BY DEF Kinds

\* What MergeColumnsFromDestination makes of a kind, field by field.
LEMMA RetypedFacts ==
  ASSUME kind \in Kinds, NEW found
  PROVE  /\ Retyped(found).k = IF kind.k = "decimal" /\ found.k = "int" THEN kind.k ELSE found.k
         /\ Retyped(found).t = IF found.t # "none" THEN found.t ELSE kind.t
         /\ Retyped(found).f = kind.f
         /\ Retyped(found).p = IF kind.p = NoDetails THEN found.p ELSE kind.p
         /\ Retyped(found).s = IF kind.p = NoDetails THEN found.s ELSE kind.s
         /\ found \in Kinds => Retyped(found) \in Kinds
<1>1. /\ Retyped(found).k = IF kind.k = "decimal" /\ found.k = "int" THEN kind.k ELSE found.k
      /\ Retyped(found).t = IF found.t # "none" THEN found.t ELSE kind.t
      /\ Retyped(found).f = kind.f
      /\ Retyped(found).p = IF kind.p = NoDetails THEN found.p ELSE kind.p
      /\ Retyped(found).s = IF kind.p = NoDetails THEN found.s ELSE kind.s
  BY DEF Retyped, Kinds
<1>2. ASSUME found \in Kinds
      PROVE  Retyped(found) \in Kinds
  BY <1>2 DEF Retyped, Kinds
<1> QED
  BY <1>1, <1>2

\* The three ways a flush to a warehouse starts: the column is created, there is none to
\* create, or it is there already.
LEMMA FlushCases ==
  ASSUME TypeOK, ColumnInv, StartFlush, dest # "s3"
  PROVE  \/ /\ column = NoColumn /\ kind # Invalid
            /\ column' = KindToDWHType(dest, kind) /\ cached' = kind /\ kind' = Retyped(kind)
         \/ /\ column = NoColumn /\ kind = Invalid
            /\ column' = column /\ cached' = Missing /\ kind' = kind
         \/ /\ column # NoColumn
            /\ column' = column /\ kind' = Retyped(cached')
            /\ cached' # Missing
            /\ \/ cached' = cached /\ cached # Unknown
               \/ cached' = DwhTypeToKind(dest, Described(dest, column))
<1>1. kind # Missing
  BY DistinctKinds DEF TypeOK, KindOK
<1>2. Unknown # Missing
  BY DistinctKinds
<1>3. CASE column = NoColumn
  <2>1. TableConfig = Missing
    BY <1>2, <1>3 DEF TableConfig, ColumnInv
  <2> QED
    BY <1>1, <1>3, <2>1 DEF StartFlush
<1>4. CASE column # NoColumn
  <2>1. TableConfig = IF cached # Unknown THEN cached ELSE DwhTypeToKind(dest, Described(dest, column))
    BY <1>4 DEF TableConfig
  <2>2. TableConfig # Missing
    BY <1>4, <2>1, DescribedKind DEF ColumnInv
  <2>3. column' = column /\ cached' = TableConfig /\ kind' = Retyped(TableConfig)
    BY <2>2 DEF StartFlush
  <2> QED
    BY <1>4, <2>1, <2>2, <2>3
<1> QED
  BY <1>3, <1>4

\* The type a column is created with.
LEMMA CreatedColumn ==
  ASSUME IInv, dest # "s3", kind # Invalid, column = NoColumn
  PROVE  /\ KindToDWHType(dest, kind) # NoColumn
         /\ IsPlain(field) => KindToDWHType(dest, kind) = Type(kindToDWH[dest][PlainKind(field)])
         /\ TimeName(field) # "none" =>
              \/ kind.k = "time" /\ KindToDWHType(dest, kind) = Type(kindToDWH[dest][TimeName(field)])
              \/ kind.k \in MisfitKinds /\ KindToDWHType(dest, kind) = Type(kindToDWH[dest][kind.k])
<1>0. dest \in Warehouses /\ field \in Fields /\ NoColumn.ty = "none"
  BY DescribedFacts DEF IInv, TypeOK, Warehouses, NoColumn
<1>1. CASE IsPlain(field)
  <2>1. kind = Kind(PlainKind(field)) /\ PlainKind(field) \in PlainKinds
    BY <1>0, <1>1, PlainFacts DEF IInv, PlainInv
  <2>2. kind.k = PlainKind(field)
    BY <2>1, RecordFacts
  <2>3. KindToDWHType(dest, kind) = Type(kindToDWH[dest][PlainKind(field)])
    BY <2>1, <2>2 DEF KindToDWHType, PlainKinds
  <2>4. KindToDWHType(dest, kind).ty # "none"
    BY <1>0, <2>1, <2>3, NameFacts, DescribedFacts
  <2> QED
    BY <1>0, <1>1, <2>3, <2>4 DEF IsPlain
<1>2. CASE TimeName(field) # "none"
  <2>1. TimeName(field) \in Times /\ ~IsPlain(field)
    BY <1>0, <1>2, Classes
  <2>2. TimeLike(kind, TimeName(field))
    BY <1>2 DEF IInv, TimeInv
  <2>3. \/ kind.k = "time" /\ KindToDWHType(dest, kind) = Type(kindToDWH[dest][TimeName(field)])
        \/ kind.k \in MisfitKinds /\ KindToDWHType(dest, kind) = Type(kindToDWH[dest][kind.k])
    BY <2>2 DEF KindToDWHType, TimeLike, MisfitKinds
  <2>4. KindToDWHType(dest, kind).ty # "none"
    BY <1>0, <2>1, <2>3, NameFacts, DescribedFacts DEF PlainKinds, MisfitKinds
  <2> QED
    BY <1>0, <2>1, <2>3, <2>4
<1>3. CASE IsDecimal(field)
  <2>1. Fits(dest, field, kind) /\ kind.k = "decimal" /\ kind.p # NoDetails
    BY <1>3 DEF IInv, DecimalInv
  <2>2. KindToDWHType(dest, kind).ty \in {"numeric", "bignumeric"} \cup TextTypes
    BY <1>0, <2>1, FittingTypes
  <2>3. KindToDWHType(dest, kind).ty # "none"
    BY <2>2 DEF TextTypes
  <2> QED
    BY <1>0, <1>3, <2>3, Classes
<1>4. IsPlain(field) \/ TimeName(field) # "none" \/ IsDecimal(field)
  BY DEF IsPlain
<1> QED
  BY <1>1, <1>2, <1>3, <1>4, Zenon

\* A value of a field without details is buffered.
LEMMA PlainSave ==
  ASSUME IInv, IsPlain(field), NEW raw \in Incoming(field) \cup {"nil"}, NEW v \in RowValues(field, raw), Save(v)
  PROVE  PlainInv'
<1>0. field \in Fields /\ createAll \in BOOLEAN /\ PlainInv
  BY DEF IInv, TypeOK
<1>1. \E go \in {"nil"} \cup PlainValues(PlainKind(field)) : v = Value(go)
  BY <1>0, PlainValueFacts
<1>2. \A w \in rows' : \E go \in {"nil"} \cup PlainValues(PlainKind(field)) : w = Value(go)
  BY <1>0, <1>1 DEF PlainInv, Save
<1>3. kind' = kind \/ (kind = Invalid /\ kind' \in {Invalid, Kind(PlainKind(field))})
  <2>1. CASE kind = Invalid /\ v.go # "toast"
    <3>1. kind' = ParseValue(field, createAll, v)
      BY <2>1 DEF Save
    <3> QED
      BY <1>0, <2>1, <3>1, PlainParse
  <2>2. CASE ~(kind = Invalid /\ v.go # "toast")
    BY <2>2 DEF Save
  <2> QED
    BY <2>1, <2>2
<1>4. UNCHANGED <<dest, field, column, cached>>
  BY DEF Save
<1> QED
  BY <1>0, <1>2, <1>3, <1>4 DEF PlainInv

\* A flush of a field without details.
LEMMA PlainFlush ==
  ASSUME IInv, IsPlain(field), StartFlush
  PROVE  PlainInv'
<1> DEFINE k == PlainKind(field)
           both == {Kind(k), Kind(Reread(dest, k))}
<1>0. field \in Fields /\ PlainInv /\ ColumnInv /\ TypeOK /\ k \in PlainKinds /\ dest \in Destinations
  BY PlainFacts DEF IInv, TypeOK
<1>1. UNCHANGED <<dest, field, rows>>
  BY DEF StartFlush
<1>2. CASE dest = "s3"
  <2>1. UNCHANGED <<kind, column, cached>>
    BY <1>2 DEF StartFlush
  <2> QED
    BY <1>0, <1>1, <2>1 DEF PlainInv
<1>3. CASE dest # "s3"
  <2>1. ASSUME NEW found \in both
        PROVE  Retyped(found) = found
    <3>1. \E x : kind = Kind(x) /\ x # "decimal"
      BY <1>0 DEF PlainInv, Invalid, Reread, PlainKinds
    <3>2. \E y : found = Kind(y)
      OBVIOUS
    <3>3. /\ kind.k # "decimal" /\ kind.t = "none" /\ kind.f = FALSE /\ kind.p = NoDetails
          /\ found.t = "none" /\ found.f = FALSE
      BY <3>1, <3>2, RecordFacts
    <3>4. kind \in Kinds /\ found \in Kinds
      BY <1>0, ShapeFacts DEF TypeOK, KindOK
    <3> HIDE DEF both, k
    <3>5. /\ Retyped(found).k = found.k /\ Retyped(found).t = found.t /\ Retyped(found).p = found.p
          /\ Retyped(found).s = found.s
      BY <3>3, <3>4, RetypedFacts
    <3>6. Retyped(found).f = found.f
      BY <3>3, <3>4, RetypedFacts, Zenon
    <3>7. Retyped(found) \in Kinds
      BY <3>4, RetypedFacts, Zenon
    <3> QED
      BY <3>4, <3>5, <3>6, <3>7, SameKind, Zenon
  <2>2. kind \in {Invalid} \cup both /\ cached \in {Unknown, Missing} \cup both
    BY <1>0 DEF PlainInv
  <2>3. \/ /\ column = NoColumn /\ kind # Invalid
           /\ column' = KindToDWHType(dest, kind) /\ cached' = kind /\ kind' = Retyped(kind)
        \/ /\ column = NoColumn /\ kind = Invalid
           /\ column' = column /\ cached' = Missing /\ kind' = kind
        \/ /\ column # NoColumn
           /\ column' = column /\ kind' = Retyped(cached')
           /\ cached' # Missing
           /\ \/ cached' = cached /\ cached # Unknown
              \/ cached' = DwhTypeToKind(dest, Described(dest, column))
    BY <1>0, <1>3, FlushCases
  <2>4. column = NoColumn /\ kind # Invalid =>
          KindToDWHType(dest, kind) = Type(kindToDWH[dest][k]) /\ KindToDWHType(dest, kind) # NoColumn
    BY <1>3, CreatedColumn
  <2>5. column # NoColumn => DwhTypeToKind(dest, Described(dest, column)) \in both
    <3>1. column # NoColumn => column = Type(kindToDWH[dest][k])
      BY <1>0 DEF PlainInv
    <3> QED
      BY <1>0, <1>3, <3>1, PlainReread DEF Warehouses
  <2>6. /\ kind' \in {Invalid} \cup both
        /\ cached' \in {Unknown, Missing} \cup both
        /\ column' = NoColumn => kind' \in {Invalid}
        /\ column' # NoColumn => column' = Type(kindToDWH[dest][k]) \/ column' = column
    <3> HIDE DEF both, k
    <3> QED
      BY <2>1, <2>2, <2>3, <2>4, <2>5
  <2>7. column' # NoColumn => column' = Type(kindToDWH[dest][k])
    BY <1>0, <2>6 DEF PlainInv
  <2> QED
    BY <1>0, <1>1, <2>6, <2>7 DEF PlainInv
<1> QED
  BY <1>2, <1>3

\* A value of a time is buffered.
LEMMA TimeSave ==
  ASSUME IInv, TimeName(field) # "none", NEW raw \in Incoming(field) \cup {"nil"}, NEW v \in RowValues(field, raw), Save(v)
  PROVE  TimeInv'
<1> DEFINE t == TimeName(field)
<1>0. field \in Fields /\ createAll \in BOOLEAN /\ TimeInv /\ t \in Times
  BY Classes DEF IInv, TypeOK
<1>1. \/ v \in {Value("nil"), ExtendedTime(t), Value(t)}
      \/ v \in MisfitValues /\ TimeOf(field) # "none"
  BY <1>0, TimeValueFacts
<1>2. UNCHANGED <<dest, field, column, cached>> /\ rows' = rows \cup {v}
  BY DEF Save
<1>3. \A w \in rows' : \/ w \in {Value("nil"), ExtendedTime(t), Value(t)}
                       \/ w \in MisfitValues /\ TimeOf(field) # "none"
  BY <1>0, <1>1, <1>2 DEF TimeInv
<1>4. \/ kind' = kind
      \/ kind' \in {Invalid, TimeKind(t, FALSE), TimeKind(t, TRUE)}
      \/ v \in MisfitValues /\ TimeOf(field) # "none" /\ kind' \in {Kind("float"), Kind("string")}
  <2>1. CASE kind = Invalid /\ v.go # "toast"
    <3>1. kind' = ParseValue(field, createAll, v)
      BY <2>1 DEF Save
    <3> QED
      BY <1>0, <1>1, <3>1, TimeParse
  <2>2. CASE ~(kind = Invalid /\ v.go # "toast")
    BY <2>2 DEF Save
  <2> QED
    BY <2>1, <2>2
<1>5. /\ kind' = Invalid \/ TimeLike(kind', t)
      /\ kind'.k \in MisfitKinds =>
           TimeOf(field) # "none" /\ (rows' \cap MisfitValues # {} \/ MisfitType(column))
  <2>1. CASE kind' = kind
    BY <1>0, <1>2, <2>1 DEF TimeInv
  <2>2. CASE kind' = Invalid
    BY <2>2, DistinctKinds DEF MisfitKinds
  <2>3. ASSUME NEW f \in BOOLEAN, kind' = TimeKind(t, f)
        PROVE  TimeLike(kind', t) /\ kind'.k \notin MisfitKinds
    <3>1. kind' \in Kinds
      BY <1>0, <2>3, KindsFacts, Zenon
    <3>2. kind'.k = "time" /\ kind'.t = t /\ kind'.p = NoDetails /\ kind'.s = 0
      BY <2>3 DEF TimeKind, Kind
    <3> QED
      BY <3>1, <3>2 DEF TimeLike, MisfitKinds
  <2>4. CASE v \in MisfitValues /\ TimeOf(field) # "none" /\ kind' \in {Kind("float"), Kind("string")}
    <3>1. TimeLike(kind', t)
      BY <2>4, KindsFacts, RecordFacts DEF TimeLike, PlainKinds, MisfitKinds
    <3>2. v \in rows' \cap MisfitValues
      BY <1>2, <2>4
    <3> QED
      BY <2>4, <3>1, <3>2
  <2> QED
    BY <1>4, <2>1, <2>2, <2>3, <2>4, Zenon
<1> QED
  BY <1>0, <1>2, <1>3, <1>5 DEF TimeInv

\* The merged kind of a time.
LEMMA TimeRetyped ==
  ASSUME NEW t \in Times, kind \in Kinds, kind = Invalid \/ TimeLike(kind, t), NEW found, TimeLike(found, t)
  PROVE  TimeLike(Retyped(found), t) /\ Retyped(found).k = found.k
<1>1. kind.k # "decimal" /\ kind.t \in {"none", t} /\ kind.p = NoDetails /\ kind.s = 0
  BY DistinctKinds DEF TimeLike, MisfitKinds
<1>2. Retyped(found) \in Kinds
  BY RetypedFacts DEF TimeLike, MisfitKinds
<1>3. Retyped(found).k = found.k /\ Retyped(found).p = NoDetails /\ Retyped(found).s = 0
  BY <1>1, RetypedFacts DEF TimeLike, MisfitKinds
<1>4. Retyped(found).t = IF found.t # "none" THEN found.t ELSE kind.t
  BY RetypedFacts
<1> QED
  BY <1>1, <1>2, <1>3, <1>4 DEF TimeLike, Times, MisfitKinds

\* The columns of a time.
LEMMA TimeColumns ==
  ASSUME NEW d \in Warehouses, NEW t \in Times
  PROVE  /\ \A g \in MisfitKinds : /\ MisfitType(Type(kindToDWH[d][g]))
                                   /\ DwhTypeToKind(d, Described(d, Type(kindToDWH[d][g]))) = Kind(g)
                                   /\ TimeLike(Kind(g), t)
         /\ ~MisfitType(Type(kindToDWH[d][t])) /\ ~MisfitType(NoColumn)
         /\ DwhTypeToKind(d, Described(d, Type(kindToDWH[d][t]))) = TimeKind(t, FALSE)
         /\ TimeLike(TimeKind(t, FALSE), t) /\ TimeKind(t, FALSE).k \notin MisfitKinds
<1>1. ASSUME NEW g \in MisfitKinds
      PROVE  MisfitType(Type(kindToDWH[d][g]))
  <2>1. Creates(d, g, kindToDWH[d][g])
    BY NameFacts DEF PlainKinds, MisfitKinds
  <2>2. kindToDWH[d][g] \in {"float", "float64"} \cup TextTypes
    BY <2>1 DEF Creates, MisfitKinds, TextTypes
  <2> QED
    BY <2>2, DescribedFacts DEF MisfitType
<1>2. ~MisfitType(Type(kindToDWH[d][t])) /\ ~MisfitType(NoColumn)
  <2>1. ~MisfitType(Type(kindToDWH[d][t]))
    BY NameFacts, DescribedFacts DEF MisfitType
  <2>2. ~MisfitType(NoColumn)
    BY DescribedFacts DEF MisfitType, NoColumn, TextTypes
  <2> QED
    BY <2>1, <2>2
<1>3. ASSUME NEW g \in MisfitKinds
      PROVE  DwhTypeToKind(d, Described(d, Type(kindToDWH[d][g]))) = Kind(g)
  <2>1. g \in PlainKinds /\ Reread(d, g) = g
    BY DEF PlainKinds, Reread, MisfitKinds
  <2> QED
    BY <2>1, PlainReread
<1>4. DwhTypeToKind(d, Described(d, Type(kindToDWH[d][t]))) = TimeKind(t, FALSE)
  BY TimeReread, Zenon
<1>5. ASSUME NEW g \in MisfitKinds
      PROVE  TimeLike(Kind(g), t)
  BY KindsFacts, RecordFacts DEF TimeLike, PlainKinds, MisfitKinds
<1>6. TimeLike(TimeKind(t, FALSE), t) /\ TimeKind(t, FALSE).k \notin MisfitKinds
  <2>1. TimeKind(t, FALSE) \in Kinds
    BY KindsFacts, Zenon
  <2>2. /\ TimeKind(t, FALSE).k = "time" /\ TimeKind(t, FALSE).t = t
        /\ TimeKind(t, FALSE).p = NoDetails /\ TimeKind(t, FALSE).s = 0
    BY DEF TimeKind, Kind
  <2> QED
    BY <2>1, <2>2 DEF TimeLike, MisfitKinds
<1> QED
  BY <1>1, <1>2, <1>3, <1>4, <1>5, <1>6, Zenon

\* A flush of a time.
LEMMA TimeFlush ==
  ASSUME IInv, TimeName(field) # "none", StartFlush
  PROVE  TimeInv'
<1> DEFINE t == TimeName(field)
<1>0. field \in Fields /\ TimeInv /\ ColumnInv /\ TypeOK /\ t \in Times /\ dest \in Destinations /\ kind \in Kinds
  BY Classes DEF IInv, TypeOK
<1>1. UNCHANGED <<dest, field, rows>>
  BY DEF StartFlush
<1>2. CASE dest = "s3"
  <2>1. UNCHANGED <<kind, column, cached>>
    BY <1>2 DEF StartFlush
  <2> QED
    BY <1>0, <1>1, <2>1 DEF TimeInv
<1>3. CASE dest # "s3"
  <2>0. dest \in Warehouses
    BY <1>0, <1>3 DEF Warehouses
  <2>1. /\ kind = Invalid \/ TimeLike(kind, t)
        /\ kind.k \in MisfitKinds => TimeOf(field) # "none"
        /\ \/ column = NoColumn
           \/ column = Type(kindToDWH[dest][t])
           \/ TimeOf(field) # "none" /\ \E g \in MisfitKinds : column = Type(kindToDWH[dest][g])
        /\ cached \in {Unknown, Missing} \/ TimeLike(cached, t)
        /\ cached.k \in MisfitKinds => MisfitType(column)
    BY <1>0 DEF TimeInv
  <2>2. /\ \A g \in MisfitKinds : /\ MisfitType(Type(kindToDWH[dest][g]))
                                  /\ DwhTypeToKind(dest, Described(dest, Type(kindToDWH[dest][g]))) = Kind(g)
                                  /\ TimeLike(Kind(g), t)
        /\ ~MisfitType(Type(kindToDWH[dest][t])) /\ ~MisfitType(NoColumn)
        /\ DwhTypeToKind(dest, Described(dest, Type(kindToDWH[dest][t]))) = TimeKind(t, FALSE)
        /\ TimeLike(TimeKind(t, FALSE), t) /\ TimeKind(t, FALSE).k \notin MisfitKinds
    BY <1>0, <2>0, TimeColumns, Zenon
  <2>3. \A found : TimeLike(found, t) => TimeLike(Retyped(found), t) /\ Retyped(found).k = found.k
    BY <1>0, <2>1, TimeRetyped
  <2>4. \/ /\ column = NoColumn /\ kind # Invalid
           /\ column' = KindToDWHType(dest, kind) /\ cached' = kind /\ kind' = Retyped(kind)
        \/ /\ column = NoColumn /\ kind = Invalid
           /\ column' = column /\ cached' = Missing /\ kind' = kind
        \/ /\ column # NoColumn
           /\ column' = column /\ kind' = Retyped(cached')
           /\ cached' # Missing
           /\ \/ cached' = cached /\ cached # Unknown
              \/ cached' = DwhTypeToKind(dest, Described(dest, column))
    BY <1>0, <1>3, FlushCases
  <2> HIDE DEF t
  <2>5. CASE /\ column = NoColumn /\ kind # Invalid
             /\ column' = KindToDWHType(dest, kind) /\ cached' = kind /\ kind' = Retyped(kind)
    <3>1. TimeLike(kind, t) /\ TimeLike(kind', t) /\ kind'.k = kind.k
      BY <2>1, <2>3, <2>5
    <3>2. \/ kind.k = "time" /\ column' = Type(kindToDWH[dest][t])
          \/ kind.k \in MisfitKinds /\ column' = Type(kindToDWH[dest][kind.k])
      BY <1>3, <2>5, CreatedColumn DEF t
    <3>3. kind.k \in MisfitKinds => TimeOf(field) # "none" /\ MisfitType(column')
      <4>1. "time" \notin MisfitKinds
        BY DEF MisfitKinds
      <4> QED
        BY <2>1, <2>2, <3>2, <4>1
    <3> QED
      BY <1>0, <1>1, <2>5, <3>1, <3>2, <3>3 DEF TimeInv, t
  <2>6. CASE /\ column = NoColumn /\ kind = Invalid
             /\ column' = column /\ cached' = Missing /\ kind' = kind
    <3>1. kind'.k \notin MisfitKinds /\ cached'.k \notin MisfitKinds
      BY <2>6, DistinctKinds DEF MisfitKinds
    <3> QED
      BY <1>0, <1>1, <2>6, <3>1 DEF TimeInv, t
  <2>7. CASE /\ column # NoColumn
             /\ column' = column /\ kind' = Retyped(cached')
             /\ cached' # Missing
             /\ \/ cached' = cached /\ cached # Unknown
                \/ cached' = DwhTypeToKind(dest, Described(dest, column))
    <3>1. TimeLike(cached', t) /\ (cached'.k \in MisfitKinds => MisfitType(column))
      <4>1. CASE cached' = cached /\ cached # Unknown
        BY <2>1, <2>7, <4>1
      <4>2. CASE cached' = DwhTypeToKind(dest, Described(dest, column))
        <5>1. CASE column = Type(kindToDWH[dest][t])
          BY <2>2, <4>2, <5>1, Zenon
        <5>2. ASSUME NEW g \in MisfitKinds, column = Type(kindToDWH[dest][g])
              PROVE  TimeLike(cached', t) /\ (cached'.k \in MisfitKinds => MisfitType(column))
          BY <2>2, <4>2, <5>2, Zenon
        <5> QED
          BY <2>1, <2>7, <5>1, <5>2
      <4> QED
        BY <2>7, <4>1, <4>2
    <3>2. TimeLike(kind', t) /\ kind'.k = cached'.k
      BY <2>3, <2>7, <3>1
    <3>3. MisfitType(column) => TimeOf(field) # "none"
      BY <2>1, <2>2
    <3> QED
      BY <1>0, <1>1, <2>1, <2>7, <3>1, <3>2, <3>3 DEF TimeInv, t
  <2> QED
    BY <2>4, <2>5, <2>6, <2>7
<1> QED
  BY <1>2, <1>3

\* A value of a decimal is buffered.
LEMMA DecimalSave ==
  ASSUME IInv, IsDecimal(field), NEW raw \in Incoming(field) \cup {"nil"}, NEW v \in RowValues(field, raw), Save(v)
  PROVE  DecimalInv'
<1>0. field \in Fields /\ createAll \in BOOLEAN /\ DecimalInv /\ pc = "idle"
  BY DEF IInv, TypeOK, Save
<1>1. \/ v = Value("nil")
      \/ DecimalValue(v) /\ (IsNumber(dest, v.p, v.s) <=> NumberField(dest, field))
  BY <1>0, DecimalValueFacts DEF DecimalValue
<1>2. UNCHANGED <<dest, field, column, cached, failures>> /\ rows' = rows \cup {v}
  BY DEF Save
<1>3. \A w \in rows' : \/ w = Value("nil")
                       \/ DecimalValue(w) /\ (IsNumber(dest, w.p, w.s) <=> NumberField(dest, field))
  BY <1>0, <1>1, <1>2 DEF DecimalInv
<1>4. PICK p, s : Proper(p, s) /\ ToKindDetails(field) = Dec(p, s)
  BY <1>0, DecimalFieldFacts
<1>5. \A x, y : Proper(x, y) /\ (IsNumber(dest, x, y) <=> NumberField(dest, field)) =>
                  Fits(dest, field, Dec(x, y)) /\ Dec(x, y).k = "decimal" /\ Dec(x, y).p # NoDetails
  <2> SUFFICES ASSUME NEW x, NEW y, Proper(x, y), IsNumber(dest, x, y) <=> NumberField(dest, field)
               PROVE  Fits(dest, field, Dec(x, y)) /\ Dec(x, y).k = "decimal" /\ Dec(x, y).p # NoDetails
    OBVIOUS
  <2>1. x # NoDetails
    BY DEF Proper, NoDetails, PrecisionNotSpecified, NilPrecision
  <2>2. /\ Dec(x, y) \in Kinds /\ Dec(x, y).k = "decimal" /\ Dec(x, y).t = "none"
        /\ Dec(x, y).p = x /\ Dec(x, y).s = y
    BY KindsFacts, DecimalRecordFacts
  <2>3. Dec(x, y).f = FALSE
    BY DecimalRecordFacts, Zenon
  <2> QED
    BY <2>1, <2>2, <2>3 DEF Fits
<1>6. \/ kind' = kind /\ (kind = Invalid => v = Value("nil"))
      \/ kind' = Invalid /\ kind = Invalid /\ v = Value("nil")
      \/ kind = Invalid /\ kind' \in Kinds /\ Fits(dest, field, kind') /\ kind'.k = "decimal" /\ kind'.p # NoDetails
  <2>0. v.go # "toast"
    BY <1>1, RecordFacts DEF DecimalValue
  <2>1. CASE kind # Invalid
    BY <2>1 DEF Save
  <2>2. CASE kind = Invalid /\ v = Value("nil")
    <3>1. kind' = ParseValue(field, createAll, v)
      BY <2>0, <2>2 DEF Save
    <3>2. ~Schemaless(field) /\ v.go = "nil"
      BY <1>0, <2>2, DecimalFieldFacts, RecordFacts DEF Schemaless
    <3>3. kind' \in {Invalid, Dec(p, s)}
      BY <1>4, <3>1, <3>2 DEF ParseValue
    <3>4. IsNumber(dest, p, s) <=> NumberField(dest, field)
      BY <1>4, DecimalRecordFacts DEF NumberField
    <3> QED
      BY <1>4, <1>5, <2>2, <3>3, <3>4 DEF Fits
  <2>3. CASE kind = Invalid /\ v # Value("nil")
    <3>1. kind' = ParseValue(field, createAll, v)
      BY <2>0, <2>3 DEF Save
    <3>2. v.go = "decimal" /\ Proper(v.p, v.s) /\ (IsNumber(dest, v.p, v.s) <=> NumberField(dest, field))
      BY <1>1, <2>3 DEF DecimalValue
    <3>3. ~Schemaless(field) /\ ToKindDetails(field).k = "decimal"
      BY <1>0, <1>4, DecimalFieldFacts, DecimalRecordFacts DEF Schemaless
    <3>4. kind' = KindOfValue(v)
      BY <3>1, <3>2, <3>3 DEF ParseValue
    <3>5. KindOfValue(v) = DecimalKind(v.p, v.s)
      BY <3>2 DEF KindOfValue
    <3>6. DecimalKind(v.p, v.s) = Dec(v.p, v.s)
      BY <3>2, NewDecimalFacts, DecimalRecordFacts
    <3> QED
      BY <1>5, <2>3, <3>2, <3>4, <3>5, <3>6 DEF Fits
  <2> QED
    BY <2>1, <2>2, <2>3
<1>7. /\ kind' = Invalid \/ Fits(dest, field, kind')
      /\ kind' = Invalid => rows' \subseteq {Value("nil")}
      /\ column = NoColumn => kind' = Invalid \/ (kind'.k = "decimal" /\ kind'.p # NoDetails)
      /\ kind'.k = "int" => failures > 0
  <2>1. /\ kind = Invalid \/ Fits(dest, field, kind)
        /\ kind = Invalid => rows \subseteq {Value("nil")}
        /\ column = NoColumn => kind = Invalid \/ (kind.k = "decimal" /\ kind.p # NoDetails)
        /\ kind.k = "int" => failures > 0
    BY <1>0 DEF DecimalInv
  <2>2. \A kd : kd.k = "decimal" => kd # Invalid
    BY DistinctKinds
  <2>3. Invalid.k # "int"
    BY DistinctKinds
  <2> QED
    BY <1>2, <1>6, <2>1, <2>2, <2>3
<1> QED
  BY <1>0, <1>2, <1>3, <1>7 DEF DecimalInv

\* The merged kind of a decimal: it fits, and an integer is taken over only when the kind
\* was not known.
LEMMA DecimalRetyped ==
  ASSUME NEW d, NEW fd, kind \in Kinds, kind = Invalid \/ Fits(d, fd, kind), NEW found, Fits(d, fd, found)
  PROVE  /\ Fits(d, fd, Retyped(found))
         /\ Retyped(found).k = "int" => kind = Invalid \/ kind.k = "int"
<1>1. /\ kind.k \in {"invalid", "decimal", "int", "string"} /\ kind.t = "none"
      /\ kind.p = NoDetails \/ (Proper(kind.p, kind.s) /\ (IsNumber(d, kind.p, kind.s) <=> NumberField(d, fd)))
  BY DistinctKinds DEF Fits
<1>2. kind.f = FALSE
  <2>1. CASE kind = Invalid
    BY <2>1, DistinctKinds, Zenon
  <2>2. CASE Fits(d, fd, kind)
    BY <2>2, Zenon DEF Fits
  <2> QED
    BY <2>1, <2>2
<1>3. Retyped(found) \in Kinds
  BY RetypedFacts DEF Fits
<1>4. Retyped(found).f = FALSE
  BY <1>2, RetypedFacts, Zenon
<1>5. /\ Retyped(found).t = "none"
      /\ Retyped(found).k = IF kind.k = "decimal" /\ found.k = "int" THEN "decimal" ELSE found.k
      /\ Retyped(found).p = IF kind.p = NoDetails THEN found.p ELSE kind.p
      /\ Retyped(found).s = IF kind.p = NoDetails THEN found.s ELSE kind.s
  BY <1>1, RetypedFacts DEF Fits
<1>6. IF Retyped(found).p = NoDetails THEN Retyped(found).s = 0
      ELSE /\ Proper(Retyped(found).p, Retyped(found).s)
           /\ IsNumber(d, Retyped(found).p, Retyped(found).s) <=> NumberField(d, fd)
  BY <1>1, <1>5 DEF Fits
<1>7. Retyped(found).k \in {"decimal", "int", "string"}
  BY <1>5 DEF Fits
<1>8. /\ Retyped(found).k = "int" => NumberField(d, fd)
      /\ Retyped(found).k = "string" => ~NumberField(d, fd)
  BY <1>5 DEF Fits
<1>9. Fits(d, fd, Retyped(found))
  BY <1>3, <1>4, <1>5, <1>6, <1>7, <1>8, Zenon DEF Fits
<1>10. Retyped(found).k = "int" => kind = Invalid \/ kind.k = "int"
  <2>1. Retyped(found).k = "int" => found.k = "int" /\ kind.k # "decimal"
    BY <1>5
  <2>2. found.k = "int" => kind.k # "string" \/ kind = Invalid
    BY DEF Fits
  <2> QED
    BY <2>1, <2>2 DEF Fits
<1> QED
  BY <1>9, <1>10

\* A flush of a decimal.
LEMMA DecimalFlush ==
  ASSUME IInv, IsDecimal(field), StartFlush
  PROVE  DecimalInv'
<1>0. /\ field \in Fields /\ DecimalInv /\ ColumnInv /\ TypeOK /\ dest \in Destinations /\ kind \in Kinds
      /\ pc = "idle" /\ pc' = "staging"
  BY DEF IInv, TypeOK, StartFlush
<1>1. UNCHANGED <<dest, field, rows, failures>>
  BY DEF StartFlush
<1>2. /\ kind = Invalid \/ Fits(dest, field, kind)
      /\ kind = Invalid => rows \subseteq {Value("nil")}
      /\ column = NoColumn => kind = Invalid \/ (kind.k = "decimal" /\ kind.p # NoDetails)
      /\ cached \in {Unknown, Missing} \/ Fits(dest, field, cached)
      /\ kind.k = "int" => failures > 0
  BY <1>0 DEF DecimalInv
<1>3. CASE dest = "s3"
  <2>1. UNCHANGED <<kind, column, cached>>
    BY <1>3 DEF StartFlush
  <2> QED
    BY <1>0, <1>1, <1>2, <2>1 DEF DecimalInv
<1>4. CASE dest # "s3"
  <2>0. dest \in Warehouses
    BY <1>0, <1>4 DEF Warehouses
  <2>1. \A found : Fits(dest, field, found) =>
           /\ Fits(dest, field, Retyped(found))
           /\ Retyped(found).k = "int" => kind = Invalid \/ kind.k = "int"
    BY <1>0, <1>2, DecimalRetyped
  <2>2. \/ /\ column = NoColumn /\ kind # Invalid
           /\ column' = KindToDWHType(dest, kind) /\ cached' = kind /\ kind' = Retyped(kind)
        \/ /\ column = NoColumn /\ kind = Invalid
           /\ column' = column /\ cached' = Missing /\ kind' = kind
        \/ /\ column # NoColumn
           /\ column' = column /\ kind' = Retyped(cached')
           /\ cached' # Missing
           /\ \/ cached' = cached /\ cached # Unknown
              \/ cached' = DwhTypeToKind(dest, Described(dest, column))
    BY <1>0, <1>4, FlushCases
  <2>3. \A kd : Fits(dest, field, kd) => kd # Invalid
    BY DistinctKinds DEF Fits
  <2>4. CASE /\ column = NoColumn /\ kind # Invalid
             /\ column' = KindToDWHType(dest, kind) /\ cached' = kind /\ kind' = Retyped(kind)
    <3>1. Fits(dest, field, kind) /\ kind.k = "decimal" /\ kind.p # NoDetails
      BY <1>2, <2>4
    <3>2. Proper(kind.p, kind.s) /\ (IsNumber(dest, kind.p, kind.s) <=> NumberField(dest, field))
      BY <3>1 DEF Fits
    <3>3. kind = Dec(kind.p, kind.s)
      <4>1. Dec(kind.p, kind.s) \in Kinds
        BY <3>2, KindsFacts
      <4>2. /\ Dec(kind.p, kind.s).k = kind.k /\ Dec(kind.p, kind.s).t = kind.t
            /\ Dec(kind.p, kind.s).p = kind.p /\ Dec(kind.p, kind.s).s = kind.s
        BY <3>1, DecimalRecordFacts DEF Fits
      <4>3. Dec(kind.p, kind.s).f = kind.f
        BY <3>1, DecimalRecordFacts, Zenon DEF Fits
      <4> QED
        BY <1>0, <4>1, <4>2, <4>3, SameKind, Zenon
    <3>4. column' = KindToDWHType(dest, Dec(kind.p, kind.s)) /\ column' # NoColumn
      BY <1>4, <2>4, <3>3, CreatedColumn
    <3>5. Fits(dest, field, kind') /\ kind'.k # "int"
      BY <2>1, <2>3, <2>4, <3>1
    <3> QED
      BY <1>0, <1>1, <2>3, <2>4, <3>1, <3>2, <3>4, <3>5 DEF DecimalInv
  <2>5. CASE /\ column = NoColumn /\ kind = Invalid
             /\ column' = column /\ cached' = Missing /\ kind' = kind
    BY <1>0, <1>1, <1>2, <2>5, DistinctKinds DEF DecimalInv
  <2>6. CASE /\ column # NoColumn
             /\ column' = column /\ kind' = Retyped(cached')
             /\ cached' # Missing
             /\ \/ cached' = cached /\ cached # Unknown
                \/ cached' = DwhTypeToKind(dest, Described(dest, column))
    <3>1. Fits(dest, field, cached')
      <4>1. CASE cached' = cached /\ cached # Unknown
        BY <1>2, <2>6, <4>1
      <4>2. CASE cached' = DwhTypeToKind(dest, Described(dest, column))
        <5>1. CASE column = Type("numeric") /\ dest = "bigquery" /\ NumberField(dest, field)
          <6>1. cached' = Kind("decimal")
            BY <4>2, <5>1, PlainNumericReread
          <6>2. Fits(dest, field, Kind("decimal"))
            BY KindsFacts, RecordFacts DEF Fits
          <6> QED
            BY <6>1, <6>2
        <5>2. CASE \E p, s : /\ Proper(p, s)
                             /\ IsNumber(dest, p, s) <=> NumberField(dest, field)
                             /\ column = KindToDWHType(dest, Dec(p, s))
          <6>1. PICK p, s : /\ Proper(p, s)
                            /\ IsNumber(dest, p, s) <=> NumberField(dest, field)
                            /\ column = KindToDWHType(dest, Dec(p, s))
            BY <5>2
          <6> QED
            BY <2>0, <4>2, <6>1, DecimalReread
        <5> QED
          BY <1>0, <2>6, <5>1, <5>2 DEF DecimalInv
      <4> QED
        BY <2>6, <4>1, <4>2
    <3>2. Fits(dest, field, kind') /\ (kind'.k = "int" => kind = Invalid \/ kind.k = "int")
      BY <2>1, <2>6, <3>1
    <3>3. kind'.k = "int" => failures > 0 \/ rows \subseteq {Value("nil")}
      BY <1>2, <3>2
    <3>4. kind' # Invalid
      BY <2>3, <3>2
    <3> QED
      BY <1>0, <1>1, <2>6, <3>1, <3>2, <3>3, <3>4 DEF DecimalInv
  <2> QED
    BY <2>2, <2>4, <2>5, <2>6
<1> QED
  BY <1>3, <1>4

-----------------------------------------------------------------------------
\* Before the first message.
LEMMA InitInv == Init => IInv
<1> SUFFICES ASSUME Init PROVE IInv
  OBVIOUS
<1> USE DEF Init
<1>1. TypeOK
  <2>1. KindOK(Invalid) /\ Unknown \in Kinds
    BY ShapeFacts
  <2>2. IsFiniteSet(rows)
    BY FS_EmptySet
  <2> QED
    BY <2>1, <2>2 DEF TypeOK, KindOK
<1>2. column = NoColumn \/ (column = Type("numeric") /\ dest = "bigquery" /\ field.name = "Decimal")
  BY DEF PlainNumeric
<1>3. Type("numeric") # NoColumn
  BY DEF NoColumn, Type
<1>4. ColumnInv
  BY <1>2, DistinctKinds DEF ColumnInv
<1>5. ASSUME IsPlain(field)
      PROVE  PlainInv
  <2>1. column = NoColumn
    BY <1>2, <1>5 DEF IsPlain, IsDecimal
  <2> QED
    BY <2>1 DEF PlainInv
<1>6. ASSUME TimeName(field) # "none"
      PROVE  TimeInv
  <2>1. column = NoColumn
    BY <1>2, <1>6, Classes DEF IsDecimal
  <2>2. kind.k \notin MisfitKinds /\ cached.k \notin MisfitKinds
    BY DistinctKinds DEF MisfitKinds
  <2> QED
    BY <2>1, <2>2 DEF TimeInv
<1>7. ASSUME IsDecimal(field)
      PROVE  DecimalInv
  <2>1. column = NoColumn \/ (column = Type("numeric") /\ dest = "bigquery" /\ NumberField(dest, field))
    <3> SUFFICES ASSUME column # NoColumn
                 PROVE  column = Type("numeric") /\ dest = "bigquery" /\ NumberField(dest, field)
      OBVIOUS
    <3>1. dest = "bigquery" /\ column = Type("numeric") /\ BigQueryKind(ToKindDetails(field)).ty = "numeric"
      BY DEF PlainNumeric
    <3>2. PICK p, s : Proper(p, s) /\ ToKindDetails(field) = Dec(p, s)
      BY <1>7, DecimalFieldFacts
    <3>3. Dec(p, s).k = "decimal" /\ Dec(p, s).p = p /\ Dec(p, s).s = s /\ p # NoDetails
      BY <3>2, DecimalRecordFacts DEF Proper, NoDetails, PrecisionNotSpecified, NilPrecision
    <3>4. KindToDWHType(dest, Dec(p, s)) = BigQueryKind(Dec(p, s))
      BY <3>1, <3>3 DEF KindToDWHType
    <3>5. ~IsNumber(dest, p, s) => BigQueryKind(Dec(p, s)) = Type("string")
      BY <3>1, <3>2, <3>3, <3>4, DecimalTypes DEF Warehouses, Destinations
    <3>6. Type("string").ty = "string"
      BY DescribedFacts
    <3> QED
      BY <3>1, <3>2, <3>3, <3>5, <3>6 DEF NumberField
  <2>2. kind.k # "int"
    BY DistinctKinds
  <2> QED
    BY <2>1, <2>2 DEF DecimalInv
<1> QED
  BY <1>1, <1>4, <1>5, <1>6, <1>7 DEF IInv

\* The class of the field keeps the kinds in shape.
LEMMA Shapes ==
  ASSUME NEW d, NEW fd \in Fields, NEW kd, NEW c,
         IsPlain(fd) => LET both == {Kind(PlainKind(fd)), Kind(Reread(d, PlainKind(fd)))}
                        IN kd \in {Invalid} \cup both /\ c \in {Unknown, Missing} \cup both,
         TimeName(fd) # "none" => /\ kd = Invalid \/ TimeLike(kd, TimeName(fd))
                                  /\ c \in {Unknown, Missing} \/ TimeLike(c, TimeName(fd)),
         IsDecimal(fd) => /\ kd = Invalid \/ Fits(d, fd, kd)
                          /\ c \in {Unknown, Missing} \/ Fits(d, fd, c)
  PROVE  KindOK(kd) /\ c \in Kinds
<1>1. CASE IsPlain(fd)
  BY <1>1, ShapeFacts DEF KindOK
<1>2. CASE TimeName(fd) # "none"
  BY <1>2, ShapeFacts DEF KindOK
<1>3. CASE IsDecimal(fd)
  BY <1>3, ShapeFacts DEF KindOK
<1> QED
  BY <1>1, <1>2, <1>3 DEF IsPlain

\* A step that leaves the destination and the field alone keeps the types, if it keeps the
\* invariant of the field's class.
LEMMA TypeStep ==
  ASSUME TypeOK, UNCHANGED <<dest, field, createAll>>, pc' \in {"idle", "staging"}, failures' \in Nat, IsFiniteSet(rows'),
         IsPlain(field) => PlainInv', TimeName(field) # "none" => TimeInv', IsDecimal(field) => DecimalInv'
  PROVE  TypeOK'
<1>1. field \in Fields
  BY DEF TypeOK
<1>2. IsPlain(field) => LET both == {Kind(PlainKind(field)), Kind(Reread(dest, PlainKind(field)))}
                        IN kind' \in {Invalid} \cup both /\ cached' \in {Unknown, Missing} \cup both
  BY DEF PlainInv
<1>3. TimeName(field) # "none" => /\ kind' = Invalid \/ TimeLike(kind', TimeName(field))
                                  /\ cached' \in {Unknown, Missing} \/ TimeLike(cached', TimeName(field))
  BY DEF TimeInv
<1>4. IsDecimal(field) => /\ kind' = Invalid \/ Fits(dest, field, kind')
                          /\ cached' \in {Unknown, Missing} \/ Fits(dest, field, cached')
  BY DEF DecimalInv
<1>5. KindOK(kind') /\ cached' \in Kinds
  BY <1>1, <1>2, <1>3, <1>4, Shapes
<1> QED
  BY <1>5 DEF TypeOK, KindOK

\* A batch of NULLs can be staged in a column of any kind.
LEMMA NullsStaged ==
  ASSUME rows \subseteq {Value("nil")}, ~Panics
  PROVE  Staged
<1>1. Cast(dest, kind, Value("nil")) = "null"
  BY RecordFacts DEF Cast
<1>2. \A v \in rows : Accepts(dest, StagedType, Cast(dest, kind, v))
  BY <1>1 DEF Accepts
<1> QED
  BY <1>2 DEF Staged

\* Every step keeps the inductive invariant.
LEMMA NextInv == IInv /\ [Next]_vars => IInv'
<1> SUFFICES ASSUME IInv, [Next]_vars PROVE IInv'
  OBVIOUS
<1>0. TypeOK /\ ColumnInv /\ field \in Fields /\ failures \in Nat
  BY DEF IInv, TypeOK
<1>1. ASSUME NEW raw \in Incoming(field) \cup {"nil"}, NEW v \in RowValues(field, raw), Save(v)
      PROVE  IInv'
  <2>1. UNCHANGED <<dest, field, createAll, column, cached, pc, failures>> /\ pc = "idle" /\ rows' = rows \cup {v}
    BY <1>1 DEF Save
  <2>2. ColumnInv'
    BY <1>0, <2>1 DEF ColumnInv
  <2>3. IsFiniteSet(rows')
    BY <1>0, <2>1, FS_AddElement DEF TypeOK
  <2>4. IsPlain(field) => PlainInv'
    BY <1>1, PlainSave
  <2>5. TimeName(field) # "none" => TimeInv'
    BY <1>1, TimeSave
  <2>6. IsDecimal(field) => DecimalInv'
    BY <1>1, DecimalSave
  <2>7. TypeOK'
    BY <1>0, <2>1, <2>3, <2>4, <2>5, <2>6, TypeStep
  <2> QED
    BY <2>1, <2>2, <2>4, <2>5, <2>6, <2>7 DEF IInv
<1>2. CASE StartFlush
  <2>1. UNCHANGED <<dest, field, createAll, rows, failures>> /\ pc' = "staging"
    BY <1>2 DEF StartFlush
  <2>2. IsPlain(field) => PlainInv'
    BY <1>2, PlainFlush
  <2>3. TimeName(field) # "none" => TimeInv'
    BY <1>2, TimeFlush
  <2>4. IsDecimal(field) => DecimalInv'
    BY <1>2, DecimalFlush
  <2>5. TypeOK'
    <3>1. IsFiniteSet(rows') /\ failures' \in Nat
      BY <1>0, <2>1 DEF TypeOK
    <3> QED
      BY <1>0, <2>1, <2>2, <2>3, <2>4, <3>1, TypeStep
  <2>6. ColumnInv'
    <3>1. CASE dest = "s3"
      <4>1. UNCHANGED <<column, cached>>
        BY <1>2, <3>1 DEF StartFlush
      <4> QED
        BY <1>0, <2>1, <3>1, <4>1 DEF ColumnInv
    <3>2. CASE dest # "s3"
      <4>1. \/ /\ column = NoColumn /\ kind # Invalid
               /\ column' = KindToDWHType(dest, kind) /\ cached' = kind /\ kind' = Retyped(kind)
            \/ /\ column = NoColumn /\ kind = Invalid
               /\ column' = column /\ cached' = Missing /\ kind' = kind
            \/ /\ column # NoColumn
               /\ column' = column /\ kind' = Retyped(cached')
               /\ cached' # Missing
               /\ \/ cached' = cached /\ cached # Unknown
                  \/ cached' = DwhTypeToKind(dest, Described(dest, column))
        BY <1>0, <1>2, <3>2, FlushCases
      <4>2. column = NoColumn /\ kind # Invalid => KindToDWHType(dest, kind) # NoColumn
        BY <3>2, CreatedColumn
      <4>3. kind # Missing
        BY <1>0, DistinctKinds DEF TypeOK, KindOK
      <4> QED
        BY <2>1, <3>2, <4>1, <4>2, <4>3 DEF ColumnInv
    <3> QED
      BY <3>1, <3>2
  <2> QED
    BY <2>1, <2>2, <2>3, <2>4, <2>5, <2>6 DEF IInv
<1>3. CASE FlushSucceeds \/ Restart
  <2>1. /\ UNCHANGED <<dest, field, createAll, column, failures>> /\ pc' = "idle" /\ rows' = {} /\ kind' = Invalid
        /\ cached' \in {cached, Unknown}
    BY <1>3 DEF FlushSucceeds, Restart
  <2>2. ColumnInv'
    BY <1>0, <2>1, DistinctKinds DEF ColumnInv
  <2>3. IsPlain(field) => PlainInv'
    BY <2>1 DEF IInv, PlainInv
  <2>4. TimeName(field) # "none" => TimeInv'
    BY <2>1, DistinctKinds DEF IInv, TimeInv, MisfitKinds
  <2>5. IsDecimal(field) => DecimalInv'
    BY <2>1, DistinctKinds DEF IInv, DecimalInv
  <2>6. TypeOK'
    <3>1. IsFiniteSet(rows') /\ failures' \in Nat
      BY <1>0, <2>1, FS_EmptySet
    <3> QED
      BY <1>0, <2>1, <2>3, <2>4, <2>5, <3>1, TypeStep
  <2> QED
    BY <2>1, <2>2, <2>3, <2>4, <2>5, <2>6 DEF IInv
<1>4. CASE FlushFails
  <2>1. UNCHANGED <<dest, field, createAll, kind, rows, column, cached>> /\ pc' = "idle"
    BY <1>4 DEF FlushFails
  <2>2. failures' \in Nat /\ failures' >= failures /\ (Staged => failures' > 0)
    <3>1. failures' = IF Staged THEN failures + 1 ELSE failures
      BY <1>4 DEF FlushFails
    <3> QED
      BY <1>0, <3>1
  <2>3. ColumnInv'
    BY <1>0, <2>1 DEF ColumnInv
  <2>4. IsPlain(field) => PlainInv'
    BY <2>1 DEF IInv, PlainInv
  <2>5. TimeName(field) # "none" => TimeInv'
    BY <2>1 DEF IInv, TimeInv
  <2>6. ASSUME IsDecimal(field)
        PROVE  DecimalInv'
    <3>1. DecimalInv
      BY <2>6 DEF IInv
    <3>2. kind.k = "int" => failures' > 0
      <4>1. rows \subseteq {Value("nil")} => Staged
        BY <1>4, NullsStaged DEF FlushFails
      <4>2. kind.k = "int" => failures > 0 \/ rows \subseteq {Value("nil")}
        BY <3>1 DEF DecimalInv
      <4> QED
        BY <1>0, <2>2, <4>1, <4>2
    <3> QED
      BY <2>1, <3>1, <3>2 DEF DecimalInv
  <2>7. TypeOK'
    <3>1. IsFiniteSet(rows')
      BY <1>0, <2>1 DEF TypeOK
    <3> QED
      BY <1>0, <2>1, <2>2, <2>4, <2>5, <2>6, <3>1, TypeStep
  <2> QED
    BY <2>1, <2>3, <2>4, <2>5, <2>6, <2>7 DEF IInv
<1>5. CASE UNCHANGED vars
  <2>1. TypeOK' /\ ColumnInv'
    BY <1>0, <1>5 DEF vars, TypeOK, ColumnInv
  <2>2. IsPlain(field) => PlainInv'
    BY <1>5 DEF vars, IInv, PlainInv
  <2>3. TimeName(field) # "none" => TimeInv'
    BY <1>5 DEF vars, IInv, TimeInv
  <2>4. IsDecimal(field) => DecimalInv'
    BY <1>5 DEF vars, IInv, DecimalInv
  <2>5. field' = field
    BY <1>5 DEF vars
  <2> QED
    BY <2>1, <2>2, <2>3, <2>4, <2>5 DEF IInv
<1> QED
  BY <1>1, <1>2, <1>3, <1>4, <1>5 DEF Next

\* The inductive invariant holds in every reachable state.
THEOREM Invariance == Spec => []IInv
BY InitInv, NextInv, PTL DEF Spec

\* Every variable keeps its type; Save and MergeColumnsFromDestination give the column in
\* memory only kinds that have a type in the destination.
THEOREM TypeCorrect == Spec => []TypeOK
<1>1. IInv => TypeOK
  BY DEF IInv
<1> QED
  BY <1>1, Invariance, PTL

-----------------------------------------------------------------------------
\* A batch of a field without details can be staged.
LEMMA StagedPlain ==
  ASSUME IInv, IsPlain(field), kind # Invalid, ~UnmarshalledMap
  PROVE  ~Panics /\ \A v \in rows : Accepts(dest, StagedType, Cast(dest, kind, v))
<1> DEFINE k == PlainKind(field)
<1>0. dest \in Destinations /\ k \in PlainKinds /\ PlainInv
  BY PlainFacts DEF IInv, TypeOK
<1>1. PICK kk \in {k, Reread(dest, k)} : kind = Kind(kk)
  BY <1>0 DEF PlainInv
<1>2. StagedType = TypeOf(dest, Kind(kk)) /\ kk \in PlainKinds
  BY <1>0, <1>1 DEF StagedType, TypeOf, Reread, PlainKinds
<1>3. ASSUME NEW v \in rows
      PROVE  Accepts(dest, StagedType, Cast(dest, kind, v))
  <2>1. PICK go \in {"nil"} \cup PlainValues(k) : v = Value(go)
    BY <1>0 DEF PlainInv
  <2>2. ~(dest = "bigquery" /\ go = "map")
    BY <2>1 DEF UnmarshalledMap
  <2> QED
    BY <1>0, <1>1, <1>2, <2>1, <2>2, PlainAccepted
<1>4. StagedType.ty # "panic"
  <2> DEFINE ty == TypeOf(dest, Kind(kk)).ty
  <2>1. \/ kk = "string" /\ ty \in TextTypes
        \/ kk = "int" /\ ty \in {"int", "int8", "bigint", "int64"}
        \/ kk = "float" /\ ty \in {"float", "float64"}
        \/ kk = "bool" /\ ty \in {"boolean", "boolean_null", "bool", "bit"}
        \/ kk = "array" /\ ty = IF dest = "snowflake" THEN "array" ELSE IF dest = "bigquery" THEN "array<string>"
                               ELSE IF dest = "s3" THEN "list" ELSE IF dest = "redshift" THEN "varchar(max)" ELSE "nvarchar(max)"
        \/ kk = "struct" /\ ty = IF dest = "snowflake" THEN "variant" ELSE IF dest = "bigquery" THEN "json"
                                ELSE IF dest = "s3" THEN "byte_array" ELSE IF dest = "redshift" THEN "super" ELSE "nvarchar(max)"
    BY <1>0, <1>2, PlainTypes
  <2>2. ty = StagedType.ty
    BY <1>2
  <2> HIDE DEF ty
  <2>3. ty # "panic"
    BY <2>1 DEF TextTypes
  <2> QED
    BY <2>2, <2>3
<1> QED
  BY <1>3, <1>4 DEF Panics

\* The same for a time; its temporary column has the type of the target's.
LEMMA StagedTime ==
  ASSUME IInv, TimeName(field) # "none", kind # Invalid, ~Unparsed, ~NoFormat
  PROVE  /\ ~Panics /\ \A v \in rows : Accepts(dest, StagedType, Cast(dest, kind, v))
         /\ dest # "s3" => StagedType = Type(kindToDWH[dest][TimeName(field)])
<1> DEFINE t == TimeName(field)
<1>0. dest \in Destinations /\ t \in Times /\ TimeInv /\ kind \in Kinds
  BY Classes DEF IInv, TypeOK
<1>1. kind.k = "time" /\ kind.t = t
  <2>1. TimeLike(kind, t)
    BY <1>0 DEF TimeInv
  <2>2. kind.k \notin MisfitKinds
    BY <1>0 DEF TimeInv, Unparsed, MisfitType, MisfitValues
  <2> QED
    BY <2>1, <2>2 DEF TimeLike
<1>2. kind.f \in BOOLEAN
  BY <1>0 DEF Kinds
<1>3. dest = "s3" => kind.f
  BY <1>1 DEF NoFormat
<1>4. \A v \in rows : v \in {Value("nil"), ExtendedTime(t), Value(t)}
  BY <1>0 DEF TimeInv, Unparsed, MisfitValues
<1>5. StagedType = TypeOf(dest, kind)
  BY DEF StagedType, TypeOf
<1>6. \A v \in {Value("nil"), ExtendedTime(t), Value(t)} :
         /\ Accepts(dest, TypeOf(dest, kind), Cast(dest, kind, v))
         /\ dest # "s3" => TypeOf(dest, kind) = Type(kindToDWH[dest][t])
  BY <1>0, <1>1, <1>2, <1>3, TimeAccepted
<1>7. StagedType.ty # "panic"
  <2>1. CASE dest = "s3"
    <3>1. ParquetAnnotation(kind) \in {Type("byte_array"), Type("int64")}
      BY <1>1 DEF ParquetAnnotation
    <3> QED
      BY <2>1, <3>1, DescribedFacts DEF StagedType
  <2>2. CASE dest # "s3"
    BY <1>0, <1>5, <1>6, <2>2, NameFacts, DescribedFacts DEF Warehouses
  <2> QED
    BY <2>1, <2>2
<1> QED
  BY <1>4, <1>5, <1>6, <1>7 DEF Panics

\* The same for a decimal, whose integers stand for NULLs only.
LEMMA StagedDecimal ==
  ASSUME IInv, IsDecimal(field), kind # Invalid, ~NilDetails, ~StaleInteger, pc = "staging"
  PROVE  ~Panics /\ \A v \in rows : Accepts(dest, StagedType, Cast(dest, kind, v))
<1>0. dest \in Destinations /\ field \in Fields /\ DecimalInv /\ ColumnInv /\ failures \in Nat
  BY DEF IInv, TypeOK
<1>1. Fits(dest, field, kind) /\ ~(kind.k = "decimal" /\ kind.p = NoDetails)
  BY <1>0 DEF DecimalInv, NilDetails
<1>2. dest = "s3" => kind.k = "decimal"
  BY <1>0 DEF ColumnInv, DecimalInv
<1>3. StagedType = TypeOf(dest, kind)
  BY DEF StagedType, TypeOf
<1>4. kind.k = "int" => rows \subseteq {Value("nil")}
  <2>1. kind.k = "int" => field.name = "Decimal"
    <3> SUFFICES ASSUME kind.k = "int", field.name # "Decimal"
                 PROVE  FALSE
      OBVIOUS
    <3>1. NumberField(dest, field)
      BY <1>1 DEF Fits
    <3>2. ToKindDetails(field).p = PrecisionNotSpecified
      BY <1>0, DecimalFieldFacts, DecimalRecordFacts DEF IsDecimal
    <3> QED
      BY <3>1, <3>2 DEF NumberField, IsNumber, PrecisionNotSpecified
  <2> QED
    BY <1>0, <2>1 DEF DecimalInv, StaleInteger
<1>5. \A v \in rows : v = Value("nil") \/ (kind.k # "int" /\ v.go = "decimal")
  BY <1>0, <1>4 DEF DecimalInv, DecimalValue
<1>6. \A v \in rows : Accepts(dest, StagedType, Cast(dest, kind, v))
  BY <1>0, <1>1, <1>2, <1>3, <1>5, DecimalAccepted
<1>7. StagedType.ty # "panic"
  <2>1. CASE dest = "s3"
    <3>1. ParquetAnnotation(kind) \in {Type("byte_array"), Numeric("decimal", kind.p, kind.s)}
      BY <1>2, <2>1 DEF ParquetAnnotation
    <3>2. ParquetAnnotation(kind).ty \in {"byte_array", "decimal"}
      BY <3>1 DEF Type, Numeric
    <3> QED
      BY <2>1, <3>2 DEF StagedType
  <2>2. CASE dest # "s3"
    <3>1. StagedType = KindToDWHType(dest, kind) /\ dest \in Warehouses
      BY <1>0, <2>2 DEF StagedType, Warehouses
    <3>2. StagedType.ty \in {"numeric", "bignumeric", "int", "int8", "bigint"} \cup TextTypes
      BY <1>1, <3>1, FittingTypes DEF Fits
    <3> QED
      BY <3>2 DEF TextTypes
  <2> QED
    BY <2>1, <2>2
<1> QED
  BY <1>6, <1>7 DEF Panics

\* Every value of a batch can be staged, but for the known defects: type inference from
\* whichever value came first, the kind the destination describes, the kind that stays in
\* memory when a flush fails and the casts of every client agree for every field.
THEOREM StagingSucceeds == Spec => []StagingNeverSticks
<1>1. IInv => StagingNeverSticks
  <2> SUFFICES ASSUME IInv, pc = "staging", ~KnownDefect, kind # Invalid
               PROVE  ~Panics /\ \A v \in rows : Accepts(dest, StagedType, Cast(dest, kind, v))
    BY DEF StagingNeverSticks, Staged
  <2>1. CASE IsPlain(field)
    BY <2>1, StagedPlain DEF KnownDefect
  <2>2. CASE TimeName(field) # "none"
    BY <2>2, StagedTime DEF KnownDefect
  <2>3. CASE IsDecimal(field)
    BY <2>3, StagedDecimal DEF KnownDefect
  <2> QED
    BY <2>1, <2>2, <2>3 DEF IsPlain
<1> QED
  BY <1>1, Invariance, PTL

\* The temporary column fits the target's: whatever created the target's column, and
\* whatever kind was inferred or taken over since, MERGE assigns numbers to numbers, texts
\* to texts and everything else to its own type.
THEOREM TempFits == Spec => []TempFitsTarget
<1>1. IInv => TempFitsTarget
  <2> SUFFICES ASSUME IInv, pc = "staging", dest # "s3", kind # Invalid, ~KnownDefect
               PROVE  Assignable(StagedType, column)
    BY DEF TempFitsTarget
  <2>0. dest \in Warehouses /\ field \in Fields /\ column # NoColumn
    BY DEF IInv, TypeOK, ColumnInv, Warehouses
  <2>1. CASE IsPlain(field)
    <3> DEFINE k == PlainKind(field)
    <3>1. k \in PlainKinds /\ column = Type(kindToDWH[dest][k]) /\ kind \in {Kind(k), Kind(Reread(dest, k))}
      BY <2>0, <2>1, PlainFacts DEF IInv, PlainInv
    <3>2. PICK kk \in {k, Reread(dest, k)} : kind = Kind(kk) /\ kk \in PlainKinds
      BY <3>1 DEF Reread, PlainKinds
    <3>3. StagedType = Type(kindToDWH[dest][kk])
      BY <3>2, RecordFacts DEF StagedType, KindToDWHType, PlainKinds
    <3>4. StagedType.ty = kindToDWH[dest][kk] /\ column.ty = kindToDWH[dest][k]
      BY <3>1, <3>3, DescribedFacts
    <3>5. Creates(dest, kk, StagedType.ty) /\ Creates(dest, k, column.ty)
      BY <2>0, <3>1, <3>2, <3>4, NameFacts
    <3>6. CASE kk = k
      BY <3>4, <3>6 DEF Assignable
    <3>7. CASE kk # k
      <4>1. kk = "string" /\ ((dest \in {"redshift", "mssql"} /\ k = "array") \/ (dest = "mssql" /\ k = "struct"))
        BY <3>7 DEF Reread
      <4>2. StagedType.ty \in TextTypes /\ column.ty \in TextTypes
        BY <3>5, <4>1 DEF Creates, TextTypes
      <4> QED
        BY <4>2 DEF Assignable
    <3> QED
      BY <3>6, <3>7
  <2>2. CASE TimeName(field) # "none"
    <3>1. StagedType = Type(kindToDWH[dest][TimeName(field)])
      BY <2>2, StagedTime DEF KnownDefect
    <3>2. column = Type(kindToDWH[dest][TimeName(field)])
      <4>1. TimeName(field) \in Times /\ TimeInv
        BY <2>0, <2>2, Classes DEF IInv
      <4>2. \A g \in MisfitKinds : MisfitType(Type(kindToDWH[dest][g]))
        BY <2>0, <4>1, TimeColumns
      <4>3. TimeOf(field) # "none" => ~MisfitType(column)
        BY DEF KnownDefect, Unparsed, MisfitType
      <4> QED
        BY <2>0, <4>1, <4>2, <4>3 DEF TimeInv
    <3> QED
      BY <3>1, <3>2 DEF Assignable
  <2>3. CASE IsDecimal(field)
    <3>1. DecimalInv
      BY <2>3 DEF IInv
    <3>2. Fits(dest, field, kind) /\ ~(kind.k = "decimal" /\ kind.p = NoDetails)
      BY <3>1 DEF DecimalInv, KnownDefect, NilDetails
    <3>3. StagedType = KindToDWHType(dest, kind)
      BY DEF StagedType
    <3>4. /\ NumberField(dest, field) => StagedType.ty \in {"numeric", "bignumeric", "int", "int8", "bigint"}
          /\ ~NumberField(dest, field) => StagedType.ty \in TextTypes
      BY <2>0, <3>2, <3>3, FittingTypes DEF Fits
    <3>5. /\ NumberField(dest, field) => column.ty \in {"numeric", "bignumeric"}
          /\ ~NumberField(dest, field) => column.ty \in TextTypes
      <4>1. CASE column = Type("numeric") /\ NumberField(dest, field)
        BY <4>1, DescribedFacts
      <4>2. CASE \E p, s : /\ Proper(p, s)
                           /\ IsNumber(dest, p, s) <=> NumberField(dest, field)
                           /\ column = KindToDWHType(dest, Dec(p, s))
        <5>1. PICK p, s : /\ Proper(p, s)
                          /\ IsNumber(dest, p, s) <=> NumberField(dest, field)
                          /\ column = KindToDWHType(dest, Dec(p, s))
          BY <4>2
        <5>2. Dec(p, s).k = "decimal" /\ Dec(p, s).p = p /\ Dec(p, s).s = s
          BY DecimalRecordFacts
        <5>3. CASE NumberField(dest, field)
          <6>1. PICK ty \in {"numeric", "bignumeric"}, q \in Nat : column = Numeric(ty, q, s)
            BY <2>0, <5>1, <5>2, <5>3, DecimalTypes
          <6>2. column.ty = ty
            BY <6>1 DEF Numeric
          <6> QED
            BY <5>3, <6>2
        <5>4. CASE ~NumberField(dest, field)
          <6>1. column = Type(IF dest \in {"snowflake", "bigquery"} THEN "string" ELSE "text")
            BY <2>0, <5>1, <5>2, <5>4, DecimalTypes
          <6>2. column.ty \in {"string", "text"}
            BY <6>1, DescribedFacts
          <6> QED
            BY <5>4, <6>2 DEF TextTypes
        <5> QED
          BY <5>3, <5>4
      <4> QED
        BY <2>0, <3>1, <4>1, <4>2 DEF DecimalInv
    <3> QED
      BY <3>4, <3>5 DEF Assignable, Numbers
  <2> QED
    BY <2>1, <2>2, <2>3 DEF IsPlain
<1> QED
  BY <1>1, Invariance, PTL

=============================================================================
