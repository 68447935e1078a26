--------------------------- MODULE MCApplication ----------------------------
EXTENDS Application

Id == <<"id">>
Kind == <<"kind">>
Extra == <<"extra">>

MCChars == {",", "\"", "\n", "\r", "-", "A", "a", "0", "prefix:", "BASE ",
            "id", "kind", "extra", "?"}
MCHeader == <<Id, Kind>>
MCJunk == <<"?">>

-----------------------------------------------------------------------------
(* Files.  Values: empty, something to look up, something for unuuid,      *)
(* something to quote.                                                     *)
Values == {<<>>, <<"0">>, <<"A", "-">>, <<",", "\"">>}

FullRows == {<<v, w>> : v, w \in Values}
LongRows == {<<<<"0">>, <<",", "\"">>, <<"0">>>>, <<<<",", "\"">>, <<>>, <<>>>>}
ShortRows == {<<<<"0">>>>, <<<<",", "\"">>>>}

(* Every way to quote and to end lines, in two styles of writing. *)
Styles == {[quote |-> "needed", crlf |-> FALSE, lastNewLine |-> TRUE],
           [quote |-> "needed", crlf |-> TRUE, lastNewLine |-> FALSE],
           [quote |-> "all", crlf |-> TRUE, lastNewLine |-> TRUE],
           [quote |-> "all", crlf |-> FALSE, lastNewLine |-> FALSE]}

FilesOf(rows, n) ==
    {[s \in {"rows", "quote", "crlf", "lastNewLine"} |->
        IF s = "rows" THEN r ELSE style[s]] : r \in BoundedSeq(rows, n), style \in Styles}

(* Up to three equal rows: of three, two may throw and the last be left.   *)
ShortFiles == FilesOf(FullRows \union LongRows \union ShortRows, 2)
EqualRows == FilesOf({<<<<"0">>, <<"A", "-">>>>}, 3)
AllFiles == ShortFiles \union EqualRows
MCProduced == "all" :> ShortFiles @@ "few" :> EqualRows @@ "none" :> {}

-----------------------------------------------------------------------------
(* Configurations. *)

Map(m) == [kind |-> "map", map |-> m]
Scalar == [kind |-> "scalar"]
Absent == [kind |-> "absent"]

(* The example of the README; what is set before it is used; the type that *)
(* wraps nothing, in the first place and in a later one.                   *)
ReadmeTransforms ==
    <<[type |-> "unuuid", column |-> Id],
      [type |-> "map", column |-> Kind, lookup |-> <<"0">> :> <<"prefix:">>],
      [type |-> "append", column |-> Kind, from_column |-> Id]>>
SetTransforms ==
    <<[type |-> "unuuid", column |-> Extra], [type |-> "set", column |-> Extra, value |-> <<"a">>],
      [type |-> "prepend", column |-> Kind, from_column |-> Extra]>>
VoidTransforms ==
    <<[type |-> "void", column |-> Id],
      [type |-> "append", column |-> Kind, from_column |-> Id]>>

(* Two topics, of which one has a column that files do not have. *)
Topic(key, columns) == [kind |-> "map", key_column |-> key, columns |-> columns]
Topics == "topic1" :> Topic(Id, <<Id, Kind>>) @@ "topic2" :> Topic(Kind, <<Kind, Extra>>)

KafkaMap ==
    "schema.registry.url" :> "registry" @@ "bootstrap.servers" :> "brokers"
        @@ "client.id" :> "client" @@ "security" :> Nested

Base ==
    [kafka |-> Map(KafkaMap),
     column_map |-> Map(Kind :> <<"a">>),
     column_type_transforms |-> Map(Id :> "long" @@ Kind :> "int"),
     type_map |-> Map(Topics),
     max_age |-> Map("column" :> "id" @@ "days" :> "10"),
     transforms |-> ReadmeTransforms]

NoAge == [Base EXCEPT !.max_age = Absent]
WithTopic(t) == [Base EXCEPT !.type_map.map = "topic1" :> t @@ Topics]
WithTransforms(ts) == [Base EXCEPT !.transforms = ts]
Restricted(map, k) == [j \in DOMAIN map \ {k} |-> map[j]]

(* Documents that a reader of the README may write and nothing is said to. *)
Unusual ==
    {[Base EXCEPT !.column_type_transforms.map = Kind :> "boolean"],
     WithTransforms(<<ReadmeTransforms[1]>> \o VoidTransforms)}

Faulty ==
    {[Base EXCEPT ![k] = n] : k \in Sections \ {"max_age"}, n \in {Absent, Scalar}}
    \union {[Base EXCEPT !.kafka.map = Restricted(KafkaMap, k)] : k \in DOMAIN KafkaMap}
    \union {[Base EXCEPT !.type_map.map = <<>>],
            [Base EXCEPT !.type_map = Scalar, !.kafka.map = Restricted(@, "schema.registry.url")],
            WithTopic(Scalar @@ Topic("", <<>>)), WithTopic(Topic("", <<Id>>)),
            WithTopic(Topic(Id, <<>>)),
            [Base EXCEPT !.column_map.map = Kind :> Id],
            [Base EXCEPT !.max_age = Scalar],
            [Base EXCEPT !.max_age.map = "column" :> "id"],
            WithTransforms(<<[type |-> "append", column |-> Kind]>>),
            WithTransforms(<<[type |-> "set", column |-> Kind]>>),
            WithTransforms(<<[column |-> Kind]>>)}

Unknown == WithTransforms(<<ReadmeTransforms[1], [type |-> "lower", column |-> Kind]>>)

MCRefused == {"schema.registry.url", "bootstrap.servers", "client.id"} \X {""}

Input(directory, config, doc, producer, cores, files) ==
    [directory |-> directory, config |-> config, document |-> doc,
     producer |-> producer, cores |-> cores, files |-> files]
Started(doc, cores, files) == Input("open", "yaml", doc, TRUE, cores, files)

MCInputs ==
    {Started(Base, 7, "all"),
     Started([NoAge EXCEPT !.transforms = SetTransforms], 6, "all"),
     Started(WithTransforms(VoidTransforms), 5, "all"),
     Started(Unknown, 5, "few"), Started(NoAge, 7, "few"),
     Input("open", "yaml", Base, FALSE, 6, "none")}
    \union {Started(doc, 6, "none") : doc \in Faulty \union Unusual}
    \union {Input(d, "yaml", Base, TRUE, 6, "none") : d \in {"none", "absent", "file", "closed"}}
    \union {Input("open", c, Base, TRUE, 6, "none") : c \in {"none", "absent", "directory", "garbage"}}

FewCores == {Started(Base, cores, "none") : cores \in 1..7}

-----------------------------------------------------------------------------
(* A dash goes, a capital becomes small, "0" becomes its prefix, and the   *)
(* kind ends with the id, unless one of them is empty.                     *)
Unuuided(v) == CASE v = <<"A", "-">> -> <<"a">> [] OTHER -> v
Mapped(v) == CASE v = <<"0">> -> <<"prefix:">> [] OTHER -> v

(* The example of the README, written out: the id without dashes and in    *)
(* small letters, and behind the prefix that its kind is mapped to.        *)
ReadmeExample ==
    document.transforms = ReadmeTransforms =>
        \A k \in DOMAIN handed :
            LET row == file.rows[k]
            IN k <= Len(file.rows) /\ Len(row) >= 2 =>
                /\ handed[k][Id] = Unuuided(row[1])
                /\ row[2] # <<>> => handed[k][Kind] = Mapped(row[2]) \o Unuuided(row[1])
=============================================================================
