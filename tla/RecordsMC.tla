------------------------------- MODULE RecordsMC -------------------------------
(***************************************************************************)
(* What mesh keeps in files and reads back, in parts, each in behaviours   *)
(* of its own: the day files of the network store, for two processes and   *)
(* two regions; the dump of loranet; the sheets of the database between    *)
(* mesh and the operator; and what `mesh db verify` says of them.          *)
(***************************************************************************)
EXTENDS RegionStore, Loranet, Sheets, DbVerify, TLC

CONSTANTS
  l1, l2, gw, junk, client, known, rare, long,
  n1, n2, N1, ad, ob, ka, kb, kw

VARIABLE part

SomeTraffics == {{2, 5}}
Alike == Permutations(Procs) \cup Permutations(Regions)

-----------------------------------------------------------------------------
(* One dump after another, or a dump of one node: what it was heard doing,  *)
(* where it is and what it says of itself, and which neighbours it names.  *)
SomeRoles == client :> known
Sees(a, b, c, d) == <<"x", gw>> :> a @@ <<"x", l1>> :> b @@ <<"y", l1>> :> c @@ <<"x", MapEnd>> :> d
PlainEntry ==
  [seenBy |-> Missing, metrics |-> Missing, mapReport |-> Missing, latitude |-> 1, longitude |-> 0, role |-> client,
   battery |-> 50, neighbors |-> Missing]
HeardEntries ==
  {[PlainEntry EXCEPT !.seenBy = s, !.metrics = m, !.mapReport = p] :
     s \in {Missing, Garbled} \cup {Sees(a, b, c, d) : a \in {0, 3}, b \in {2, Garbled}, c \in {3, 9}, d \in {4}}
          \cup {<<"x", l2>> :> 3, <<"x", l1>> :> 3 @@ <<"x", MapEnd>> :> 4},
     m \in {Missing, 4, Garbled}, p \in {Missing, 3}}
PlacedEntries ==
  {[PlainEntry EXCEPT !.latitude = a, !.longitude = b, !.role = x, !.battery = y] :
     a \in {Missing, Garbled, 0, 1, 8}, b \in {0, 8, 20}, x \in {client, rare, long, Garbled}, y \in {50, Garbled}}
Near(n, u) == [node |-> n, snr |-> Garbled, updated |-> u]
SomeNeighbors == {Garbled, Near(l2, 3), Near(junk, 3), Near(l2, 40), Near(l1, 0), Near(l2, Garbled)}
NamingEntries ==
  {[PlainEntry EXCEPT !.neighbors = <<x, y, z>>] : x \in SomeNeighbors,
     y \in SomeNeighbors, z \in {Near(l2, 3), Garbled}}
FewDumps ==
  {l1 :> PlainEntry, 
   l1 :> Garbled @@ junk :> PlainEntry @@ l2 :> [PlainEntry EXCEPT !.metrics = 4],
   junk :> PlainEntry, Garbled}
SomeServings == {<<d, e>> : d \in FewDumps, e \in FewDumps} \cup {<<l1 :> e>> : e \in HeardEntries \cup PlacedEntries \cup NamingEntries}

-----------------------------------------------------------------------------
(* Two nodes and a key; what the operator types into a cell, and what may   *)
(* become of the file.                                                     *)
NodeRow(id, name, mode) ==
  ToRow([node_id |-> <<id>>, long_name |-> name, hw_model |-> <<"TBEAM">>, main_chipset |-> <<>>, gps_alt |-> <<>>,
         authorized_admin_keys |-> <<"ad_pub">>, private_key_ref |-> <<>>, role |-> <<>>, ble_pin |-> <<"pin">>,
         management |-> mode, unregistered_admin_keys |-> <<>>, archived_at |-> <<>>])
Completed(row) == Merged(row, Derived("Keys", row))
KeyRow(owner, type) ==
  Completed([key_ref |-> <<>>, owner_node_id |-> <<owner>>, key_type |-> <<type>>, key_value |-> <<"k">>, origin |-> <<>>])
SomeFirst ==
  {[Nodes |-> <<NodeRow("a1", <<"MT11">>, <<"template">>), NodeRow("b2", <<"MT2">>, <<"observed">>)>>,
    Keys  |-> <<KeyRow("ad", "admin_public")>>]}
Ranks ==
  "MT2" :> 1 @@ "MT11" :> 2 @@ "a1" :> 3 @@ "b2" :> 4 @@ "ad" :> 5 @@ "admin_public" :> 6 @@ "admin_private" :> 7
  @@ "12345678" :> 8
Typing(words, spelled, type) == [own |-> Text(words, spelled), string |-> NoText, type |-> type]
SomeTyped ==
  {<<"Nodes", c, BlankCell>> : c \in {"node_id", "management", "hw_model", "private_key_ref"}} \cup
  {<<"Nodes", "node_id", Typing(<<"12345678">>, "plain", "float")>>,
   <<"Nodes", "node_id", Typing(<<"b2">>, "variant", "string")>>,
   <<"Nodes", "node_id", Typing(<<"123">>, "wrong", "float")>>,
   <<"Nodes", "long_name", Typing(<<"MT2">>, "variant", "string")>>,
   <<"Nodes", "authorized_admin_keys", Typing(<<"ad_pub", "", "ad_pub">>, "variant", "string")>>,
   <<"Nodes", "gps_alt", Typing(<<"12">>, "variant", "float")>>,
   <<"Nodes", "ble_pin", Typing(<<"12345">>, "wrong", "float")>>,
   <<"Nodes", "archived_at", Typing(<<"2026">>, "variant", "date")>>,
   <<"Nodes", "unregistered_admin_keys", Typing(<<"k", "k">>, "plain", "string")>>,
   <<"Nodes", "management", Typing(<<"Observed">>, "variant", "string")>>,
   <<"Keys", "key_type", StringCell(<<"admin_private">>)>>,
   <<"Keys", "owner_node_id", Typing(<<"ad">>, "variant", "string")>>,
   <<"Keys", "key_value", Typing(<<"k">>, "wrong", "string")>>}
SomePacks == [oversized : BOOLEAN, manifest : {"sound", "damaged"}, encrypted : BOOLEAN, content : {"sound", "damaged"}]
SomeChipset == [TBEAM |-> <<"ESP32">>]

-----------------------------------------------------------------------------
(* Databases of two nodes, an admin node and an owner known only by a key,  *)
(* with any two of three materials, one of them weak.                      *)
SomeCanonical == N1 :> n1
SomeRating ==
  [k \in {"pub", "priv"} \X {ka, kb, kw} |->
     IF k[2] # kw THEN "none" ELSE IF k[1] = "pub" THEN "critical" ELSE "warning"]
PublicRows  == UNION {[refs -> {ka, kb}] : refs \in SUBSET {Public(o) : o \in {n1, n2, N1, ad, ob}}}
PrivateRows == {<<>>, Private(ad) :> ka, Private(ad) :> kb}
PlainRow    == [authorized |-> {}, unregistered |-> {}]
Allows(o)   == [PlainRow EXCEPT !.authorized = {Public(o)}]
SomeNodes ==
  {<<>>, n1 :> PlainRow, n1 :> Allows(ad) @@ n2 :> Allows(ob), n1 :> Allows(ob) @@ n2 :> Allows(ob),
   n1 :> Allows(ad) @@ n2 :> [PlainRow EXCEPT !.unregistered = {ka}]}
SomeKeyRows == {Public(ad) :> k : k \in {ka, kw}} \cup {Public(ad) :> ka @@ Private(n1) :> kw @@ Public(n1) :> kb}
SomeDatabases ==
  [nodes : SomeNodes, keys : {p @@ q : p \in PublicRows, q \in PrivateRows}, template : {{ad}},
   mode : {"private"}, warnings : {{}}]
  \cup
  [nodes : SomeNodes, keys : SomeKeyRows, template : {NoTemplate, BrokenTemplate, {}, {ad}},
   mode : {"private", "open"}, warnings : {{}, {"coerced"}}]
NoDatabase ==
  [nodes |-> <<>>, keys |-> <<>>, template |-> NoTemplate, mode |-> "private", warnings |-> {}]

-----------------------------------------------------------------------------
PartInit ==
  /\ part \in {"hours", "dump", "sheets", "verify"}
  /\ Init /\ SheetsInit
  /\ IF part = "dump" THEN LoranetInit ELSE LoranetStart(<<Garbled>>)
  /\ IF part = "verify" THEN VerifyInit ELSE VerifyStart(NoDatabase)

PartNext ==
  /\ part' = part
  /\ \/ part = "hours"  /\ Next        /\ UNCHANGED <<loranetVars, sheetVars, verifyVars>>
     \/ part = "dump"   /\ LoranetNext /\ UNCHANGED <<vars, sheetVars, verifyVars>>
     \/ part = "sheets" /\ SheetsNext  /\ UNCHANGED <<vars, loranetVars, verifyVars>>
     \/ part = "verify" /\ VerifyNext  /\ UNCHANGED <<vars, loranetVars, sheetVars>>

PartSpec == PartInit /\ [][PartNext]_<<part, vars, loranetVars, sheetVars, verifyVars>>
=============================================================================
