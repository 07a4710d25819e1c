-------------------------------- MODULE FleetMC --------------------------------
(***************************************************************************)
(* The commands that read a device and write it and its rows, each part of *)
(* them in behaviours of its own: the sessions on the database file; the   *)
(* registry of keys; the names of a fleet; the plan of a provision; what   *)
(* its read-back confirms; the sync of the peers; the way to a device; and *)
(* the audit of its key.                                                   *)
(***************************************************************************)
EXTENDS OdsStore, Registry, DeviceTold, NodeNames, Connecting, WeakKeys, TLC

CONSTANTS
  d1, d2, i1, i2, j1, j3, k1, k2, k3, k4, ad, o1, o2, o3,
  fa, nm, padded, longest, cut, r1, r2, r3, r4, q1, q2, q3, mine, odd, flt, new, m1, m2, m3,
  ours, theirs, a1, a2, e1, e2, e3, pk1, pk2, pk3

VARIABLE part

-----------------------------------------------------------------------------
(* The registry: a node d1 that is only adopted, a node d2 that is         *)
(* provisioned, an owner ad; keys k1 and k2 whose digests agree in the     *)
(* part a reference is made of, so that the second to be observed needs    *)
(* the longer one, k3 that is still to be generated, and k4 that an old    *)
(* row lists as unregistered.                                              *)
SomeFirstId   == d1 :> i1 @@ d2 :> i2
SomeFirstKey  == d1 :> k1 @@ d2 :> k2
SomeDerivedId == k1 :> j1 @@ k2 :> i2 @@ k3 :> j3 @@ k4 :> i1
SomeShort     == k1 :> o1 @@ k2 :> o1 @@ k3 :> o2 @@ k4 :> o3
SomeWide      == k1 :> o2 @@ k2 :> o3 @@ k3 :> o3 @@ k4 :> o2
SomeTemplates == {{}, {ad}}
SomeAdminSets == {{k1}, {k1, k2}}
SomeLegacy    == [i \in Ids |-> IF i = i2 THEN {k4} ELSE {}]

-----------------------------------------------------------------------------
(* A plan: a device as its row and its template have it, but for its key   *)
(* and names, its admin keys, its other fields, or its names and theirs.   *)
SomeKeyOf     == r1 :> q1 @@ r2 :> q1 @@ r3 :> q2 @@ r4 :> q3
SomeStripped  == fa :> fa @@ nm :> nm @@ padded :> nm @@ longest :> longest @@ cut :> cut
SomeTruncated == fa :> fa @@ nm :> nm @@ padded :> padded @@ longest :> cut @@ cut :> cut

NoAdmins == [k \in AdminKeys |-> 0]
SomeDevice ==
  [short |-> nm, long |-> nm, silent |-> Nothing, fields |-> [region |-> 1, role |-> 1],
   modules |-> m1 :> TRUE @@ m2 :> Nothing, pin |-> 1, channel |-> 1, adminChannel |-> FALSE,
   hasPolicy |-> TRUE, policy |-> 1, managed |-> FALSE, key |-> mine, private |-> TRUE,
   flawed |-> FALSE, admins |-> NoAdmins]
SomeRow ==
  [short |-> nm, long |-> nm, key |-> mine, generated |-> FALSE, pin |-> 1, admins |-> {}]
SomeTemplate ==
  [admins |-> <<>>, managed |-> FALSE, silent |-> Nothing, fields |-> [region |-> 1],
   options |-> m1 :> TRUE, channel |-> Nothing, policy |-> Nothing]
SomeOpts ==
  [force |-> FALSE, recovered |-> FALSE, backs |-> FALSE, allowWeak |-> FALSE,
   allowLockdown |-> FALSE, short |-> Nothing, long |-> Nothing, pin |-> 3]
SomeSetup ==
  [live |-> SomeDevice, row |-> SomeRow, template |-> SomeTemplate, opts |-> SomeOpts]

KeySetups ==
  {[SomeSetup EXCEPT
     !.live.key = k, !.live.private = k # Nothing /\ p, !.live.flawed = w,
     !.live.short = n, !.live.long = n,
     !.row = IF r = Nothing THEN Nothing ELSE [SomeRow EXCEPT !.key = r[1], !.generated = r[2]],
     !.opts.force = o = "force", !.opts.recovered = o = "recovered" /\ k # Nothing /\ p,
     !.opts.backs = o = "backs",
     !.opts.short = IF r = Nothing THEN nm ELSE Nothing,
     !.opts.long  = IF r = Nothing THEN nm ELSE Nothing] :
     k \in {Nothing, mine, odd, flt, new}, p \in BOOLEAN, w \in BOOLEAN, n \in {fa, nm},
     r \in {Nothing, <<Nothing, FALSE>>, <<mine, FALSE>>, <<mine, TRUE>>, <<new, TRUE>>, <<odd, FALSE>>},
     o \in {"none", "force", "recovered", "backs"}}
AdminSetups ==
  {[SomeSetup EXCEPT
     !.live.admins = on, !.live.managed = u, !.template.admins = want, !.template.managed = v,
     !.opts.allowWeak = w, !.opts.allowLockdown = x,
     !.row.admins = {r \in {r1, r4} : on[KeyOf[r]] > 0}] :
     on \in {f \in [AdminKeys -> 0..2] : f[q1] + f[q2] + f[q3] <= 3},
     want \in {<<>>, <<r1>>, <<r1, r2>>, <<r3>>, <<r1, r3>>, <<r4, r2>>, <<r4>>, <<r1, r2, r3, r4>>},
     u \in BOOLEAN, w \in BOOLEAN,
     <<v, x>> \in {<<FALSE, FALSE>>, <<TRUE, FALSE>>, <<TRUE, TRUE>>}}
FieldSetups ==
  {[SomeSetup EXCEPT
     !.template.fields = f, !.template.options = o, !.template.silent = s, !.template.channel = c,
     !.template.policy = p, !.live.hasPolicy = h, !.live.channel = d, !.live.modules[m1] = e[1],
     !.live.pin = e[2], !.live.adminChannel = h, !.row.pin = IF h THEN Nothing ELSE 1] :
     f \in {[region |-> 1], [region |-> 2, role |-> 1], [region |-> 2, role |-> 2]},
     o \in {<<>>, m1 :> TRUE @@ m2 :> TRUE, m1 :> FALSE @@ m3 :> TRUE},
     s \in {Nothing, TRUE}, c \in {Nothing, 1, 2}, p \in {Nothing, 2}, h \in BOOLEAN,
     d \in {Nothing, 1}, e \in {<<Nothing, 1>>, <<FALSE, 1>>, <<TRUE, 2>>, <<TRUE, 3>>}}
NameSetups ==
  {[SomeSetup EXCEPT
     !.live.short = a, !.live.long = b,
     !.opts.short = c, !.opts.long = IF c = Nothing THEN Nothing ELSE d,
     !.row = IF c # Nothing /\ e = <<nm, nm>> THEN Nothing
             ELSE [SomeRow EXCEPT !.short = e[1], !.long = e[2]]] :
     a \in {fa, nm, padded, longest}, b \in {fa, nm, padded, cut},
     c \in {Nothing, nm, longest}, d \in {nm, longest},
     e \in {Nothing, nm, cut} \X {Nothing, nm, longest, cut}}
SomeSetups == UNION {KeySetups, AdminSetups, FieldSetups, NameSetups}

-----------------------------------------------------------------------------
(* A read-back: characters are their lengths in bytes, a name three or     *)
(* less over its limit or more; values a float's loss apart, or another    *)
(* number or kind; keys said twice, in another order, or not at all.       *)
Value(kind, number) == [kind |-> kind, value |-> number]
SomeLimits == [short_name |-> 4, long_name |-> 6]
NoNames == [f \in {} |-> <<>>]
PlainPlan ==
  [names |-> NoNames, silent |-> NoValue, fields |-> <<>>, attempted |-> {}, readBack |-> TRUE,
   keypair |-> NoValue, keys |-> "keep", admins |-> NoValue,
   before |-> [names |-> NoNames, fields |-> <<>>, silent |-> FALSE, key |-> theirs,
               admins |-> <<a1>>]]

NamePlans ==
  {[PlainPlan EXCEPT
     !.names = [short_name |-> s, long_name |-> l], !.before.names = [short_name |-> b, long_name |-> c],
     !.silent = q, !.readBack = r] :
     s \in {<<1, 1>>, <<4>>, <<1, 4>>, <<2, 2, 1>>, <<3, 3>>, <<1, 1, 1, 1, 1>>},
     b \in {<<>>, <<1>>, <<4>>}, l \in {<<1>>, <<3, 4>>, <<3, 3>>, <<2, 1, 4>>, <<4, 4>>},
     c \in {<<>>, <<3>>}, q \in {NoValue, TRUE}, r \in BOOLEAN}
FieldPlans ==
  {[PlainPlan EXCEPT
     !.fields = <<"lora", "mask">> :> v @@ <<"security", "flag">> :> Value("bool", 1),
     !.before.fields = <<"lora", "mask">> :> u @@ <<"security", "flag">> :> t, !.attempted = a] :
     v \in {Value("int", 17), Value("float", 19), Value("bool", 1)},
     u \in {Value("int", 16), Value("int", 19), Value("float", 18), Value("float", 9),
            Value("int", 1), Value("none", 0)},
     t \in {Value("bool", 0), Value("int", 1)}, a \in SUBSET {"lora", "security"}}
KeyPlans ==
  {[PlainPlan EXCEPT
     !.keys = k, !.keypair = p, !.admins = d, !.attempted = a, !.before.admins = b] :
     k \in {"keep", "adopt", "regenerate"}, p \in {NoValue, ours},
     d \in {NoValue, <<>>, <<a1, a2>>, <<a1, a1, a2>>}, a \in {{}, {"security"}},
     b \in {<<>>, <<a1, a2, a2>>, <<a1>>}}
SomePlans == UNION {NamePlans, FieldPlans, KeyPlans}

-----------------------------------------------------------------------------
(* Two patterns over two letters, for three nodes, and names they would    *)
(* not give or would give in another case.                                 *)
SomeFolded ==
  "A" :> "a" @@ "a" :> "a" @@ "b" :> "b" @@ "B" :> "b" @@ "G" :> "g" @@ "g" :> "g" @@ "c" :> "c"
SomeSchemes ==
  {[short |-> <<"G", "n">>, long |-> <<"G", "n", "n">>, alphabet |-> <<"a", "b">>],
   [short |-> <<"n", "n">>, long |-> <<"n", "G">>, alphabet |-> <<"c", "a">>]}
SomeOthers ==
  {<<<<"g", "A">>, <<"a", "G">>>>, <<<<"c", "c">>, <<"G", "b", "b">>>>, <<<<>>, <<"G", "a", "A">>>>}

(* A fleet of the device and two others, whose key may be another's, weak  *)
(* or missing.                                                             *)
RowsOf(active, archived, key) == [active |-> active, archived |-> archived, key |-> key]
SomeRows ==
  {RowsOf({0, 1, 2}, {}, 0 :> pk3 @@ 1 :> pk1 @@ 2 :> k) : k \in {pk1, pk2, pk3, NoKey}}
    \cup {RowsOf({0, 2}, {1}, 0 :> NoKey @@ 1 :> k @@ 2 :> NoKey) : k \in {pk1, pk2}}

-----------------------------------------------------------------------------
(* Three serial ports, one of a probe and one of a known vendor, two BLE   *)
(* devices, and what may be typed for a host: bracketed or not, with a     *)
(* port, one that is too high or one that is none.                         *)
SomeSignal == 1 :> 1 @@ 2 :> 2
Six == <<"f", ":", ":", "1">>
SomeTexts ==
  {<<"name">>, <<"name", ":", "1">>, <<"name", ":", "9">>, <<"name", ":", "name">>, <<"1">>,
   <<"[", "name", "]">>, Six, Six \o <<":", "1">>, <<"[">> \o Six, <<"[">> \o Six \o <<"]">>,
   <<"[">> \o Six \o <<"]", ":", "1">>, <<"[">> \o Six \o <<"]", "1">>}
SomeAddresses == {Six, Six \o <<":", "1">>}
SomeNumbers == "1" :> 1 @@ "2" :> 2 @@ "9" :> 9
NoOpts ==
  [interface |-> Nobody, port |-> Nobody, address |-> Nobody, host |-> Nobody, scan |-> FALSE,
   interactive |-> FALSE]
SomeOptions ==
  {[NoOpts EXCEPT !.interface = i, !.scan = s, !.interactive = t] :
     i \in {Nobody, "serial", "ble", "tcp"}, s \in BOOLEAN, t \in BOOLEAN}
    \cup
  {[NoOpts EXCEPT !.interface = i, !.port = p, !.host = h, !.address = a] :
     i \in {Nobody, "serial", "ble", "tcp"}, p \in {Nobody, 2}, h \in {Nobody, Six, <<"1">>},
     a \in {Nobody, 1}}

-----------------------------------------------------------------------------
(* Keys of four bytes of two bits; nodes alone and in a fleet of three, two *)
(* with the same key, of a firmware before, among and after those that     *)
(* cloned; blocklists of a key each and one with a line that is none.      *)
Zeros  == <<0, 0, 0, 0>>
Fine   == <<0, 1, 3, 1>>
Leaked == <<3, 0, 1, 1>>
SomePoints   == {Zeros, <<1, 0, 0, 0>>, <<2, 3, 0, 1>>}
SomePublicOf == [raw \in RawKeys |-> <<raw[2], raw[1], raw[4], (raw[3] + 1) % 4>>]
Unaudited ==
  [public |-> Fine, private |-> Absent, firmware |-> Absent, ref |-> "a", fleet |-> <<>>]
SomeAudited ==
  {[Unaudited EXCEPT !.public = p[1], !.private = p[2]] :
     p \in {<<Fine, Absent>>, <<Fine, <<1, 0, 0, 3>>>>, <<Leaked, <<1, 0, 0, 3>>>>,
           <<<<2, 3, 0, 1>>, Absent>>, <<Absent, Zeros>>}}
    \cup
  {[Unaudited EXCEPT !.firmware = f, !.fleet = "a" :> Fine @@ "c" :> Leaked] : f \in 1..4}
    \cup
  {[Unaudited EXCEPT !.fleet = "a" :> Fine @@ "b" :> Fine @@ "c" :> Leaked],
   [Unaudited EXCEPT !.public = Absent, !.private = Leaked, !.firmware = Unparsed]}
SomePlaces  == <<"beside", "cwd">>
SomeEntries == {{Leaked}, {Fine}, {Leaked, <<0>>}}

-----------------------------------------------------------------------------
partVars ==
  <<vars, registryVars, outcomeVars, readVars, namesVars, peerVars, connectVars, auditVars>>

PartInit ==
  /\ part \in {"database", "registry", "plan", "readback", "names", "peers", "connect", "audit"}
  /\ Init /\ (part # "database" => ~file.present)
  /\ part # "peers"    => fleetRows = RowsOf({0, 2}, {1}, 0 :> NoKey @@ 1 :> pk1 @@ 2 :> NoKey)
  /\ part # "connect"  => attached = {} /\ inRange = {}
  /\ part # "audit"    => lists = [p \in {"beside", "cwd"} |-> Absent]
  /\ IF part = "plan" THEN PlanInit ELSE PlanStart(SomeSetup)
  /\ IF part = "readback" THEN ReadbackInit ELSE ReadbackStart(PlainPlan)
  /\ RegistryInit /\ NamesInit /\ PeersInit /\ ConnectInit /\ AuditInit

PartNext ==
  /\ part' = part
  /\ \/ /\ part = "database" /\ Next
        /\ UNCHANGED <<registryVars, outcomeVars, readVars, namesVars, peerVars, connectVars, auditVars>>
     \/ /\ part = "registry" /\ RegistryNext
        /\ UNCHANGED <<vars, outcomeVars, readVars, namesVars, peerVars, connectVars, auditVars>>
     \/ /\ part = "plan" /\ PlanNext
        /\ UNCHANGED <<vars, registryVars, readVars, namesVars, peerVars, connectVars, auditVars>>
     \/ /\ part = "readback" /\ ReadbackNext
        /\ UNCHANGED <<vars, registryVars, outcomeVars, namesVars, peerVars, connectVars, auditVars>>
     \/ /\ part = "names" /\ NamesNext
        /\ UNCHANGED <<vars, registryVars, outcomeVars, readVars, peerVars, connectVars, auditVars>>
     \/ /\ part = "peers" /\ PeersNext
        /\ UNCHANGED <<vars, registryVars, outcomeVars, readVars, namesVars, connectVars, auditVars>>
     \/ /\ part = "connect" /\ ConnectNext
        /\ UNCHANGED <<vars, registryVars, outcomeVars, readVars, namesVars, peerVars, auditVars>>
     \/ /\ part = "audit" /\ AuditNext
        /\ UNCHANGED <<vars, registryVars, outcomeVars, readVars, namesVars, peerVars, connectVars>>

PartSpec == PartInit /\ [][PartNext]_<<part, partVars>>
=============================================================================
