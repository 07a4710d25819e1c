------------------------------- MODULE DbVerify -------------------------------
(***************************************************************************)
(* `mesh db verify` (db/verify.py): the cross-reference and key checks over *)
(* a database that loaded.  The Keys sheet is a function from the           *)
(* references it holds, <<owner, type>>, to key material; a private key is  *)
(* known by the public key it derives.  An owner is the id of a node, an id *)
(* in another letter case, a label of the operator or an observed owner.    *)
(* What loading reports, and what the audit of one key finds, come from     *)
(* elsewhere (Sheets and WeakKeys) and are inputs here.                     *)
(***************************************************************************)
EXTENDS Naturals, FiniteSets

CONSTANTS
    FleetIds,         \* the ids that nodes of the fleet may have
    CanonicalOf,      \* the owners spelled in another case, and the id each reads as
    AdminLabels,      \* the names an operator gives to admin keys
    ObservedOwners,   \* the owners minted for keys only seen on a device
    Materials,        \* key material
    Rating,           \* what the weak-key audit says of a <<type, material>>
    Databases,        \* the databases to verify
    NoTemplate, BrokenTemplate, NotVerified

ASSUME OwnersAreApart ==
    /\ DOMAIN CanonicalOf \cap (FleetIds \cup AdminLabels \cup ObservedOwners) = {}
    /\ \A o \in DOMAIN CanonicalOf : CanonicalOf[o] \in FleetIds

Owners == FleetIds \cup DOMAIN CanonicalOf \cup AdminLabels \cup ObservedOwners

\* Rows of the fleet and references of its owners, as many as a sheet has.
ASSUME DatabaseAssumption ==
    \A d \in Databases :
        /\ IsFiniteSet(DOMAIN d.nodes) /\ DOMAIN d.nodes \subseteq FleetIds
        /\ IsFiniteSet(DOMAIN d.keys) /\ DOMAIN d.keys \subseteq Owners \X {"pub", "priv"}
        /\ \A ref \in DOMAIN d.keys : d.keys[ref] \in Materials

VARIABLES
    sheets,   \* the database: nodes, keys, template, mode and load warnings
    report    \* the set of problems found, or NotVerified

verifyVars == <<sheets, report>>

Public(owner) == <<owner, "pub">>
Private(owner) == <<owner, "priv">>

IsCanonicalOwner(owner) == owner \in FleetIds

IsObservedRef(ref) == ref[1] \in ObservedOwners

Found(ref) == ref \in DOMAIN sheets.keys

\* NodeRepository.all, as the ids of its rows.
InNodesSheet == DOMAIN sheets.nodes

PublicRefs == {ref \in DOMAIN sheets.keys : ref[2] = "pub"}

Problem(kind, severity, of) == [kind |-> kind, severity |-> severity, of |-> of]

-----------------------------------------------------------------------------
TemplateUnavailable ==
    {Problem("template_unavailable", "warning", {}) :
        t \in {sheets.template} \cap {BrokenTemplate}}

OpenToOthers ==
    {Problem("insecure_permissions", "warning", {}) : m \in {sheets.mode} \ {"private"}}

LoadWarnings ==
    {Problem(IF w = "coerced" THEN "coerced_cell" ELSE "integrity_warning", "warning", {w}) :
        w \in sheets.warnings}

MissingRefs(id) == {ref \in sheets.nodes[id].authorized : ~Found(ref)}

UnresolvedAdminRefs ==
    {Problem("unresolved_admin_ref", "error", {id}) :
        id \in {i \in InNodesSheet : MissingRefs(i) # {}}}

TemplateRefs ==
    IF sheets.template \in {NoTemplate, BrokenTemplate} THEN {} ELSE sheets.template

UnresolvedTemplateRefs ==
    {Problem("unresolved_template_ref", "error", {owner}) :
        owner \in {o \in TemplateRefs : ~Found(Public(o))}}

WeakKeyProblems ==
    {Problem("weak_key", Rating[<<ref[2], sheets.keys[ref]>>], {ref}) :
        ref \in {r \in DOMAIN sheets.keys : Rating[<<r[2], sheets.keys[r]>>] # "none"}}

\* KeyRepository.has_private: a private key stands for its public one when it
\* derives it, and by itself when no public key is on file.
HasPrivate(owner) ==
    /\ Found(Private(owner))
    /\ Found(Public(owner)) => sheets.keys[Private(owner)] = sheets.keys[Public(owner)]

PrivateMismatch(owner) == Found(Private(owner)) /\ ~HasPrivate(owner)

MismatchedPairs ==
    {Problem("admin_key_mismatch", "critical", {ref}) :
        ref \in {r \in DOMAIN sheets.keys :
                    r[2] = "priv" /\ Found(Public(r[1])) /\ PrivateMismatch(r[1])}}

NonCanonicalOwners ==
    {Problem("non_canonical_node_owner", "error", {ref}) :
        ref \in {r \in DOMAIN sheets.keys :
                    r[1] \in DOMAIN CanonicalOf /\ CanonicalOf[r[1]] \in InNodesSheet}}

\* The references that share one public key, a group for every such key.
SharingGroups ==
    {g \in {{r \in PublicRefs : sheets.keys[r] = m} : m \in Materials} : Cardinality(g) > 1}

NodeOwners(group) == {owner \in {ref[1] : ref \in group} : IsCanonicalOwner(owner)}

\* As if an owner were a node only once the Nodes sheet has its row.
RecordedOwners(group) == {ref[1] : ref \in group} \cap InNodesSheet

DistinctNodes(group) == NodeOwners(group)

DuplicateKeys ==
    {IF Cardinality(DistinctNodes(g)) >= 2
     THEN Problem("duplicate_public_key", "critical", g)
     ELSE Problem("alias_public_key", "warning", g) : g \in SharingGroups}

AuthorizedOn(ref) == {id \in InNodesSheet : ref \in sheets.nodes[id].authorized}

SharedObservedRefs ==
    {Problem("unimported_admin_key", "warning", AuthorizedOn(ref)) :
        ref \in {r \in UNION {sheets.nodes[id].authorized : id \in InNodesSheet} :
                    IsObservedRef(r) /\ Cardinality(AuthorizedOn(r)) >= 2}}

\* The nodes that list a key as unregistered, with those that authorize a
\* reference to the same key; the first must not be empty.
ListedAs(m) == {id \in InNodesSheet : m \in sheets.nodes[id].unregistered}
AuthorizedAs(m) ==
    {id \in InNodesSheet : \E ref \in sheets.nodes[id].authorized \cap PublicRefs :
                            sheets.keys[ref] = m}

SharedUnregistered ==
    {Problem("unimported_admin_key", "warning", ListedAs(m) \cup AuthorizedAs(m)) :
        m \in {k \in Materials : /\ ListedAs(k) # {}
                                 /\ Cardinality(ListedAs(k) \cup AuthorizedAs(k)) >= 2}}

VerifyDatabase ==
    UNION {TemplateUnavailable, OpenToOthers, LoadWarnings, UnresolvedAdminRefs,
           UnresolvedTemplateRefs, WeakKeyProblems, MismatchedPairs, NonCanonicalOwners,
           DuplicateKeys, SharedObservedRefs, SharedUnregistered}

HasSeverity(severity) == \E p \in report : p.severity = severity

ExitCode(strict) ==
    IF HasSeverity("critical") THEN "CRYPTO"
    ELSE IF HasSeverity("error") \/ (strict /\ HasSeverity("warning")) THEN "DB"
    ELSE "OK"

-----------------------------------------------------------------------------
VerifyStart(database) == sheets = database /\ report = NotVerified
VerifyInit == \E database \in Databases : VerifyStart(database)

Verify ==
    /\ report = NotVerified
    /\ report' = VerifyDatabase
    /\ UNCHANGED sheets

VerifyNext == Verify

VerifySpec == VerifyInit /\ [][VerifyNext]_verifyVars

-----------------------------------------------------------------------------
(***************************************************************************)
(* What verify is for, in terms of the fleet and not of its checks.         *)
(***************************************************************************)

\* Two nodes with one identity: the same public key under two node ids, be
\* the nodes recorded or not.
TwoNodesOneKey ==
    \E a, b \in FleetIds : /\ a # b
                           /\ {Public(a), Public(b)} \subseteq DOMAIN sheets.keys
                           /\ sheets.keys[Public(a)] = sheets.keys[Public(b)]

\* provision's two refusals for a device of node `id` that holds `key`: the key
\* of another node, and, while the node has no key on file, a key filed under
\* any reference (pipeline.py, duplicate_candidate_keys; cli/provision.py).
ProvisionRefuses(id, key) ==
    LET held == {ref \in PublicRefs : sheets.keys[ref] = key}
    IN  \/ \E ref \in held : IsCanonicalOwner(ref[1]) /\ ref[1] # id
        \/ ~Found(Public(id)) /\ held # {}

SpelledAs(id) == {id} \cup {o \in DOMAIN CanonicalOf : CanonicalOf[o] = id}

\* No problem at all (--strict answers OK) means a fleet in order: every
\* reference resolves, every pair is a pair, every node has its own identity.
CleanMeansSound ==
    ExitCode(TRUE) = "OK" =>
        /\ \A id \in InNodesSheet : \A ref \in sheets.nodes[id].authorized : Found(ref)
        /\ sheets.template \notin {BrokenTemplate}
        /\ \A o \in TemplateRefs : Found(Public(o))
        /\ \A o \in {r[1] : r \in DOMAIN sheets.keys} :
              {Public(o), Private(o)} \subseteq DOMAIN sheets.keys
                  => sheets.keys[Public(o)] = sheets.keys[Private(o)]
        /\ \A r, q \in PublicRefs : sheets.keys[r] = sheets.keys[q] => r = q
        /\ \A m \in Materials : ListedAs(m) # {} => Cardinality(ListedAs(m) \cup AuthorizedAs(m)) = 1

\* A node whose own key is on file, in whatever letter case its id is written,
\* is not refused by provision unless verify has said so, also without --strict.
RefusalsAreForetold ==
    \A id \in InNodesSheet : \A o \in SpelledAs(id) :
        Found(Public(o)) /\ ProvisionRefuses(id, sheets.keys[Public(o)])
            => ExitCode(FALSE) # "OK"

\* Two nodes with one key raise the alarm, and a node's key filed under labels
\* as well (`admin bootstrap --ref`) does not: one problem for each shared key.
CloningIsTold ==
    /\ (\E p \in report : p.kind = "duplicate_public_key") <=> TwoNodesOneKey
    /\ TwoNodesOneKey => ExitCode(FALSE) = "CRYPTO"
    /\ Cardinality({p \in report : p.kind \in {"duplicate_public_key", "alias_public_key"}}) =
         Cardinality({m \in Materials :
             \E r, q \in PublicRefs : r # q /\ sheets.keys[r] = m /\ sheets.keys[q] = m})

\* A verification answers for the fleet (verify.py): nothing is clean that a
\* later command trips over, and an alias is no clone.
VerifyIsRight ==
    report # NotVerified => CleanMeansSound /\ RefusalsAreForetold /\ CloningIsTold
=============================================================================
