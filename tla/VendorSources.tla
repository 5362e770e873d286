----------------------------- MODULE VendorSources -----------------------------
(* Sources with extractors of their own: the plans of the vendor extractors, the
   extraction that a plan drives, and the cards of agents.

   The sections share no state: each has its own Init, Next and Spec. *)
EXTENDS Integers, Sequences, FiniteSets

--------------------------------------------------------------------------------
(* What each vendor extractor reads, in the order of its calls: a plan is a sequence
   of tables, and a table says what becomes of its rows.  Field names and properties
   are left out; a reference that a row has stands for the one that the code follows,
   whatever field it comes from and whatever role of the row permits it. *)

CONSTANT None

\* A reference to an entity of the kind `to`.  makes: the entity is added with it;
\* mine: it is the row's own; back: the relationship comes from there.
To(to) == [to |-> to, makes |-> FALSE, mine |-> FALSE, back |-> FALSE]

\* once: of rows with one id, "no": each is an entity, "entity": the first is,
\* and the others only give their relationships, "row": the others are skipped.
\* within: the table whose rows it is read for, by a call each unless it is inline;
\* scoped: ids are told apart by that row; joined: the relationship with it, to it or
\* from it, as an entity of the kind over.
Table(name, kind, refs) ==
    [name |-> name, kind |-> kind, refs |-> refs, once |-> "no", within |-> None,
     inline |-> FALSE, scoped |-> FALSE, joined |-> None, over |-> None,
     default |-> FALSE, edges |-> FALSE]
Inside(table, parent, over, joined) ==
    [table EXCEPT !.within = parent, !.over = over, !.joined = joined, !.scoped = TRUE]
Plain(name) == Table(name, name, {})

\* An extractor whose list calls may fail one by one, and one that they end.
Tolerant(tables) == [raises |-> FALSE, tables |-> tables]
Raising(tables) == [raises |-> TRUE, tables |-> tables]

--------------------------------------------------------------------------------

Ansible == Tolerant(<<Plain("ansible_host")>>)
UptimeKuma == Tolerant(<<Plain("uptime_monitor")>>)
HomeAssistant == Tolerant(<<Plain("ha")>>)
Microsoft == Tolerant(<<Plain("msevent"), Plain("msuser")>>)
Lgtm == Tolerant(<<Plain("lgtm_dash"), Plain("lgtm_alert"), Plain("lgtm_ds")>>)
Kafka == Tolerant(<<Plain("kafka_topic"), Plain("kafka_group")>>)
Keycloak == Tolerant(<<Plain("kc_user"), Plain("kc_group"), Plain("kc_client")>>)

\* Relationships are rows of their own, between any two elements.
Archimate ==
    Tolerant(<<Plain("archi"),
        [Table("archi_relations", None, {[To("archi") EXCEPT !.back = TRUE], To("archi")})
            EXCEPT !.edges = TRUE]>>)

\* One call has the whole configuration; a route goes by its server and its first host.
Caddy ==
    Tolerant(<<Table("servers", None, {}),
        [Inside(Plain("caddy_route"), "servers", None, None) EXCEPT !.inline = TRUE]>>)

Camunda ==
    Tolerant(<<Table("bpmn_process", "bpmn_process", {To("egeria_process")}),
               Table("bpmn_task", "bpmn_task", {To("bpmn_process")}),
               Table("incident", "incident", {To("bpmn_process")})>>)

\* A model follows its Camunda key, or else its Egeria GUID.
Aris ==
    Tolerant(<<Table("aris_model", "aris_model", {To("bpmn_process"), To("egeria_process")})>>)

Archer ==
    Tolerant(<<Plain("archer_risk"),
               Table("archer_control", "archer_control", {To("archer_risk")}),
               Table("archer_finding", "archer_finding", {To("archer_control")})>>)

Salesforce ==
    Tolerant(<<Plain("sfaccount"),
               Table("sfcontact", "sfcontact", {To("sfaccount")}),
               Table("sfopp", "sfopp", {To("sfaccount")})>>)

OfCompany(name) == Table(name, name, {To("twcompany")})
Twenty == Tolerant(<<Plain("twcompany"), OfCompany("twperson"), OfCompany("twopp")>>)

Odoo ==
    Tolerant(<<Plain("odoo_customer"), Table("odoo_lead", "odoo_lead", {To("odoo_customer")})>>)

\* The meal plans are asked for before the recipes they include.
Mealie ==
    Tolerant(<<Table("mealplan", "mealplan", {To("recipe")}),
               Plain("recipe"), Plain("shoplist")>>)

Wger ==
    Tolerant(<<Table("session", "session", {To("routine")}),
               Plain("weight"), Plain("meas"), Plain("nutplan")>>)

Technitium ==
    Tolerant(<<Plain("dnszone"), Inside(Plain("dnsrecord"), "dnszone", "dnszone", "from")>>)

Portainer ==
    Tolerant(<<Plain("portainer_endpoint"),
        Inside(Plain("portainer_container"), "portainer_endpoint", "portainer_endpoint", "to"),
        Plain("portainer_stack")>>)

\* Group members are relationships only; the users are asked for after them.
Okta ==
    Tolerant(<<Plain("okta_group"),
        [Inside(Table("members", None, {}), "okta_group", "okta_group", "to")
            EXCEPT !.over = "okta_group"],
        Plain("okta_user"), Plain("okta_app")>>)

\* Calendars and address books are no entities, and ids are told apart by none.
Nextcloud ==
    LET In(name, parent) == [Inside(Plain(name), parent, None, None)
                                EXCEPT !.scoped = FALSE, !.once = "row"]
    IN  Tolerant(<<Table("calendars", None, {}), In("event", "calendars"),
                   Table("books", None, {}), In("contact", "books")>>)

\* An employee's department becomes an entity with it.
ErpnextSales ==
    <<Table("employee", "employee", {[To("orgunit") EXCEPT !.makes = TRUE]}),
      Plain("customer"), Table("order", "order", {To("customer")}), Plain("item")>>
ErpnextAssets == <<Table("asset", "asset", {To("item"), To("warehouse")})>>
ErpnextIssues == <<Table("erpnextissue", "erpnextissue", {To("customer")})>>
Erpnext ==
    Tolerant(ErpnextSales \o ErpnextAssets \o <<Plain("warehouse")>> \o ErpnextIssues)

\* A rated item has a risk of its own.
Risk == [To("snrisk") EXCEPT !.makes = TRUE, !.mine = TRUE]
Servicenow ==
    LET Itsm(name) == Table(name, name, {To("ci"), To("person")})
    IN  Raising(<<Itsm("incident"), Itsm("change"),
                  Table("ci", "ci", {Risk, To("snproduct")}),
                  Table("snproduct", "snproduct", {Risk}),
                  Table("asset", "asset", {Risk, To("snproduct")})>>)

EgeriaAssets ==
    <<Table("egeria_asset", "egeria_asset",
            {To("egeria_server"), To("egeria_asset"), To("egeria_policy")})>>
EgeriaSimple ==
    <<Table("egeria_category", "egeria_category", {To("egeria_category")}),
      Table("egeria_term", "egeria_term", {To("egeria_category")}),
      Plain("egeria_policy"), Plain("egeria_server"),
      Table("egeria_connection", "egeria_connection", {To("egeria_asset")})>>
\* A flow goes through a process, or is an edge, which adds the assets at its ends.
EgeriaFlows ==
    LET End == [To("egeria_asset") EXCEPT !.makes = TRUE]
    IN  <<[Table("flows", "egeria_process", {[End EXCEPT !.back = TRUE], End})
              EXCEPT !.edges = TRUE]>>
Egeria ==
    LET tables == EgeriaAssets \o EgeriaSimple \o EgeriaFlows
    IN  Tolerant([n \in DOMAIN tables |-> [tables[n] EXCEPT !.once = "entity"]])

\* Fact sheets of the four types; a relation names the type of its target.
Sheets(name) ==
    [Table(name, name, {To("capability"), To("itcomponent")}) EXCEPT !.once = "entity"]
Leanix ==
    Raising(<<Sheets("app"), Sheets("itcomponent"), Sheets("capability"), Sheets("dataobject")>>)

\* The service that a label or a title names.
Monitored == {To("service")}
Grafana ==
    Raising(<<Plain("datasource"), Plain("dashboard"),
        [Inside(Table("panel", "panel", Monitored), "dashboard", "dashboard", "to")
            EXCEPT !.inline = TRUE],
        Table("alert", "alert", Monitored)>>)

Crosswalk == {To("egeria_policy"), To("bpmn_process")}
CisoAssistant ==
    LET Kind(name, refs) == [Table(name, name, refs \cup Crosswalk) EXCEPT !.once = "row"]
        Simple(name) == Kind(name, {})
    IN  Tolerant(<<Simple("policy"), Simple("control"), Simple("refcontrol"), Simple("threat"),
                   Simple("risk_assessment"), Simple("framework"), Simple("ciso_asset"),
                   Simple("ciso_incident"), Simple("exception"), Simple("finding"),
                   Simple("entity"), Simple("perimeter"),
                   Kind("risk", {To("control"), To("risk_assessment")}),
                   Kind("compliance_assessment", {To("framework")})>>)

\* The hosts of the inventory and the services, both given with the configuration.
InfraHosts == Plain("server")
Infra ==
    Raising(<<InfraHosts, [Table("service", "service", {To("server")}) EXCEPT !.inline = TRUE]>>)

\* One record, and the hashtags, handles and tools found in it.
Social ==
    LET Found(name) == [Plain(name) EXCEPT !.inline = TRUE, !.once = "row",
                           !.joined = "from", !.over = "document"]
    IN  Tolerant(<<Table("document", None, {}), Found("hashtag"), Found("mention"), Found("tool")>>)

\* Agent cards, each a call of its own, and the skills that a card lists.
A2aCards == Plain("a2a")
A2a ==
    Tolerant(<<A2aCards,
        [Inside(Plain("skill"), "a2a", "a2a", "from") EXCEPT !.inline = TRUE]>>)

\* Positions go by the exchange of the account, or by the default when it is unknown.
Emerald ==
    Tolerant(<<Plain("account"),
        [Inside(Plain("pos"), "account", "portfolio", "to") EXCEPT !.default = TRUE]>>)

Vendors ==
    {Ansible, UptimeKuma, HomeAssistant, Microsoft, Lgtm, Kafka, Keycloak, Archimate, Caddy,
     Camunda, Aris, Archer, Salesforce, Twenty, Odoo, Mealie, Wger, Technitium, Portainer,
     Okta, Nextcloud, Erpnext, Servicenow, Egeria, Leanix, Grafana, CisoAssistant, Infra,
     Social, A2a, Emerald}

--------------------------------------------------------------------------------
(* A vendor extractor at work: it reads the tables of its plan one call after the
   other while the vendor's records change, goes on after a call that fails unless its
   plan says otherwise, and returns one change set. *)

CONSTANTS
    Ids,          \* ids of records that others are read for; those of the rest, and
                  \* what references are to, is 1
    MaxRows,      \* no record comes when the vendor has as many
    MaxEvents     \* calls that fail, and records that come or go during an extraction

VARIABLES
    plan,      \* of the extractor that runs
    at,        \* the table it reads next; 0 before the start
    parents,   \* rows it still has to read that table for
    source,    \* the vendor's records now
    page,      \* the records as of the last call
    entities,  \* of the change set: keys and the rows they are of
    links,     \* of the change set: relationships between keys
    result,    \* None until it ended, then "set", "empty" or "raised"
    always,    \* records that were there all the time
    ever,      \* records that were there at some time
    failed,    \* tables of which a call failed, with the row it was for
    events

vendorVars == <<plan, at, parents, source, page, entities, links, result, always, ever, failed,
                events>>

\* A record has one reference at most, or is an edge, which may have both of its ends.
Rows(p) ==
    UNION {LET t == p.tables[n]
               whose == IF t.within = None THEN {0} ELSE Ids
               ids == IF \E m \in DOMAIN p.tables : p.tables[m].within = t.name
                      THEN Ids ELSE {1}
               refs == {r \in SUBSET t.refs : t.edges \/ Cardinality(r) <= 1}
           IN  [table : {t.name}, id : ids, of : whose, refs : refs]
                 \cup [table : {t.name}, id : {None}, of : whose,
                       refs : IF t.edges THEN refs ELSE {{}}]
           : n \in DOMAIN p.tables}

VendorTypeOK ==
    /\ at \in 0..Len(plan.tables) + 1
    /\ \A row \in source \cup page : row.id \in Ids \cup {None} /\ row.of \in Ids \cup {0}
    /\ result \in {None, "set", "empty", "raised"}

VendorInit ==
    /\ plan \in Vendors
    /\ source \in {{}} \cup {{a, b} : a, b \in Rows(plan)}
                  \cup {{a} \cup {b \in Rows(plan) : b.id \in Ids /\ b.refs = {} /\ b.of = 0
                               /\ \E n \in DOMAIN plan.tables : plan.tables[n].within = b.table}
                          : a \in Rows(plan)}
    /\ at = 0 /\ parents = <<>> /\ page = {} /\ entities = {} /\ links = {} /\ result = None
    /\ always = source /\ ever = source /\ failed = {} /\ events = 0

--------------------------------------------------------------------------------

Running == at > 0 /\ result = None
Here == plan.tables[at]
Named(name) == CHOOSE n \in DOMAIN plan.tables : plan.tables[n].name = name

\* Fault: rows go by their own id, whatever they were read for.
Unscoped(t, row, owner) == <<t.kind, 0, row.id>>
Key(t, row, owner) == <<t.kind, IF t.scoped THEN owner ELSE 0, row.id>>

\* The entity that a reference of a row is to.
Target(t, row, ref) ==
    IF ref.mine THEN <<ref.to, t.kind, row.id>> ELSE <<ref.to, 0, 1>>

\* A row that is read for the row owner: its entity, those it adds, its relationships.
\* One without an id is skipped, unless it is an edge with both of its ends.
Edge(t, row) == t.edges /\ row.refs = t.refs /\ (row.id = None \/ t.kind = None)
Made(t, row, owner) ==
    (IF row.id # None /\ t.kind # None THEN {[key |-> Key(t, row, owner), row |-> row]} ELSE {})
      \cup {[key |-> Target(t, row, ref), row |-> None] :
                ref \in {r \in row.refs : r.makes
                         /\ (IF row.id = None THEN Edge(t, row) ELSE ~t.edges)}}
Joined(t, row, owner) ==
    IF Edge(t, row)
    THEN {<<Target(t, row, r), Target(t, row, s)>> : r \in {x \in row.refs : x.back},
                                                     s \in {x \in row.refs : ~x.back}}
    ELSE IF row.id = None \/ (t.kind = None /\ t.joined = None) THEN {}
    ELSE {IF ref.back THEN <<Target(t, row, ref), Key(t, row, owner)>>
          ELSE <<Key(t, row, owner), Target(t, row, ref)>> : ref \in row.refs}
      \cup (LET own == IF t.kind = None THEN <<"okta_user", 0, row.id>> ELSE Key(t, row, owner)
                over == <<t.over, 0, owner>>
            IN  CASE t.joined = "to" -> {<<own, over>>}
                  [] t.joined = "from" -> {<<over, own>>}
                  [] OTHER -> {})

\* Of rows with one key the first is kept, where the extractor remembers its keys.
\* Fault: keys are not remembered.
Forgets(new) == new
Firsts(new) ==
    {e \in new : /\ \A other \in entities : other.key # e.key
                 /\ e = CHOOSE f \in new : f.key = e.key}
Kept(t, rows, owner) ==
    IF t.once # "row" THEN rows
    ELSE {row \in rows : row.id # None /\ [key |-> Key(t, row, owner), row |-> row]
            \in Firsts(UNION {Made(t, r, owner) : r \in rows})}

\* Fault: a table is read for the first row only.
FirstOnly(n, rows) ==
    IF n < Len(plan.tables) /\ plan.tables[n + 1].within = plan.tables[n].name
    THEN <<n + 1, <<1>>>> ELSE <<n + 1, <<>>>>
\* What comes after a table has been read for all of its parents: the tables within
\* it, for each row that has an id.
Onward(n, rows) ==
    LET ids == {row.id : row \in rows} \ {None}
        queue == CHOOSE s \in [1..Cardinality(ids) -> ids] : {s[k] : k \in DOMAIN s} = ids
        nested == n < Len(plan.tables) /\ plan.tables[n + 1].within = plan.tables[n].name
    IN  IF ~nested THEN <<n + 1, <<>>>>
        ELSE IF ids # {} THEN <<n + 1, queue>>
        ELSE IF plan.tables[n + 1].default THEN <<n + 1, <<0>>>>
        ELSE <<n + 2, <<>>>>

\* extract: nothing without a client.
Start(client) ==
    /\ at = 0 /\ result = None
    /\ IF client THEN at' = 1 /\ UNCHANGED result ELSE result' = "empty" /\ UNCHANGED at
    /\ always' = source /\ ever' = source
    /\ UNCHANGED <<plan, parents, source, page, entities, links, failed, events>>

Owner == IF parents = <<>> THEN 0 ELSE parents[1]

\* One list call and what is made of its rows.
Read ==
    /\ Running /\ at <= Len(plan.tables)
    /\ page' = IF Here.inline THEN page ELSE source
    /\ LET t == Here
           rows == {row \in page' : row.table = t.name
                        /\ (t.within # None /\ ~t.default => row.of = Owner)}
           kept == Kept(t, rows, Owner)
           new == UNION {Made(t, row, Owner) : row \in kept}
           over == IF t.default THEN {[key |-> <<t.over, 0, Owner>>, row |-> None]} ELSE {}
           after == IF Len(parents) > 1 THEN <<at, Tail(parents)>> ELSE Onward(at, rows)
       IN  /\ entities' = entities \cup over \cup
                 (IF t.once = "no" THEN new ELSE Firsts(new))
           /\ links' = links \cup UNION {Joined(t, row, Owner) : row \in kept}
           /\ at' = after[1] /\ parents' = after[2]
    /\ UNCHANGED <<plan, source, result, always, ever, failed, events>>

\* A list call fails: its rows are none, or the extraction ends.
Fail ==
    /\ Running /\ at <= Len(plan.tables) /\ ~Here.inline /\ events < MaxEvents
    /\ events' = events + 1
    /\ failed' = failed \cup {<<Here.name, Owner>>}
    /\ page' = {}
    /\ IF plan.raises THEN result' = "raised" /\ UNCHANGED <<at, parents, entities>>
       ELSE LET after == IF Len(parents) > 1 THEN <<at, Tail(parents)>> ELSE Onward(at, {})
            IN  /\ at' = after[1] /\ parents' = after[2] /\ UNCHANGED result
                /\ entities' = IF Here.default
                     THEN entities \cup {[key |-> <<Here.over, 0, Owner>>, row |-> None]}
                     ELSE entities
    /\ UNCHANGED <<plan, source, links, always, ever>>

Return ==
    /\ Running /\ at > Len(plan.tables)
    /\ result' = "set"
    /\ UNCHANGED <<plan, at, parents, source, page, entities, links, always, ever, failed,
                   events>>

Add(row) ==
    /\ Running /\ events < MaxEvents /\ events' = events + 1
    /\ row \notin source
    /\ source' = source \cup {row} /\ ever' = ever \cup {row}
    /\ UNCHANGED <<plan, at, parents, page, entities, links, result, always, failed>>

Remove(row) ==
    /\ Running /\ events < MaxEvents /\ events' = events + 1
    /\ source' = source \ {row} /\ always' = always \ {row}
    /\ UNCHANGED <<plan, at, parents, page, entities, links, result, ever, failed>>

VendorNext ==
    \/ \E client \in BOOLEAN : Start(client)
    \/ Read \/ Fail \/ Return
    \/ Cardinality(source) < MaxRows /\ \E row \in Rows(plan) : Add(row)
    \/ \E row \in source : Remove(row)

VendorSpec == VendorInit /\ [][VendorNext]_vendorVars

--------------------------------------------------------------------------------
(* Properties *)

TableOf(row) == plan.tables[Named(row.table)]

\* The calls that a row depends on: its own, for its parent, and its parent's.
Lost(row) ==
    LET t == TableOf(row)
        source1 == IF t.inline /\ t.within = None THEN plan.tables[1].name ELSE t.name
    IN  \E f \in failed : f[1] \in {row.table, source1, t.within}

\* Read for a parent that was there as long as the extraction.
Owned(row) ==
    LET t == TableOf(row)
    IN  t.within # None /\ ~t.default =>
            \E p \in always : p.table = t.within /\ p.id = row.of

\* The entities of a change set are of records that the vendor had at some time of the
\* extraction, under the id of the row they were read for, one of each id where the
\* extractor sees to that; and every record that has an id, was there all the time and
\* whose calls did not fail is among them.
EntitiesAreExact ==
    result = "set" =>
        /\ \A e \in entities : e.row # None =>
             /\ e.row \in ever /\ e.row.id = e.key[3]
             /\ TableOf(e.row).scoped /\ ~TableOf(e.row).default => e.key[2] = e.row.of
        /\ \A d, e \in entities : d.key = e.key /\ d.row # None /\ e.row # None =>
             /\ d.row.table = e.row.table
             /\ TableOf(e.row).once # "no" => d = e
        /\ \A row \in always :
             row.id # None /\ TableOf(row).kind # None /\ ~Lost(row) /\ Owned(row) =>
                 \E e \in entities :
                    /\ e.key[1] = TableOf(row).kind /\ e.key[3] = row.id
                    /\ TableOf(row).scoped /\ ~TableOf(row).default => e.key[2] = row.of

\* A relationship ends at an entity of the change set, unless its kind is another
\* vendor's, or the record it refers to was not there all the time, or could not be
\* read.  A failed call of an extractor that is not tolerant leaves no change set.
LinksAreExplained ==
    /\ result = "set" /\ plan.raises => failed = {}
    /\ result = "set" => \A link \in links : \A n \in {1, 2} :
         \/ \E e \in entities : e.key = link[n]
         \/ \A t \in {plan.tables[k] : k \in DOMAIN plan.tables} : t.kind # link[n][1]
         \/ ~\E row \in always : TableOf(row).kind = link[n][1] /\ row.id = link[n][3]
                /\ ~Lost(row) /\ Owned(row)

--------------------------------------------------------------------------------
(* discover_agent_card: agent cards are fetched with the etag of the card that is at
   hand, the caller's previous one or a cached one, and kept in a cache of the least
   recently used, which threads share.  Servers change their cards. *)

CONSTANTS
    Threads,
    Bases,        \* base URLs of agents
    CacheSize,    \* DEFAULT_AGENT_CARD_CACHE_ENTRIES
    MaxVersions,  \* cards a server has in turn
    MaxCalls

VARIABLES
    served,    \* by base, the version of the card it serves
    tagged,    \* the bases whose server sends etags
    cache,     \* _CACHE: cards, the least recently used first
    call,      \* each thread's call
    last,      \* by thread, the card it got before, which it may pass as previous
    calls

cardVars == <<served, tagged, cache, call, last, calls>>

Idle == [at |-> "idle", base |-> None, cached |-> None, since |-> 0, got |-> None]

CardTypeOK ==
    /\ Len(cache) <= CacheSize + 1
    /\ \A t \in Threads : call[t].at \in {"idle", "fetch", "remember", "done"}

CardInit ==
    /\ served = [b \in Bases |-> 1] /\ tagged \in SUBSET Bases
    /\ cache = <<>> /\ call = [t \in Threads |-> Idle]
    /\ last = [t \in Threads |-> None] /\ calls = 0

Without(base) == SelectSeq(cache, LAMBDA card : card.base # base)
Held(base) == {n \in DOMAIN cache : cache[n].base = base}
\* Fault: the previous card is taken for any agent.
AnyPrevious(t, base, given) == given /\ last[t] # None
OfBase(t, base, given) == given /\ last[t] # None /\ last[t].base = base

\* _cached: the previous card, or the cached one, which is now the most recent.
Begin(t, base, given) ==
    /\ call[t].at \in {"idle", "done"} /\ calls < MaxCalls /\ calls' = calls + 1
    /\ LET mine == OfBase(t, base, given)
           found == Held(base) # {}
           card == IF mine THEN last[t]
                   ELSE IF found THEN cache[CHOOSE n \in Held(base) : TRUE] ELSE None
       IN  /\ cache' = IF mine \/ ~found THEN cache ELSE Append(Without(base), card)
           /\ call' = [call EXCEPT ![t] = [Idle EXCEPT !.at = "fetch", !.base = base,
                                             !.cached = card, !.since = served[base]]]
    /\ UNCHANGED <<served, tagged, last>>

\* What the server answers: its card, "not modified" to the etag it would send, or
\* something that is no card: another status, another encoding, too large, too late.
Etag(t) == IF call[t].cached = None THEN None ELSE call[t].cached.etag
NotModified(t) == Etag(t) # None /\ Etag(t) = served[call[t].base]
Card(base) == [base |-> base, version |-> served[base],
               etag |-> IF base \in tagged THEN served[base] ELSE None]
Fetch(t) ==
    /\ call[t].at = "fetch"
    /\ LET card == IF NotModified(t) THEN call[t].cached ELSE Card(call[t].base)
       IN  call' = [call EXCEPT ![t].at = "remember", ![t].got = card]
    /\ UNCHANGED <<served, tagged, cache, last, calls>>
Refused(t) ==
    /\ call[t].at = "fetch"
    /\ call' = [call EXCEPT ![t].at = "done", ![t].got = None]
    /\ UNCHANGED <<served, tagged, cache, last, calls>>

\* _remember and _evict_oldest: under the lock.
Evict(entries) == IF Len(entries) > CacheSize THEN Tail(entries) ELSE entries
Remember(t) ==
    /\ call[t].at = "remember"
    /\ cache' = Evict(Append(Without(call[t].base), call[t].got))
    /\ call' = [call EXCEPT ![t].at = "done"]
    /\ last' = [last EXCEPT ![t] = call[t].got]
    /\ UNCHANGED <<served, tagged, calls>>

Publish(base) ==
    /\ served[base] < MaxVersions
    /\ served' = [served EXCEPT ![base] = @ + 1]
    /\ UNCHANGED <<tagged, cache, call, last, calls>>

CardNext ==
    \/ \E base \in Bases : Publish(base)
    \/ \E t \in Threads : \/ \E base \in Bases, given \in BOOLEAN : Begin(t, base, given)
                          \/ Fetch(t) \/ Refused(t) \/ Remember(t)

CardSpec == CardInit /\ [][CardNext]_cardVars

--------------------------------------------------------------------------------
(* Properties *)

\* A card that is returned is of the agent that was asked for, as its server had it at
\* some time of the call, however old the cached one is; the cache has one card of an
\* agent, no more than its size, and each under the agent it is of.
CardsAreCurrent ==
    /\ \A t \in Threads : call[t].at \in {"remember", "done"} /\ call[t].got # None =>
         /\ call[t].got.base = call[t].base
         /\ call[t].got.version \in call[t].since..served[call[t].base]
    /\ Len(cache) <= CacheSize
    /\ \A m, n \in DOMAIN cache : cache[m].base = cache[n].base => m = n
================================================================================
