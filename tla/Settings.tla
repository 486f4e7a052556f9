------------------------------- MODULE Settings -------------------------------
(***************************************************************************)
(* What the owner sets on a saved search, from several places at once: the *)
(* edit form of the dashboard, which may have been open for long and is    *)
(* saved whole, and then route by route (web/server.py); the "Skip seller" *)
(* button under an alert, which adds one seller (botctl/telegram_bot.py);  *)
(* a clone on another country's site, and the switch of a destination      *)
(* (db/repo.py).  Every await lets the others in.                          *)
(***************************************************************************)
EXTENDS Naturals, FiniteSets

CONSTANTS
  Query, Destination, Login,
  Tab,        \* forms that are open
  MaxClones   \* bound

ASSUME SettingsAssumption == Query # {} /\ MaxClones \in Nat

VARIABLES
  saved,      \* rows of queries
  blocked,    \* blocked_sellers_json
  routes,     \* query_destinations
  active,     \* destinations with active = 1
  tab,        \* each form, and the request that saves it
  tap,        \* the handler of each seller's button: what get_query returned
  clone,      \* clone_query: where it is, and its locals
  crossed,    \* history: forms whose search somebody else wrote since its routes were read
  clones

settingsVars == <<saved, blocked, routes, active, tab, tap, clone, crossed, clones>>

TabAt == {"closed", "shown", "saved", "route", "done"}
TabRecord == [at : TabAt, query : Query, blocked : SUBSET Login, offered : SUBSET Destination,
              wanted : SUBSET Destination, drop : SUBSET Destination, add : SUBSET Destination]
Tap == [busy : BOOLEAN, query : Query, read : SUBSET Login]
Clone == [at : {"idle", "add", "read", "route"}, source : Query, target : Query,
          blocked : SUBSET Login, add : SUBSET Destination]

AnyQuery == CHOOSE q \in Query : TRUE
NoTab == [at |-> "closed", query |-> AnyQuery, blocked |-> {}, offered |-> {}, wanted |-> {},
          drop |-> {}, add |-> {}]
NoTap == [busy |-> FALSE, query |-> AnyQuery, read |-> {}]
NoClone == [at |-> "idle", source |-> AnyQuery, target |-> AnyQuery, blocked |-> {}, add |-> {}]

SettingsTypeOK ==
  /\ saved \subseteq Query
  /\ blocked \in [Query -> SUBSET Login]
  /\ routes \in [Query -> SUBSET Destination]
  /\ active \subseteq Destination
  /\ tab \in [Tab -> TabRecord]
  /\ tap \in [Login -> Tap]
  /\ clone \in Clone
  /\ crossed \subseteq Tab
  /\ clones \in 0 .. MaxClones

SettingsInit ==
  /\ saved = {AnyQuery}
  /\ blocked = [q \in Query |-> {}]
  /\ routes = [q \in Query |-> {}]
  /\ active = Destination
  /\ tab = [t \in Tab |-> NoTab]
  /\ tap = [l \in Login |-> NoTap]
  /\ clone = NoClone
  /\ crossed = {}
  /\ clones = 0

-----------------------------------------------------------------------------
(* The edit form. *)

\* Routed now, as destination_ids_for_query says it.
RoutedNow(q) == routes[q] \cap active

\* Every form of q but t, from the moment its request read the routes.
OthersOn(q, t) == {u \in Tab \ {t} : tab[u].query = q /\ tab[u].at \in {"route", "done"}}

OpenTab(t, q) ==
  /\ tab[t].at \in {"closed", "done"} /\ q \in saved
  /\ tab' = [tab EXCEPT ![t] = [NoTab EXCEPT !.at = "shown", !.query = q,
                                             !.blocked = blocked[q], !.offered = active]]
  /\ crossed' = crossed \ {t}
  /\ UNCHANGED <<saved, blocked, routes, active, tap, clone, clones>>

\* Save: update_query writes every field the form shows, whatever it was rendered from.  The
\* owner may have ticked anything.
SubmitTab(t) ==
  /\ tab[t].at = "shown"
  /\ \E wanted \in SUBSET tab[t].offered :
       tab' = [tab EXCEPT ![t].at = "saved", ![t].wanted = wanted]
  /\ blocked' = [blocked EXCEPT ![tab[t].query] = tab[t].blocked]
  /\ UNCHANGED <<saved, routes, active, tap, clone, crossed, clones>>

\* Mutant: only what is missing is changed.
KeepOthers(current, wanted) == {}

Unchecked(current, wanted) == current \ wanted

ReadRoutes(t) ==
  /\ tab[t].at = "saved"
  /\ LET current == RoutedNow(tab[t].query)
     IN  tab' = [tab EXCEPT ![t].at = "route",
                            ![t].drop = Unchecked(current, tab[t].wanted),
                            ![t].add = tab[t].wanted \ current]
  /\ UNCHANGED <<saved, blocked, routes, active, tap, clone, crossed, clones>>

\* unroute, one by one, and then route.
WriteRoute(t) ==
  LET q == tab[t].query
  IN  /\ tab[t].at = "route" /\ tab[t].drop \cup tab[t].add # {}
      /\ \/ \E d \in tab[t].drop :
              /\ routes' = [routes EXCEPT ![q] = @ \ {d}]
              /\ tab' = [tab EXCEPT ![t].drop = @ \ {d}]
         \/ /\ tab[t].drop = {}
            /\ \E d \in tab[t].add :
                 /\ routes' = [routes EXCEPT ![q] = @ \cup {d}]
                 /\ tab' = [tab EXCEPT ![t].add = @ \ {d}]
      /\ crossed' = crossed \cup OthersOn(q, t)
      /\ UNCHANGED <<saved, blocked, active, tap, clone, clones>>

CloseTab(t) ==
  /\ tab[t].at = "route" /\ tab[t].drop = {} /\ tab[t].add = {}
  /\ tab' = [tab EXCEPT ![t].at = "done"]
  /\ UNCHANGED <<saved, blocked, routes, active, tap, clone, crossed, clones>>

\* A destination is switched off, by the owner or because it refused for good, or on.
SwitchDestination(d) ==
  /\ active' = IF d \in active THEN active \ {d} ELSE active \cup {d}
  /\ crossed' = {t \in Tab : tab[t].at # "closed"}
  /\ UNCHANGED <<saved, blocked, routes, tab, tap, clone, clones>>

-----------------------------------------------------------------------------
(* The button, and the clone. *)

\* handle_block_seller: block_seller reads the list.
PressSkip(l, q) ==
  /\ ~tap[l].busy /\ q \in saved /\ l \notin blocked[q]
  /\ tap' = [tap EXCEPT ![l] = [busy |-> TRUE, query |-> q, read |-> blocked[q]]]
  /\ UNCHANGED <<saved, blocked, routes, active, tab, clone, crossed, clones>>

\* It writes the list back with one more, and the bot says so.
BlockSeller(l) ==
  LET q == tap[l].query
  IN  /\ tap[l].busy
      /\ blocked' = [blocked EXCEPT ![q] = tap[l].read \cup {l}]
      /\ tap' = [tap EXCEPT ![l] = NoTap]
      /\ UNCHANGED <<saved, routes, active, tab, clone, crossed, clones>>

StartClone(q, target) ==
  /\ clone.at = "idle" /\ clones < MaxClones /\ q \in saved /\ target \notin saved
  /\ clone' = [at |-> "add", source |-> q, target |-> target, blocked |-> blocked[q], add |-> {}]
  /\ clones' = clones + 1
  /\ UNCHANGED <<saved, blocked, routes, active, tab, tap, crossed>>

AddClone ==
  /\ clone.at = "add"
  /\ saved' = saved \cup {clone.target}
  /\ blocked' = [blocked EXCEPT ![clone.target] = clone.blocked]
  /\ clone' = [clone EXCEPT !.at = "read"]
  /\ UNCHANGED <<routes, active, tab, tap, crossed, clones>>

ReadSourceRoutes ==
  /\ clone.at = "read"
  /\ clone' = [clone EXCEPT !.at = "route", !.add = RoutedNow(clone.source)]
  /\ UNCHANGED <<saved, blocked, routes, active, tab, tap, crossed, clones>>

RouteClone ==
  /\ clone.at = "route"
  /\ \/ /\ clone.add = {}
        /\ clone' = NoClone
        /\ UNCHANGED <<routes, crossed>>
     \/ \E d \in clone.add :
          /\ routes' = [routes EXCEPT ![clone.target] = @ \cup {d}]
          /\ clone' = [clone EXCEPT !.add = @ \ {d}]
          /\ crossed' = crossed \cup {t \in Tab : tab[t].query = clone.target}
  /\ UNCHANGED <<saved, blocked, active, tab, tap, clones>>

SettingsNext ==
  \/ \E t \in Tab : \/ \E q \in Query : OpenTab(t, q)
                    \/ SubmitTab(t) \/ ReadRoutes(t) \/ WriteRoute(t) \/ CloseTab(t)
  \/ \E d \in Destination : SwitchDestination(d)
  \/ \E l \in Login : BlockSeller(l) \/ \E q \in Query : PressSkip(l, q)
  \/ \E q, target \in Query : StartClone(q, target)
  \/ AddClone \/ ReadSourceRoutes \/ RouteClone

SettingsSpec == SettingsInit /\ [][SettingsNext]_settingsVars

-----------------------------------------------------------------------------
(* Properties. *)

\* A save is also a routing change, "unchecked means stop sending there": once it is through,
\* the search feeds exactly what was ticked, unless another request wrote its routes, or a
\* destination was switched, since the save read them (edit_search).
SaveSettles ==
  \A t \in Tab :
    tab[t].at = "done" /\ t \notin crossed => RoutedNow(tab[t].query) = tab[t].wanted
=============================================================================
