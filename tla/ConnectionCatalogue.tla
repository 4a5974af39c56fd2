------------------------- MODULE ConnectionCatalogue -------------------------
(***************************************************************************)
(* The saved SSH hosts and network proxies (service/hosts, proxies,        *)
(* configuration), and the operations on a host that are bound to the      *)
(* connection they were approved for (service/ssh, host_shell, execution). *)
(* A request about the catalogue first reads what it depends on and writes *)
(* later: another one may write in between.  A connection is read row by   *)
(* row, so its rows need not have been the catalogue's at one moment.      *)
(*                                                                         *)
(* A row is its revision (updated_at, 0 when there is no row) and what the *)
(* properties need of it; names, addresses and credentials change with the *)
(* revision.  A host saved for the first time has a new id, which nothing  *)
(* refers to: the update of a host stands for it.                          *)
(***************************************************************************)
EXTENDS Naturals, Sequences, FiniteSets

CONSTANTS
  Hosts, NoHost,
  Target,       \* the host the operation is about
  Proxies, NoProxy,
  MaxJumps,     \* maxProxyJumpDepth
  FirstJump, FirstProxy, \* the references of the hosts at the start
  HostForms,    \* what operators save: a host, its jump, its proxy, whether Agents may use it
  Packages,     \* what they import: [hosts |-> a set of host forms, proxies |-> a set of proxy forms]
  MaxRevision,  \* bound: writes
  MaxRequests   \* bound: requests between their check and their write (one during the operation)

HostForm  == [host : Hosts, jump : Hosts \cup {NoHost}, proxy : Proxies \cup {NoProxy}, agent : BOOLEAN]
ProxyForm == [proxy : Proxies, ssh : BOOLEAN]

ASSUME CatalogueAssumption ==
  /\ NoHost \notin Hosts /\ NoProxy \notin Proxies /\ Target \in Hosts
  /\ FirstJump \in [Hosts -> Hosts \cup {NoHost}] /\ FirstProxy \in [Hosts -> Proxies \cup {NoProxy}]
  /\ HostForms \subseteq HostForm
  /\ \A package \in Packages : package.hosts \subseteq HostForm /\ package.proxies \subseteq ProxyForm
  /\ MaxJumps \in Nat /\ MaxRevision \in Nat \ {0} /\ MaxRequests \in Nat

VARIABLES
  hosts,     \* the rows of hosts
  proxies,   \* the rows of proxies
  clock,     \* the last updated_at
  requests,  \* requests that have checked and not written
  overtaken, \* (history) a host was saved or deleted although its check no longer held
  op,        \* the operation on Target
  whole      \* (history) its approved connection was, at one moment since, the catalogue's

catalogueVars == <<hosts, proxies, clock, requests, overtaken, op, whole>>

---------------------------------------------------------------------------
HostRow(form, rev) == [rev |-> rev, jump |-> form.jump, proxy |-> form.proxy, agent |-> form.agent, shell |-> <<>>]

HostThere(h)  == hosts[h].rev # 0
ProxyThere(p) == proxies[p].rev # 0
Usable(p)     == ProxyThere(p) /\ proxies[p].ssh  \* sshx.NormalizeProxyURL
Resolves(h) ==
  /\ hosts[h].jump # NoHost => HostThere(hosts[h].jump)
  /\ hosts[h].proxy # NoProxy => ProxyThere(hosts[h].proxy)

---------------------------------------------------------------------------
\* A connection, the target first: of each host its revision and its proxy's.
HopOf(h, rev, proxyRev) == [host |-> h, rev |-> rev, proxyRev |-> proxyRev]
Digest(conn) == [i \in DOMAIN conn |-> HopOf(conn[i].host, conn[i].rev, conn[i].proxyRev)]

\* Every row the digest names is the catalogue's now.
CurrentNow(digest) ==
  \A i \in DOMAIN digest :
    LET row == hosts[digest[i].host] IN
    /\ row.rev = digest[i].rev
    /\ row.proxy # NoProxy => proxies[row.proxy].rev = digest[i].proxyRev

NoOp == [at |-> "idle", agent |-> FALSE, script |-> FALSE, conn |-> <<>>, next |-> NoHost, shell |-> <<>>,
         digest |-> <<>>]
\* The connection to Target at the start, over which its shell may have been detected before.
FirstConnection ==
  LET hop(h) == HopOf(h, 1, IF FirstProxy[h] = NoProxy THEN 0 ELSE 1) IN
  IF FirstJump[Target] = NoHost THEN <<hop(Target)>> ELSE <<hop(Target), hop(FirstJump[Target])>>
Resolving == {"binding", "authorizing", "verifying"}

CatalogueInit ==
  /\ \E shell \in {<<>>, FirstConnection} :
       hosts = [h \in Hosts |-> [rev |-> 1, jump |-> FirstJump[h], proxy |-> FirstProxy[h], agent |-> TRUE,
                                 shell |-> IF h = Target THEN shell ELSE <<>>]]
  /\ proxies = [p \in Proxies |-> [rev |-> 1, ssh |-> TRUE]]
  /\ clock = 1 /\ requests = {} /\ overtaken = FALSE
  /\ op = NoOp /\ whole = FALSE

---------------------------------------------------------------------------
\* The catalogue.

Asked(request) ==
  /\ clock + Cardinality(requests) < MaxRevision /\ Cardinality(requests) < IF op.at = "idle" THEN MaxRequests ELSE 1
  /\ requests' = requests \cup {request}
  /\ UNCHANGED <<hosts, proxies, clock, overtaken, op, whole>>

WriteOf(request) == request \in requests /\ requests' = requests \ {request}

\* The history of the approved connection, after any change of the catalogue.
SeenWhole == whole' = (whole \/ (op.digest # <<>> /\ CurrentNow(op.digest)'))

\* SaveHost, up to UpsertHost: no look at the chain the jump begins.
AskToSave ==
  \E form \in HostForms :
    /\ HostThere(form.host)
    /\ form.proxy # NoProxy => Usable(form.proxy)
    /\ form.jump # NoHost => form.jump # form.host /\ HostThere(form.jump)
    /\ Asked([kind |-> "save", form |-> form])

\* UpsertHost inserts the row again when it was deleted in between.
SaveHost ==
  \E form \in HostForms :
    /\ WriteOf([kind |-> "save", form |-> form])
    /\ clock' = clock + 1
    /\ hosts' = [hosts EXCEPT ![form.host] = HostRow(form, clock + 1)]
    /\ UNCHANGED <<proxies, op>>
    /\ overtaken' = (overtaken \/ ~Resolves(form.host)')
    /\ SeenWhole

AskToDelete ==
  \E h \in Hosts :
    /\ HostThere(h) /\ \A user \in Hosts : HostThere(user) => hosts[user].jump # h
    /\ Asked([kind |-> "deleteHost", host |-> h])

DeleteHost ==
  \E h \in Hosts :
    /\ WriteOf([kind |-> "deleteHost", host |-> h])
    /\ hosts' = [hosts EXCEPT ![h].rev = 0, ![h].jump = NoHost, ![h].proxy = NoProxy, ![h].shell = <<>>]
    /\ overtaken' = (overtaken \/ \E user \in Hosts \ {h} : HostThere(user) /\ hosts[user].jump = h)
    /\ UNCHANGED <<proxies, clock, op>> /\ SeenWhole

\* SaveProxy does not look at the hosts that use the proxy.
SaveProxy ==
  \E p \in Proxies, ssh \in BOOLEAN :
    /\ ProxyThere(p) /\ clock + Cardinality(requests) < MaxRevision
    /\ clock' = clock + 1
    /\ proxies' = [proxies EXCEPT ![p] = [rev |-> clock + 1, ssh |-> ssh]]
    /\ UNCHANGED <<hosts, requests, overtaken, op>> /\ SeenWhole

UsesProxy(h, p) == HostThere(h) /\ hosts[h].proxy = p

AskToDeleteProxy ==
  \E p \in Proxies :
    /\ ProxyThere(p) /\ \A h \in Hosts : ~UsesProxy(h, p)
    /\ Asked([kind |-> "deleteProxy", proxy |-> p])

\* Mutant: the statement relies on the check.
CheckedBefore(p) == TRUE

\* The statement looks for references again.
Deletable(p) == \A h \in Hosts : ~UsesProxy(h, p)
DeleteProxy ==
  \E p \in Proxies :
    /\ WriteOf([kind |-> "deleteProxy", proxy |-> p])
    /\ proxies' = [proxies EXCEPT ![p].rev = IF Deletable(p) THEN 0 ELSE @]
    /\ UNCHANGED <<hosts, clock, overtaken, op>> /\ SeenWhole

---------------------------------------------------------------------------
\* The import of a configuration package.  An entry that bears a saved name takes its id.

ImportedHosts(package)   == {form.host : form \in package.hosts}
ImportedProxies(package) == {form.proxy : form \in package.proxies}
HostsWith(package, rev) ==
  [h \in Hosts |-> IF h \in ImportedHosts(package)
                     THEN HostRow(CHOOSE form \in package.hosts : form.host = h, rev) ELSE hosts[h]]
ProxiesWith(package, rev) ==
  [p \in Proxies |-> IF p \in ImportedProxies(package)
                       THEN [rev |-> rev, ssh |-> (CHOOSE form \in package.proxies : form.proxy = p).ssh]
                       ELSE proxies[p]]

\* remapConfigurationReference: to an imported or an existing row.
Remapped(package) ==
  \A form \in package.hosts :
    /\ form.jump # NoHost => form.jump # form.host /\ (form.jump \in ImportedHosts(package) \/ HostThere(form.jump))
    /\ form.proxy # NoProxy => form.proxy \in ImportedProxies(package) \/ ProxyThere(form.proxy)

\* The chain of jumps from h among the rows, as far as rows go.
Chain(table, h) ==
  LET chain[k \in 0..MaxJumps] ==
        IF k = 0 THEN h
        ELSE IF chain[k - 1] = NoHost THEN NoHost
        ELSE LET jump == table[chain[k - 1]].jump IN
             IF jump = NoHost THEN NoHost ELSE IF table[jump].rev = 0 THEN NoHost ELSE jump
  IN chain

\* validateConfigurationHostGraph finds no fault that an imported row is part of.
ValidGraph(package) ==
  LET table == HostsWith(package, 1)
      nets == ProxiesWith(package, 1)
      imported == ImportedHosts(package)
      Fault(h) ==
        LET chain == Chain(table, h)
            Reached(k)  == chain[k] # NoHost /\ \A i, j \in 0..k : i # j => chain[i] # chain[j]
            Affected(k) == \E i \in 0..k : chain[i] \in imported
        IN \E k \in 0..MaxJumps :
             /\ Reached(k)
             /\ LET row == table[chain[k]] IN
                \/ /\ row.proxy # NoProxy /\ (Affected(k) \/ row.proxy \in ImportedProxies(package))
                   /\ ~(nets[row.proxy].rev # 0 /\ nets[row.proxy].ssh)
                \/ /\ row.jump # NoHost /\ Affected(k)
                   /\ k = MaxJumps \/ table[row.jump].rev = 0 \/ \E i \in 0..k : chain[i] = row.jump
  IN ~\E h \in Hosts : table[h].rev # 0 /\ Fault(h)

\* The snapshot and the checks against it.
ReadPackage ==
  \E package \in Packages :
    /\ Remapped(package) /\ ValidGraph(package)
    /\ Asked([kind |-> "import", package |-> package])

\* ApplyConfiguration: one transaction, that looks for the imported rows' references again.
Applicable(package) ==
  LET table == HostsWith(package, 1)
      nets == ProxiesWith(package, 1)
  IN \A form \in package.hosts :
       /\ form.proxy # NoProxy => nets[form.proxy].rev # 0
       /\ form.jump # NoHost => table[form.jump].rev # 0

ApplyPackage ==
  \E package \in Packages :
    /\ WriteOf([kind |-> "import", package |-> package])
    /\ UNCHANGED <<overtaken, op>>
    /\ IF Applicable(package)
         THEN /\ clock' = clock + 1
              /\ hosts' = HostsWith(package, clock + 1)
              /\ proxies' = ProxiesWith(package, clock + 1)
              /\ SeenWhole
         ELSE UNCHANGED <<hosts, proxies, clock, whole>>

---------------------------------------------------------------------------
\* The operation.

Resolve(at) == [op EXCEPT !.at = at, !.conn = <<>>, !.next = Target, !.shell = <<>>]
Refuse == op' = [NoOp EXCEPT !.at = "over"] /\ whole' = FALSE

\* The Agent or an operator asks for a command or a script (which needs the target's shell).
Submit ==
  /\ op.at = "idle" /\ requests = {}
  /\ \E agent, script \in BOOLEAN : op' = [Resolve("binding") EXCEPT !.agent = agent, !.script = script]
  /\ UNCHANGED <<hosts, proxies, clock, requests, overtaken, whole>>

Hop(h) == [host |-> h, rev |-> hosts[h].rev, proxyRev |-> 0, proxy |-> hosts[h].proxy, agent |-> hosts[h].agent]
LastHop == op.conn[Len(op.conn)]
ProxyUnread == op.conn # <<>> /\ LastHop.proxy # NoProxy /\ LastHop.proxyRev = 0

\* resolveSSHConnection reads the next host.
ReadHost ==
  /\ op.at \in Resolving /\ op.next # NoHost /\ ~ProxyUnread
  /\ IF /\ HostThere(op.next) /\ Len(op.conn) <= MaxJumps
        /\ \A i \in DOMAIN op.conn : op.conn[i].host # op.next
       THEN /\ op' = [op EXCEPT !.conn = Append(@, Hop(op.next)), !.next = hosts[op.next].jump,
                                !.shell = IF op.conn = <<>> THEN hosts[op.next].shell ELSE @]
            /\ UNCHANGED whole
       ELSE Refuse
  /\ UNCHANGED <<hosts, proxies, clock, requests, overtaken>>

\* resolveSSHHostProxy reads the proxy of the host just read.
ReadProxy ==
  /\ op.at \in Resolving /\ ProxyUnread
  /\ IF Usable(LastHop.proxy)
       THEN op' = [op EXCEPT !.conn[Len(op.conn)].proxyRev = proxies[LastHop.proxy].rev] /\ UNCHANGED whole
       ELSE Refuse
  /\ UNCHANGED <<hosts, proxies, clock, requests, overtaken>>

Resolved == op.at \in Resolving /\ op.next = NoHost /\ ~ProxyUnread

\* requireAgentSSHAccess
AccessGiven == op.agent => \A i \in DOMAIN op.conn : op.conn[i].agent

\* submit binds the request to the connection; an Agent's may have to wait for a person.
Bind ==
  /\ Resolved /\ op.at = "binding"
  /\ IF AccessGiven
       THEN /\ \E at \in {"waiting"} \cup IF op.agent THEN {"asked"} ELSE {} :
                 op' = [op EXCEPT !.at = at, !.digest = Digest(op.conn), !.conn = <<>>, !.shell = <<>>]
            /\ whole' = CurrentNow(Digest(op.conn))
       ELSE Refuse
  /\ UNCHANGED <<hosts, proxies, clock, requests, overtaken>>

\* The approval is granted; its execution resolves the connection again.
Approve ==
  /\ op.at = "asked" /\ op' = Resolve("authorizing")
  /\ UNCHANGED <<hosts, proxies, clock, requests, overtaken, whole>>

\* authorizeApprovedAgentSSHExecution
Authorize ==
  /\ Resolved /\ op.at = "authorizing"
  /\ IF AccessGiven THEN op' = [op EXCEPT !.at = "waiting", !.conn = <<>>, !.shell = <<>>] /\ UNCHANGED whole
                    ELSE Refuse
  /\ UNCHANGED <<hosts, proxies, clock, requests, overtaken>>

\* runExecution, with its capacity: the connection is resolved once more.
StartRun ==
  /\ op.at = "waiting" /\ op' = Resolve("verifying")
  /\ UNCHANGED <<hosts, proxies, clock, requests, overtaken, whole>>

\* Mutant: only the target is compared.
SameTarget == Digest(op.conn)[1] = op.digest[1]

\* verifySSHRequestBinding; a stored shell counts when it was detected on this connection.
SameConnection == Digest(op.conn) = op.digest
StoredShell == IF op.shell = Digest(op.conn) THEN op.shell ELSE <<>>
Verify ==
  /\ Resolved /\ op.at = "verifying"
  /\ IF SameConnection
       THEN /\ op' = [op EXCEPT !.at = IF op.script /\ StoredShell = <<>> THEN "probing" ELSE "running",
                                !.shell = StoredShell]
            /\ UNCHANGED whole
       ELSE Refuse
  /\ UNCHANGED <<hosts, proxies, clock, requests, overtaken>>

\* detectAndStoreHostShell: a probe over the connection; what it finds is stored with the
\* digest, over whatever the row has become.
Probe ==
  /\ op.at = "probing"
  /\ \/ /\ HostThere(Target)
        /\ hosts' = [hosts EXCEPT ![Target].shell = op.digest]
        /\ op' = [op EXCEPT !.at = "running", !.shell = op.digest] /\ UNCHANGED whole
     \/ UNCHANGED hosts /\ Refuse
  /\ UNCHANGED <<proxies, clock, requests, overtaken>>

FinishRun == op.at = "running" /\ Refuse /\ UNCHANGED <<hosts, proxies, clock, requests, overtaken>>

CatalogueNext ==
  \/ AskToSave \/ SaveHost \/ AskToDelete \/ DeleteHost \/ SaveProxy \/ AskToDeleteProxy \/ DeleteProxy
  \/ ReadPackage \/ ApplyPackage
  \/ Submit \/ ReadHost \/ ReadProxy \/ Bind \/ Approve \/ Authorize \/ StartRun \/ Verify \/ Probe \/ FinishRun

CatalogueSpec == CatalogueInit /\ [][CatalogueNext]_catalogueVars

---------------------------------------------------------------------------
CatalogueTypes ==
  /\ \A h \in Hosts : /\ hosts[h].rev \in 0..clock /\ hosts[h].jump \in Hosts \cup {NoHost}
                      /\ hosts[h].proxy \in Proxies \cup {NoProxy} /\ hosts[h].agent \in BOOLEAN
  /\ \A p \in Proxies : proxies[p].rev \in 0..clock /\ proxies[p].ssh \in BOOLEAN
  /\ clock \in 1..MaxRevision
  /\ op.at \in {"idle", "over", "asked", "waiting", "probing", "running"} \cup Resolving
  /\ whole \in BOOLEAN /\ overtaken \in BOOLEAN

\* An operation only runs over the connection it was approved for, although the connection
\* is read row by row three times while the catalogue changes: its hosts and proxies are the
\* approved ones, they were the catalogue's all at one moment after the request was bound,
\* no host appears twice, there are at most MaxJumps jumps, an Agent has access to each host,
\* and a script is written for the shell that was found over this very connection.
ApprovedConnectionOnly ==
  op.at = "running" =>
    /\ Digest(op.conn) = op.digest /\ whole
    /\ Len(op.conn) <= MaxJumps + 1
    /\ \A i, j \in DOMAIN op.conn : i # j => op.conn[i].host # op.conn[j].host
    /\ AccessGiven
    /\ op.shell \in {<<>>, op.digest} /\ (op.script => op.shell = op.digest)

\* A host's jump and proxy are saved rows: nothing that is in use is deleted, and an import
\* leaves nothing dangling, however the requests interleave.  The exceptions are the two writes
\* that do not look again: a host that is saved after its jump or proxy was deleted, and a host
\* that is deleted after another one began to jump through it.
ReferencesResolve == ~overtaken => \A h \in Hosts : HostThere(h) => Resolves(h)
=============================================================================
