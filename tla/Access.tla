------------------------------- MODULE Access -------------------------------
(***************************************************************************)
(* Who may call what.  The replicas read their secrets from the            *)
(* environment as they boot; admins log in, the CPF function signs for     *)
(* clients, partners hold the webhook secret; guards decide, per route,    *)
(* what a request's credential is worth.  Composed with ClientAccess: its  *)
(* requests start only behind their guards.  A secret is a number, 0 where *)
(* the environment leaves it unset.                                        *)
(***************************************************************************)
EXTENDS ClientAccess

CONSTANTS
  Pods,        \* replicas
  MaxSecret    \* BOUND: values a secret takes over time

ASSUME SecretAssumption == MaxSecret \in Nat

VARIABLES
  env,       \* the secrets as the cluster has them now
  pod,       \* each replica: is it up, and the secrets it read when it booted
  lambda,    \* the JWT secret of the running container of the CPF function
  signed,    \* the secret each client's token was signed with
  adminKey,  \* the secret of the admin's token within its hour, 0 for no token
  partner    \* the webhook secret the external systems were given

avars == <<env, pod, lambda, signed, adminKey, partner>>

Secret == 0..MaxSecret

AccessInit ==
  /\ Init
  /\ env = [jwt |-> 0, webhook |-> 0]
  /\ pod = [p \in Pods |-> [up |-> FALSE, jwt |-> 0, webhook |-> 0]]
  /\ lambda = 0 /\ adminKey = 0 /\ partner = 0
  /\ signed = [c \in Clients |-> 0]

-----------------------------------------------------------------------------
(* Routes: the handlers of a controller, their guards, the roles asked for *)

Role == {"admin", "client"}
ISSUER_BY_ROLE == [admin |-> "soat-app", client |-> "soat-auth-lambda"]

Routes(class, guards, roles, handlers) ==
  {[class |-> class, handler |-> h, guards |-> guards, roles |-> roles] : h \in handlers}

ForAdmins(class, handlers) == Routes(class, {"JwtAuthGuard", "RolesGuard"}, {"admin"}, handlers)

AuthRoutes ==
  ForAdmins("auth", {"register"}) \union Routes("auth", {"RateLimitGuard"}, {}, {"login"})

ClientRoutes ==
  ForAdmins("clients", {"register", "findAll", "findById", "update", "changeStatus", "remove"})

VehicleRoutes ==
  ForAdmins("vehicles", {"register", "findAll", "findById", "findByClient", "update", "remove"})

ServiceRoutes == ForAdmins("services", {"register", "findAll", "findById", "update", "remove"})

PartRoutes == ForAdmins("parts", {"register", "findAll", "findById", "update", "stock", "remove"})

BudgetRoutes ==
  ForAdmins("budgets", {"create", "findById", "findByServiceOrder", "approve", "refuse", "remove"})

ServiceOrderRoutes ==
  ForAdmins("service-orders", {"create", "updateStatus", "getAverageExecutionTime",
    "getOperationalReport", "findAll", "findById", "update", "remove"})

MeRoutes == Routes("me", {"JwtAuthGuard", "RolesGuard"}, {"client"}, {"serviceOrders", "vehicles"})

WebhookRoutes ==
  Routes("webhooks/service-orders", {"WebhookAuthGuard"}, {}, {"updateStatus"})

BudgetWebhookRoutes ==
  Routes("webhooks/budgets", {"WebhookAuthGuard"}, {}, {"approve", "refuse"})

ConsultRoutes == Routes("consult", {"RateLimitGuard"}, {}, {"consultByClient"})

HealthRoutes == Routes("health", {}, {}, {"check"})

AllRoutes ==
  UNION {AuthRoutes, ClientRoutes, VehicleRoutes, ServiceRoutes, PartRoutes, BudgetRoutes,
         ServiceOrderRoutes, MeRoutes, WebhookRoutes, BudgetWebhookRoutes, ConsultRoutes,
         HealthRoutes}

-----------------------------------------------------------------------------
(* Credentials: what the Authorization header carries, and the token field *)
(* of the body.  `of' says whose it is; the guards do not see it.          *)

NoCredential ==
  [of |-> "anyone", bearer |-> "nothing", role |-> "none", iss |-> "none", key |-> 0,
   secret |-> 0, body |-> 0]

Jwt(of, role, iss, key) ==
  [NoCredential EXCEPT !.of = of, !.bearer = "jwt", !.role = role, !.iss = iss, !.key = key]

AdminToken == Jwt("admin", "admin", ISSUER_BY_ROLE["admin"], adminKey)
ClientToken(c) == Jwt("client", "client", ISSUER_BY_ROLE["client"], signed[c])

\* Issued before tokens had an issuer; signed where the secret is not configured.
OldAdminToken == Jwt("anyone", "admin", "none", adminKey)
UnsetToken == Jwt("anyone", "admin", ISSUER_BY_ROLE["admin"], 0)

InHeader == [NoCredential EXCEPT !.of = "partner", !.bearer = "secret", !.secret = partner]
InBody == [NoCredential EXCEPT !.of = "partner", !.body = partner]

Credentials ==
  {NoCredential, UnsetToken, InHeader, InBody}
    \union (IF adminKey # 0 THEN {AdminToken, OldAdminToken} ELSE {})
    \union {ClientToken(c) : c \in tokens}

\* JwtStrategy.validate, after the signature and the hour were checked.
Validate(cred) == cred.role \in Role /\ cred.iss = ISSUER_BY_ROLE[cred.role]

JwtAuthGuard(s, cred) == cred.bearer = "jwt" /\ cred.key = s.jwt /\ Validate(cred)

RolesGuard(r, cred) == r.roles = {} \/ cred.role \in r.roles

\* A Bearer header hides the body, whatever it carries.
WebhookAuthGuard(s, cred) ==
  /\ s.webhook # 0
  /\ cred.bearer # "jwt"
  /\ s.webhook = IF cred.bearer = "secret" THEN cred.secret ELSE cred.body

\* RateLimitGuard looks at no credential; its refusals are those of RateLimit.
Admits(s, r, cred) ==
  /\ "JwtAuthGuard" \in r.guards => JwtAuthGuard(s, cred)
  /\ "RolesGuard" \in r.guards => RolesGuard(r, cred)
  /\ "WebhookAuthGuard" \in r.guards => WebhookAuthGuard(s, cred)

Calls(class, handler, cred) ==
  \E p \in Pods, r \in AllRoutes :
    /\ pod[p].up /\ r.class = class /\ r.handler = handler
    /\ Admits(pod[p], r, cred)

-----------------------------------------------------------------------------
(* Secrets and replicas.                                                   *)

\* A secret is set, or rotated; nobody who runs is told.
Rotate(name) ==
  /\ env[name] < MaxSecret
  /\ env' = [env EXCEPT ![name] = @ + 1]
  /\ UNCHANGED <<vars, pod, lambda, signed, adminKey, partner>>

TellPartner ==
  /\ partner # env.webhook
  /\ partner' = env.webhook
  /\ UNCHANGED <<vars, env, pod, lambda, signed, adminKey>>

\* Fault: a default where the variable is missing.
ResolvesOrDefault(secret) == secret \in Secret

\* resolveJwtSecret throws, and the boot with it.
Resolves(secret) == secret # 0

Boot(p) ==
  /\ ~pod[p].up /\ Resolves(env.jwt)
  /\ pod' = [pod EXCEPT ![p] = [up |-> TRUE, jwt |-> env.jwt, webhook |-> env.webhook]]
  /\ UNCHANGED <<vars, env, lambda, signed, adminKey, partner>>

Stop(p) ==
  /\ pod[p].up
  /\ pod' = [pod EXCEPT ![p].up = FALSE]
  /\ UNCHANGED <<vars, env, lambda, signed, adminKey, partner>>

\* The next cold container of the CPF function.
ColdStart ==
  /\ lambda # env.jwt
  /\ lambda' = env.jwt
  /\ UNCHANGED <<vars, env, pod, signed, adminKey, partner>>

-----------------------------------------------------------------------------
(* Requests.                                                               *)

\* POST /auth/login with the right password: the replica signs with its secret.
Login(p) ==
  /\ pod[p].up
  /\ adminKey' = pod[p].jwt
  /\ UNCHANGED <<vars, env, pod, lambda, signed, partner>>

AdminTokenExpires ==
  /\ adminKey # 0
  /\ adminKey' = 0
  /\ UNCHANGED <<vars, env, pod, lambda, signed, partner>>

SignClient(c) ==
  /\ lambda # 0 /\ IssueToken(c)
  /\ signed' = [signed EXCEPT ![c] = lambda]
  /\ UNCHANGED <<env, pod, lambda, adminKey, partner>>

ClientTokenExpires(c) ==
  /\ TokenExpires(c)
  /\ signed' = [signed EXCEPT ![c] = 0]
  /\ UNCHANGED <<env, pod, lambda, adminKey, partner>>

Administrate(w, c) ==
  /\ \/ /\ Calls("clients", "register", AdminToken)
        /\ \E doc \in Documents, n \in Names : StartRegister(w, c, doc, n)
     \/ Calls("clients", "update", AdminToken) /\ \E n \in Names : StartUpdate(w, c, n)
     \/ /\ Calls("clients", "changeStatus", AdminToken)
        /\ \E s \in ClientStatus : StartChangeStatus(w, c, s)
     \/ Calls("clients", "remove", AdminToken) /\ Remove(c)
  /\ UNCHANGED avars

Consult(w, c) ==
  /\ Calls("consult", "consultByClient", NoCredential)
  /\ \E doc \in Documents : StartConsult(w, c, doc)
  /\ UNCHANGED avars

Me(w, c) ==
  /\ \E handler \in {"serviceOrders", "vehicles"} : Calls("me", handler, ClientToken(c))
  /\ StartMe(w, c)
  /\ UNCHANGED avars

\* What was admitted goes on; it has read its replica's secrets already.
Proceed(w) ==
  /\ Insert(w) \/ Select(w) \/ Update(w) \/ List(w) \/ Interrupt(w)
  /\ UNCHANGED avars

AccessNext ==
  \/ \E name \in {"jwt", "webhook"} : Rotate(name)
  \/ TellPartner \/ ColdStart \/ AdminTokenExpires
  \/ \E p \in Pods : Boot(p) \/ Stop(p) \/ Login(p)
  \/ \E w \in Workers : Proceed(w)
  \/ \E c \in Clients :
       \/ SignClient(c) \/ ClientTokenExpires(c)
       \/ \E w \in Workers : Administrate(w, c) \/ Consult(w, c) \/ Me(w, c)

AccessSpec == AccessInit /\ [][AccessNext]_<<vars, avars>>

-----------------------------------------------------------------------------
\* docs/api/acesso-por-papel.md, its table.
MayCall(party, r) ==
  CASE r.class \in {"health", "consult"} \/ r.handler = "login" -> TRUE
    [] r.class \in {"webhooks/service-orders", "webhooks/budgets"} -> party = "partner"
    [] r.class = "me" -> party = "client"
    [] OTHER -> party = "admin"

\* What a credential proves to a replica: nothing, if the secret it was made
\* with is not the one the replica booted with.
Party(s, cred) ==
  CASE cred.of \in {"admin", "client"} /\ cred.key = s.jwt -> cred.of
    [] cred.of = "partner" /\ s.webhook # 0 /\ partner = s.webhook -> "partner"
    [] OTHER -> "anyone"

\* The table of access by role, on every replica, however its secrets and those
\* of whoever issued the credential were set and rotated meanwhile: a handler is
\* reached by exactly those it is for.
AccessByRole ==
  \A p \in {q \in Pods : pod[q].up}, cred \in Credentials, r \in AllRoutes :
    Admits(pod[p], r, cred) <=> MayCall(Party(pod[p], cred), r)
=============================================================================
