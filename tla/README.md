# Verification of the library API

The repository is a REST API in Go for a public library, over PostgreSQL and without an ORM.  Its handlers
call services, services call repositories, and repositories send SQL; part of the logic (borrowing, stock
checks, the daily jobs, the cascade of deletions) lives in the database as procedures, triggers and `pg_cron`
jobs.  This directory holds TLA+ models of its core, TLC configurations that check them on small instances,
and TLAPS proofs that hold for every instance.

The program has no locks of its own around the data.  What it gets right or wrong at run time, it does
through what PostgreSQL guarantees under READ COMMITTED: a statement reads the rows committed when it starts,
a row that another transaction has locked is waited for and read again, and constraints are checked
when rows are written.  So the unit of the models is **one SQL statement**.

## 1. Inventory

| Component | State | Operations | What is hard |
|---|---|---|---|
| Lending: `emprunt_service.go`, `emprunt_repository.go`, `07_procedures.sql` | rows of `emprunts`, `livres.exemplaires_disponibles` | `POST /emprunts` (the procedure `pr_emprunter_livre`), `POST /emprunts/{id}/retour` (`Rendre` inside `EnTransaction`) | calls that interleave between statements; deadlines; lock cycles |
| Schema: `03_tables.sql`, `08_triggers.sql`, `05_fonctions.sql` | CHECK constraints, foreign keys, triggers | run inside the writes of the others | a legitimate write refused; a cascade stopped half-way |
| `pg_cron` jobs: `09_cron.sql` | rows of `emprunts`, `emprunts_archive`, tokens, statistics | flag late loans, archive, purge | a snapshot that is stale when its rows are locked |
| Catalogue: `livre_service.go`, `livre_repository.go` | rows of `livres` | create, PUT/PATCH, mask, delete | PUT/PATCH read, compute and write in three statements |
| Accounts: `utilisateur_service.go`, `utilisateur_repository.go` | rows of `utilisateurs` | create, profile, administration, delete | same read-modify-write; cascade over loans |
| Sessions: `auth_service.go`, `jeton_repository.go` | rows of `jetons_rafraichissement`, signed access tokens | login, refresh (rotation), logout, purge | check and revoke in separate statements |
| Transactions: `transaction.go`, `timeout.go`, `erreurs.go` | one open transaction per call | begin, commit, rollback on error or panic | an error after the commit; a deadline inside |
| Authors, categories: `auteur_service.go`, `categorie_service.go` | rows of `auteurs`, `categories`, the references of `livres` | create, edit, delete, resolve | a reference resolved, then deleted; a name read, then written back |
| Lists: `liste.go`, `commun.go`, `ListerCategories` | none | COUNT, then SELECT with LIMIT and OFFSET | rows that come and go between two statements and two pages; an offset that overflows |
| Rate limiter: `rate_limiter.go` | map of clients, token buckets | allow, clean up | a bucket forgotten before it is full |
| Connection pool and middlewares: `database.go`, `transaction.go`, `middleware/` | connections in use, row locks, the gauge of requests | take, give back, on every way out | everybody holds one and waits; a panic; a deadline |
| Scheduler and shutdown: `scheduler.go`, `cmd/api/main.go` | goroutines, the HTTP server, the base | start, tick, cancel, Shutdown, wait, close | order of shutdown; a tick after cancellation; requests that outlast it |
| Authorisation: `routes.go`, `middleware/auth.go`, `jwt.go` | signed access tokens, kept by clients | sign, check, role of the route | a role that is taken away while a token names it |
| Validation: `validation.go`, the services, `03_tables.sql` | none (pure) | the same rules, twice | rules that part; the arithmetic of an ISBN key |
| Configuration, metrics, views, audit | derived rows, settings | - | sequential |

Interactions: lending, editing, deletions and the jobs never call one another.  They meet **on the rows**: the
stock of a book is written by borrowing, returning and editing; the status of a loan by borrowing, returning, the
two jobs and the cascade of a deletion.  A user's row is read by borrowing, and locked by the foreign key
when the loan is inserted.  A book refers to its author and its category, which are deleted by others.  A request
meets the other requests in the limiter, in the pool and on a row lock, and the main goroutine when the server stops.

What makes each correct: *lending* - stock and loans agree, nothing is lent twice, a loan is returned once,
answers tell the truth, every call ends; *jobs* - they never undo a return, and late loans get flagged;
*catalogue* - an edit keeps the copies that are out; *deletions* - no orphan, no user deleted with a book out;
*sessions* - a refresh token serves once; *authorisation* - a role outlives its account by no more than one
access token; *authors and categories* - no book without them, answers that tell the truth; *lists* - a reader who
goes through them misses nothing and sees nothing twice, as far as OFFSET allows; *limiter* - forgetting clients changes
nothing for them; *pool* - somebody who holds a connection can always go on; *shutdown* - nothing but what was cut on
purpose uses the base once it is closed; *validation* - what is let through is not an internal error.

`PROJECT.json` lists the hazards of the code line by line, with the properties that watch them.

## 2. Modules

```
Base ──┬── Emprunts ──────┬── MCEmprunts
       │      └───────────│── EmpruntsPreuves   (proofs)
       ├── TachesCron ────┤
       ├── Catalogue ─────┼── Bibliotheque ──┬── MCBibliotheque
       └── Suppressions ──┘        │         └── BibliothequePreuves   (proofs, over EmpruntsPreuves)
                                 Prets  (abstract, by INSTANCE)

Comptes ── Sessions ──┬── Acces ──┬── MCAcces
                      │           └── AccesPreuves   (proofs, over SessionsPreuves)
                      └── SessionsPreuves   (proofs)

Fiches ──┬── MCFiches                        Seau  (abstract, by INSTANCE)
         ├── FichesPreuves   (proofs)          │
         └── Listes ──┬── MCListes           Limiteur ── Serveur ── ServeurPreuves   (proofs)
                      └── ListesPreuves   (proofs, over FichesPreuves)
Saisies ──┬── MCSaisies
          └── SaisiesPreuves   (proofs)
```

**Base** - the committed rows (`livres`, `utilisateurs`, `emprunts`), the row locks of the three tables (owner or
`Libre`), the date, the checks on the stock, the penalty.  A loan is named after the call that
inserts it, so its borrower and its book are there from the start, with statut `"aucun"`.  Books keep their total
(`nombre`), free copies (`dispo`) and whether the row is absent, visible, masked or deleted.

**Emprunts** - each call of `POST /emprunts` is a record in `demande`, whose `phase` is the last statement done:
`recue -> identifiee` (user read) `-> verrouillee` (book `FOR UPDATE`, stock tested) `-> comptee` (quota)
`-> validee` (INSERT, stock, commit) `-> terminee` (read back and answered).  Each return is a record in `retour`:
`recue -> ouverte` (BEGIN) `-> verrouillee` (loan `FOR UPDATE`, status tested) `-> validee` (penalty, UPDATEs,
commit) `-> terminee`.  A statement that may wait for a lock is a guard on the lock; a refusal is a disjunct with
its HTTP status.  The writes of a transaction and its commit are one step *where no statement between
them can wait for anybody and nobody can read them before the commit*.  `AnnulerDemande` and `AnnulerRetour` are the
deadline of `middleware.Timeout`, at any moment: rolled back before the commit, answered 500 after it.

**TachesCron** - `bib_marquer_retards` and `bib_archiver`: the rows are chosen in a snapshot, locked one by one in any
order, their WHERE tested again on each (what READ COMMITTED does), and committed together.

**Catalogue** - `PUT`/`PATCH /livres/{id}`: read without a lock, `ajusterStock`, UPDATE of absolute values, read
back; creation; masking (`SupprimerLogique`).

**Suppressions** - `DELETE ...?definitif=true` of a book (locks the row, then the RESTRICT check looks for a loan
that refers to it and waits for its lock) and of a user (cascade over his loans, with the trigger that refuses
an active one).

**Bibliotheque** - the composition: all of them over one `Base`, plus PostgreSQL's deadlock detector, which picks
any member of a cycle of the wait-for graph.  It holds the properties that concern several components.

**Prets** - the abstract promise: a library that owns so many copies lends a copy it has, at one moment, and takes it
back at one moment, once.  `Bibliotheque!TientPromesse` is the refinement (`INSTANCE Prets WITH`): `sortis` maps to
the active loans of each book and `revenus` to the loans returned, archived or deleted.

**Comptes** - the rows of `utilisateurs` as the account routes see them: creation (409 when the address is that of any
row, masked or not), `PUT`/`PATCH` as a read and a later write of *both* protected fields, given or not, logical
deletion (`masque`, and `actif` cleared) and physical deletion.  A committed statement whose answer the deadline cuts
is told as 500 (`Accuse`).

**Sessions** - over `Comptes`: `ouvertures` holds logins and refreshes, whose phases are the statements of
`auth_service.go`: `recue -> trouvee` (token found) `-> lue` (account read) `-> accordee` (old token revoked) `->
enregistree` (new one inserted) `-> terminee`; a login goes from `recue` to `accordee`.  Nothing spans two statements:
a failure or the deadline leaves what is committed.  A token is named after the call that issues it, and can be
presented once that call has answered 200.  `ChangerComptes` takes a step of `Comptes` and cascades to the tokens.
`Base` keeps its own, coarser view of an account (active, inactive, deleted): lending asks no more of it.

**Acces** - over `Sessions`: the access token that each login and each refresh gives, with the role read from the row
(`RoleLu`), the time of the reading and the time it expires; `Authentifie`, `ExigerRole` and `Exigences` are what the
middlewares and `routes.go` make of it.  `vecu` and `tard` are history: when an account was last open with each role,
and what was already consumed or closed when each call began.  The clock (`heure`) does not turn twice between the
reading of a row and the signing of its token, which one request does within `DelaiTraitement`.

**Fiches** - the rows of `auteurs` and `categories`, and of a book only the isbn and the two references.  A PUT or PATCH of a
category is `recue -> lue -> terminee`; a POST, PUT or PATCH of a book `recue -> validee` (row read, body laid over it)
`-> auteur -> resolue` (each reference looked up by a statement of its own) `-> ecrite` (UNIQUE and foreign keys)
`-> terminee` (read back through the view).  The order of the errors is that of PostgreSQL: the isbn (409) before a key (500).

**Listes** - over `Fiches`: a client who asks for a page and goes on to the next as long as the answer announces one.
`Offset` is computed on machine integers that go from `-IntMax - 1` to `IntMax` and wrap.  `entree`, `sortie` and `glisse` are history: whether a
row has come in, gone out, or come in between a COUNT and its SELECT.

**Limiteur**, **Seau** - the map of `rate_limiter.go`, where an entry is made on a first request and dropped by the
cleaning, and the promise: one bucket per client, never forgotten.  `SeauIdeal` is the refinement; its mapping gives a
client without an entry a full bucket.

**Serveur** - over `Limiteur`: request slots going through the chain (`lecture` -> the limiter -> `corps` -> `attente`
of a connection -> `connectee` -> `verrouillee`, the owner of a contended row), with an answer, an error, a deadline or a panic
at every place the code has one; the goroutine of each task; the main goroutine `sert -> arret -> attente -> sortie ->
fermeture -> termine`.  Time goes in units, and none passes while a deadline is due. A slot of
`Sondes` is a `/ready`, with its own shorter deadline and no row.  A request may come from any client.

**Saisies** - what a client sends, as the few attributes the rules look at (how many characters, how many bytes, is there
a U+0000, which digits), met by the rules of the services (`...Admis`), by bcrypt, and by those of the tables
(`Ligne...`).  `Frappes` are the ways to mistype the ISBN of a cover.

## 3. Runs

| Run | What it asks | Bounds |
|---|---|---|
| `emprunts` | the quota is passed by less than the number of books; stock = loans; locks; at most one return commits; true answers | 3 loan calls, 2 returns (of one loan or of two), 2 users, 2 books of 1 or 2 copies, quota 1 |
| `bibliotheque_editions` | stock bounds; only an edit parts stock from loans, by exactly the loans less the returns it has missed | 2 edits, 2 loans, 1 return, totals 1 and 2 |
| `vivacite_retours` | no orphan; a return is never refused by the stock trigger; refinement of `Prets`; borrowings, returns and the deletion of a book all end | 2 loans, 2 returns, 1 deletion, 1 copy |
| `vivacite_taches` | rows well typed; statuses only go forward; no user deleted with a loan out, no lock left behind; late loans are flagged, the deletion of a user ends | 2 loans, both jobs, 1 return, 1 deletion, 3 days |
| `sessions` | order of the rotation, no orphan token; nothing consumed, expired or closed opens again; the role of a token is no older than a token lives | 1 login, 2 refreshes, 1 logout, 1 creation, 1 PUT or PATCH, 1 deletion, 3 hours, tokens of one hour, two refreshes or logouts or one creation in a behaviour (`DeuxAppels`) |
| `references` | no book without author or category; the answers on a book are true | 1 POST and 1 PUT or PATCH of a book, 2 isbn, 2 authors, 1 category, 1 edit of an author, 1 deletion |
| `listes` | what OFFSET paging guarantees, the offset at its bounds, the 409 of a PATCH that gives no name | 1 reader, 3 categories, 1 renaming, 1 creation, 1 deletion, first page 1 or 5, size 1 or 2 (from 0 and 3), `IntMax` 7 |
| `serveur` | the gauge, the pool, the refinement of `Seau`, the order of the shutdown, the process ends | 2 requests and a probe, 2 connections, 1 task, 1 client, burst 2, every delay 1 |
| `saisies` | services and tables part on six points only; the key of an ISBN stops single mistakes | every input at the bounds of every rule; all the mistakes on four valid ISBN and on one that is not |
| `profil_ecrase` (violation) | "PUT changes neither role nor actif" | 2 modifications |
| `quota_depasse` (violation) | "the quota is never passed" | 2 calls, 2 books, quota 1 |
| `stock_perdu` (violation) | "stock = loans" with an edit running | 1 loan, 1 return, 1 edit |

Why the bounds are enough to be of interest: every race in the inventory is between two or three calls.  Two calls fight
for a last copy when the total is 1; the quota needs two calls for two books, and a third to tell the bound
`Quota + |Livres| - 1` from the quota; two returns of one loan need two records `retour` that may name the same loan;
the lock cycles between a return and the deletion of a book, and between a job and the deletion of a user, need one of each.
`JourMax` and `HeureMax` bound the calendar, so that a due date, an archive threshold, the end of a token all go by at
least once.  In `sessions` two refreshes may present the same token.  In `listes` an `IntMax` of 7 makes
the product overflow at page 5, and three rows fill a page of two and a part of another.  In `serveur` the pool has
fewer connections than there are slots, one row is contended, and a request may last two units while the shutdown lasts
one, as in the default configuration (10 s to read and 10 s to work against 15 s).  `CHECK_DEADLOCK FALSE` is used
everywhere because the calls of a behaviour are finitely many, or the process ends: the system then rightly
stops.  Symmetry is used for safety runs only.

**Findings.**  `quota_depasse`: `fn_nb_emprunts_actifs` is read with no lock on the user, so two simultaneous
calls for two books both pass; `API.md` and `DATABASE.md` promise at most five.  `DepassementBorne` says by how much.
`stock_perdu`: `MettreAJour` and `Modifier` compute the stock from a row read earlier without a lock and write
it as an absolute value: the loan or return in between is lost, although the comment of `ajusterStock` says that the
copies out are preserved.  `EcartParEdition` shows that nothing else does it, and `EcartExact` by how
much: the loans less the returns committed between the reading and the writing, so that an edit which raced nobody does
no harm.

`profil_ecrase`: the PUT of a profile writes back the role and the flag it has read, over what an administrator has set
meanwhile; the comment of `MettreAJour` says this route cannot change them.  `FermetureTient` shows that the same
stale write does not reopen a deleted account, because the UPDATE tests `supprime_le`.

**Known differences.**  `EcartsConnus` says on which points the rules of the services and those behind them part, each time for a
500, and that there is no other:

- a password of more than 72 bytes: the validation counts characters and bcrypt bytes, so that 72 accented characters pass
  the first and are refused by the second, where `API.md:152` promises 8 to 72 characters;
- an identifier in the path of a PUT, a PATCH or a DELETE: only the GET routes and the return of a loan test its form, the others
  leave it to PostgreSQL, where `API.md:125` says 400; the identifier of the borrower in `POST /emprunts` likewise;
- a U+0000 in a text, which JSON can carry and PostgreSQL cannot; an address whose host has no dot; a price that
  `numeric(8,2)` cannot hold; the year 0 in a date of birth.

`docs/PERFORMANCES.md:240` says that no goroutine is left
behind when the server stops.  That is so after a signal (`ArretGracieux`), for the tasks; on an error of the listener
`executer` returns at once and waits for nobody, and the goroutine that cleans the limiter is never waited for.

**Fairness.**  Weak fairness on each call's next statement: PostgreSQL executes a statement that can run, and hands a
freed lock to a waiter.  Weak fairness on the deadlock detector (`deadlock_timeout`).  Weak fairness on the jobs
(`pg_cron` starts them daily and a run ends).  None on the deadline, on midnight, on the accounts, on a client's
arrival at a return (`RetoursRepondus` starts from `ouverte`) - the liveness properties do not need a timeout to fire,
nor a user to do anything.

In `Serveur` (`Equite`): weak fairness on the clock, on the main goroutine, on the end of a task that runs, and on a request
whose deadline is due - contexts and timers do fire.  Strong fairness on a task that sees the context cancelled: its
`select` may find the ticker ready as well, each time, and Go's `select` chooses at random among what is ready, so that it
does not choose the ticker for ever.  None on a request before its deadline, on a client, on a signal: `SignalTermine` holds
though requests may do nothing but wait.

## 4. Proofs

`EmpruntsPreuves` proves, for `SpecEmprunts` and **every** set of calls, books and users, from the named assumptions of
`Base` only (totals and durations positive, `Quota` positive, finitely many books and calls, transactions with
distinct names and `Libre` none of them):

| Theorem | States |
|---|---|
| `EmpruntsBienTypes` | `[]TypeEmprunts` |
| `VerrousRespectes` | `[]VerrousTenus` |
| `StockToujoursCoherent`, `StockToujoursBorne` | `[]StockCoherent`, `[]StockBorne` |
| `RetourToujoursUnique` | `[]RetourUnique` |
| `ReponsesToujoursVraies` | `[]ReponsesVraies` |
| `StatutToujoursProgresse` | the action property `StatutProgresse` |
| `DepassementToujoursBorne` | `[]DepassementBorne` |

The argument.  None of these is inductive by itself.  All rest on `Socle`, which says what the
position of a call implies about the rows: a call holds its book's lock exactly in phases `verrouillee` and `comptee`
(`LivresTenus`), a return its loan's lock exactly in `verrouillee` (`EmpruntsTenus`); before its INSERT a call has no
row (`SansLigne`); while it holds its book a copy is free (`ExemplaireTenu`: the stock read before the lock was
obtained is still there because only holders of the lock decrement it); while a return holds its loan the loan is
active (`PretTenu`).

- *Stock*: a step inserts one loan that was not out and decrements, closes one that was out and increments, or leaves
  both tables alone (`EffetDemande`, `EffetRetour`, `SortisInserer`, `SortisRendre`); the rest is cardinalities.
- *Return*: `Effets` adds that a return which has committed points at a loan that is `rendu`; another that commits
  later would hold that loan while active.
- *Answers*: `Situations` ties each phase and answer to the row.
- *Quota*: `Engages(u)` is the active loans together with the calls past the test.  The INSERT moves a call
  from one to the other; only `CompterEmprunts` adds one, when the active loans are fewer than `Quota`, and the calls
  past the test inject into the books, since each holds the lock of its own.

The lemmas take one call at a time and do not mention `SpecEmprunts`, so that they serve the composed specification
too.

`BibliothequePreuves` does it again for `Spec` of `Bibliotheque`, where jobs, edits, deletions and the deadlock detector
write the same rows and take the same locks, for every set of each and from the assumptions of `Base` alone:

| Theorem | States |
|---|---|
| `BibliothequeBienTypee` | `[]TypeOK` |
| `VerrousToujoursRendus`, `VerrousTenusPartout` | `[]VerrousRendus`, `[]VerrousTenus` |
| `StatutProgressePartout` | the action property `StatutProgresse` |
| `ReferencesToujoursIntegres`, `RadiationToujoursSansPret` | `[]IntegriteReferentielle`, `[]RadiationSansPret` |
| `StockBornePartout` | `[]StockBorne` |
| `EcartParEditionPartout`, `EcartToujoursExact` | the action properties `EcartParEdition`, `EcartExact` |
| `StockCoherentSiJustes`, `RetourJamaisRefuseSiJustes`, `PromesseTenueSiJustes` | with `EditionsJustes`: `[]StockCoherent`, `[]RetourJamaisRefuse`, the refinement `TientPromesse` |
| `StockCoherentSansEditions`, `RetourJamaisRefuseSansEditions`, `PromesseTenueSansEditions` | the same three, when `Editions = {}` |
| `RetourUniquePartout`, `ReponsesVraiesPartout`, `DepassementBornePartout` | `[]RetourUnique`, `[]ReponsesVraies`, `[]DepassementBorne` |

The inductive invariant is a chain, each link proved from the one before.

1. `VerrousExacts`: every lock is held by the one actor that is at the place where it holds it, and what a job or a deletion
   keeps in hand is empty outside of its transaction (`Parcours`).
2. `Rangees`: which calls have a row (`Lignes`), that the rows a job or a cascade has locked are in the state it found them in
   (`LignesPrises`), and that a book under lock is there (`LivresPresents`).  `StatutProgressePartout` follows: the WHERE is
   tested again once the lock is there, and nobody changes the status after.
3. `Integre`: `IntegriteReferentielle`, which is not inductive, since a cascade takes the loans one by one: `Cascades`
   says what holds half-way, that every loan of the user is among those visited and those still to visit.
4. `Stocks`: `StockBorne`, with what a book that is not there yet has (`LivresAbsents`), and that the stock an edit has read
   is one that a row can have (`LusAdmis`).  Without this last one an edit could write anything.

`Mouvements` then says what any step of the library is to the accounts: nothing, a copy that goes out, one that comes back, the
purchase of a book, the revaluation of one by an edit.  The theorems on the stock and the refinement of `Prets` are read from
it.  That refinement cannot hold as it is: `stock_perdu` is a counterexample, for an edit that missed a return leaves the stock short,
and one that missed a loan makes the library lend a copy that is out.  The hypothesis is `EditionsJustes`, that an edit writes
a book only when as many of its copies are out as when it read it - what a lock on the read would ensure, and the weakest one that keeps
`StockCoherent`, by `EcartExact`.  The code does not ensure it; without edits it is empty.

`SessionsPreuves` proves, for `Spec` of `Sessions` and every set of accounts and calls, `[]TypeSessions`,
`[]RotationOrdonnee` and `[]JetonsSansOrphelin` (theorems `SessionsBienTypees`, `RotationToujoursOrdonnee`,
`JamaisDOrphelin`).  The inductive `Invariant` adds to them that a call has a row only after its INSERT (`Emission`),
that a refresh under way was given a token that has been in the table (`Presentation`), and that from its UPDATE on
that token is revoked or gone (`Revocation`).  `RotationOrdonnee` alone is not inductive: between the revocation
and the INSERT it says nothing of the old token.  `MortReste` is the heart of it: the one step that makes a row valid is
an INSERT, by a call that has none.

`AccesPreuves` starts from `SpecAcces => Spec` (`AccesEstSessions`), which hands over the `Invariant` of `Sessions`.
`InvAcces` adds: no row of an account that was never created is referred to (`Nouveaux`); an account whose deletion was
acknowledged is closed (`FermesClos`); what a refresh holds was good when it looked (`Usage`); a call past the reading
of the account holds a role that was in the row at `lu` (`Autorite`); a call that begins too late never gets past the check
(`Tard`).  Theorems: `AccesBienTypes`, `JetonsConsommes`, `FermeturesTiennent`, `AutoriteToujoursBornee`.

`ServeurPreuves` proves `SpecLimiteur => SeauIdeal` (`LimiteurBienType`, `LimiteurRaffine`).  `InvLimiteur` is the types and `Regagne`: an entry idle for `n` units
has gained `n` times the rate, or is full.  Then what the cleaning drops is full (`OublieePleine`), and dropping it is a
stutter of `Seau`.  It rests on `OubliAssumption`, that a bucket left alone for as long as the cleaning waits is full: the default
rate of 10 a second and burst of 20 satisfy it many times over, and `config.go` does not check it for others.

It proves the refinement again inside the server (`ServeurSeauIdeal`), and from `InvRessources` (the limiter's
invariant, `TypeServeur`, and `Tenues`: who holds what in which phase) that the gauge counts, the pool is bounded and
never waits on itself (`ServeurBienType`, `PoolSansBlocage`).  `InvArret` adds the stages of the shutdown (`Etapes`) and the
ages (`Ages`: a request that Close has cut is as old as the shutdown), whence `ArretSansCoupure`.  Assumptions: finitely many
slots, one connection at least, delays that are natural numbers, whatever their order.

`FichesPreuves` proves `LivresComplets`, `ReponsesVraies` and `NomsRefuses`.  `InvFiches` adds to `LivreComplet` what each phase
of an edit implies of its book, that names of present categories are unique, that a PATCH without a name carries the name
it read, and that a book under creation is not there before its INSERT.

`ListesPreuves` proves `ListesBienTypees`, `JamaisDeDoublon`, `JamaisDOubli` and `HorsBornesVide`, for any number of readers, rows and
calls, any pages and sizes asked for, from `ListesAssumption` and `CompteAssumption` (the COUNT of the rows fits in an `int`, as
`Lister` takes for granted when it scans it).  It is about *positions*: `Position(c, x)` counts the matching rows up to `c` in the
order asked for.  `TriExiste` shows that to number the rows by position is a bijection, so that the sorted sequence exists;
`FenetreTriee`, that a page is the rows whose positions it covers, each once.  This needs distinct names, hence `InvFiches`.
Then three facts about a reader under way: `Derriere` - while no row comes in, positions only go down, so that the rows
already seen stay before the next page; `Devant` - while none goes out, positions only go up, so that the rows not seen yet stay
ahead; `Compte` - what a COUNT is still worth when its SELECT comes.  `Suite` bounds the product of page and size by the number of
rows on every page but the first, so that only the first page asked for can overflow (`OffsetExact`).
`NomsRefusesAvecLecteurs` carries `ConflitSansNom` over to this specification.

`SaisiesPreuves` proves `FautesDetectees` for all 10^13 numbers and all their mistakes, where TLC tries five: both
numbers being valid, the difference of their weighted sums is a multiple of ten (`SommeMultiple`); one digit changed gives one
or three times a difference of at most nine, two neighbours exchanged twice their difference (`UnChiffre`, `DeuxVoisins`).
`ReglesAccordees` holds for any inputs, bounded or not.  The types of `Emprunts`, `Fiches`, `Sessions` and `Saisies` are proved
(`EmpruntsBienTypes`, `FichesBienTypees`, `SessionsBienTypees`, `SaisiesBienTypees`), and no run repeats them alone.

Every safety property and every action property of the passing runs is a theorem, and so are the refinements of `Prets` and
`Seau`.  Model-checked only, for good: liveness under fairness (`SignalTermine`, `RetardSignale`, and the calls, the deletions and the
returns that end), which the proof system does not reach.  The violations of section 3 are counterexamples on small instances, which
is all they need to be.  Inductive facts about recursive definitions and `ENABLED` are out of reach too; no module here needs a
recursive definition.  `OffsetExact` says nothing of a first page whose product wraps all the way around, as `PageHorsBornes` does not.

## 5. Not modelled

- Reads that change nothing: the lists but that of the categories, the statistics, the views.  They go through the helpers
  that `Listes` models, with other filters; the numbering of placeholders and the building of a WHERE are strings.
- Titles, prices, summaries of a book, but for the rules on creation in `Saisies`; the biographies and dates of an author.
- The bodies of PUT and PATCH against the rules of the tables: the same rules as those of the creations.
- The filter by which a member lists his own loans; the address under which the limiter counts a client.
- The audit triggers: they append in the transaction of the write they audit, never fail a statement of their own, and
  nothing reads what they append.  The daily statistics, the refresh of the materialised view and VACUUM likewise.
- Configuration: read once, sequentially.  That `DelaiTraitement` is below `DelaiEcriture`, as its comment asks, is
  checked nowhere; `WriteTimeout` is not modelled, since it cuts an answer and changes no state.
- Opening and pinging the base, idle connections and their lifetimes; logs, headers, metrics but the gauge, the
  form of answers.
- KEY SHARE locks of foreign keys appear as what they exclude (a deletion), not as lock modes.  In `Fiches` a deletion
  and an INSERT that refers to the row are one step each: what waits there waits for one statement.
- Plain SELECTs see one committed state per statement; the snapshots of two statements of one call differ, as in READ
  COMMITTED.
- A ROLLBACK that fails: the driver drops the connection, which ends the transaction as well.
- Two refreshes that present one token at the same moment may both be served: the comment of `Rafraichir` speaks of a use
  *after* the first, which `JetonConsomme` checks.
- Limits of the code, not of the model: a refresh cut between the revocation and the INSERT leaves the client without
  a refresh token; a `POST /emprunts` that commits and then fails on the read back answers 500,
  and nothing makes the client's retry idempotent.  The models show that both loans are well accounted.

## 6. Plan

1. *(done)* `Base`, `Emprunts`, `TachesCron`, `Catalogue`, `Suppressions`, their composition, `Prets`, and the
   proofs about lending.
2. *(done)* `Comptes`, `Sessions` and `Acces`, with their proofs.
3. *(done)* `Fiches` and `Listes`, with their proofs.
4. *(done)* `Limiteur`, `Seau` and `Serveur`, with their proofs.
5. *(done)* `Saisies`, with its proofs.
6. *(done)* `BibliothequePreuves`: types, `VerrousRendus`, `StatutProgresse`, `IntegriteReferentielle`, the refinement of `Prets`
   step by step.
7. Fiches and Catalogue over one row of `livres`, so that a stale PUT is seen on the stock and on the references at once.

The runs of the later modules share configurations where they can: one run per question.

## 7. Reading and running

`tlc -config X.cfg M` for the module `M` of the run `X` in `PROJECT.json`; `tlapm M.tla` for the proofs, `M` being
`EmpruntsPreuves`, `BibliothequePreuves`, `SessionsPreuves`, `AccesPreuves`, `FichesPreuves`, `ListesPreuves`, `ServeurPreuves` or `SaisiesPreuves`.
Names follow the source (French); the operators named after an action with a suffix (`...SansVerrou`, `...Inclus`) are
mutants: plausible bugs, each of which must break the property it is paired with in `PROJECT.json`.
