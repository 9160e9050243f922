------------------------------ MODULE MCFrontend ------------------------------
(* A small instance of Frontend: two names of registries, one repository.    *)
EXTENDS Frontend, TLC

CONSTANTS reg1, reg2, repo, t1, t2, k1, k2, k3

Ask(op, registry, repository, format, id) ==
    [op |-> op, registry |-> registry, repository |-> repository,
     format |-> format, id |-> id]

TwoRegistries == {reg1, reg2}
OneRepository == {repo}
SomeFormats == {"file", "pypi", "maven"}
SomeHandled == {"file", "pypi"}

(* One registry is created with and without a format and with an ID of the  *)
(* client's, the other only so that it needs an ID as well.                  *)
SomeCalls ==
    { Ask("createRegistry", reg1, None, "maven", 0),
      Ask("createRegistry", reg1, None, None, 1),
      Ask("createRegistry", reg2, None, "pypi", 0),
      Ask("createRepository", reg1, repo, None, 0),
      Ask("list", reg1, None, None, 0),
      Ask("listAll", reg1, None, None, 0),
      Ask("protocol", reg1, repo, None, 0),
      Ask("browse", reg1, repo, None, 0),
      Ask("browseFile", reg1, repo, None, 0) }

RegistriesPage == Ask("listAll", reg1, None, None, 0)
PackagesPage == Ask("browse", reg1, repo, None, 0)
TwoPages == {RegistriesPage, PackagesPage}

TwoTabs == {t1, t2}
ThreeClients == {k1, k2, k3}
Everyone == TwoTabs \cup ThreeClients
(* The browser alone, the clients alone, or a tab among two clients.         *)
SomeCrowds == {TwoTabs, ThreeClients, {t1, k1, k2}}

AllTokens == {"good", "opaque", "expired"}
DatabaseFaults == {"db", "dbLost"}

===============================================================================
