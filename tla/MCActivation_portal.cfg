\* One ARM client and one portal client.
SPECIFICATION FairSpec
CONSTANTS
    s1 = s1  s2 = s2  svc = svc  nv = nv  be = be  ca = ca  f1 = f1  f2 = f2
    v1 = v1  v2 = v2
    Scopes = {s1, s2, svc}
    ServiceScopes = {svc}
    NamedValues = {nv}
    Backends = {be}
    Certificates = {ca}
    Fragments = {f1, f2}
    Values = {v1, v2}
    Docs <- McDocs
    Absent = Absent
    ArmWriters = {a1}
    PortalWriters = {p1}
    ArmRequests <- AllWrites
    PortalRequests <- PortalWrites
    InitialStores <- McStores
    MaxRequests = 2
    NoOne = NoOne
INVARIANTS SnapshotIsLoadable
PROPERTIES EveryRequestIsAnswered
