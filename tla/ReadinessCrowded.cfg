CONSTANTS
    probe = probe
    other = other
    worker = worker
    Nobody = Nobody
    Clients = {probe, other, worker}
    Probes = {probe, other}
    PoolSize = 2
SPECIFICATION Spec
INVARIANT UnavailableMeansUnreachable
