CONSTANTS
    None = None
    MaxReplicas = 2
    Secrets = {creds}
    MaxWrites = 1
SPECIFICATION Spec
INVARIANT RemoteWriteAuthReadable
