SPECIFICATION CertSpec
CONSTANTS
    Terms = {1, 2}
    Outputs = {1, 2}
    MaxMessages = 2
    MaxEdits = 2
    None = None
INVARIANTS SignatureExact AnchorExact
