SPECIFICATION Spec
CONSTANTS
    p = p
    q = q
    authorityOfP = authorityOfP
    authorityOfQ = authorityOfQ
    NoOne = NoOne
    User = {u}
    Authority = {authorityOfP}
    Amm = {p}
    Mint = {m1, m2}
    Account = {t1, t2, t3}
    MaxMinted = 1
    SwapAuthority <- MCSwapAuthority
SYMMETRY Addresses
CHECK_DEADLOCK FALSE
PROPERTY OutputsNotOwnedByProgram
