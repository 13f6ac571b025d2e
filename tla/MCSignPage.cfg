SPECIFICATION FairSpec
CONSTANTS
    t1 = t1
    t2 = t2
    p1 = p1
    p2 = p2
    Text <- MCText
    NoText = NoText
    Signer <- MCSigner
    NoSigner = NoSigner
    app = app
    sign = sign
    preview = preview
    dev = dev
    stray = stray
    bare = bare
    rp = rp
    Host <- MCHost
    LocalHost <- MCLocalHost
    Domain = {rp}
    NoDomain = NoDomain
    Within <- MCWithin
    Build <- MCBuild
    MaxLoads = 1
INVARIANTS
    ShownReceiptIsReal
    ResultMatchesText
    ReceiptIsOfThisSigner
    SignersSurviveMoves
PROPERTIES
    ConfirmedStaysConfirmed
    SigningEnds
