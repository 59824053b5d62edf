SPECIFICATION NetworkSpec
CONSTANTS
    good = good
    other = other
    near = near
    named = named
    sentry = sentry
    val = val
    home = home
    site = site
    None = None
    Peers <- TwoPeers
    Faulty <- OnlyOther
    Hung <- NoPeer
    Rank <- GoodFirst
    MaxHeight = 3
    BatchSize = 2
    Checkpoint = 1
    Rivals <- FirstHeight
    BanThreshold = 3
    MaxInbound = 2
    Start = 2
    MaxFaults = 1
    Nobody = Nobody
    Remotes = {named, near, sentry}
    Addresses <- OpenAddrs
    AddrId <- OpenIds
    AddrHost <- OpenHosts
    AddrIp <- OpenIps
    IpOf <- Sites
    Bootstrap <- Configured
    Private = {}
    Sentries <- Announcers
    MaxPeers = 2
    Reserved = 1
    MaxPerIp = 1
    MaxLearned = 3
    MaxDials = 1
    MaxEvents = 3
INVARIANTS CommittedIsCertified QuotaExact
PROPERTIES CatchUpEnds  KnownPeerRedialed
CHECK_DEADLOCK FALSE
