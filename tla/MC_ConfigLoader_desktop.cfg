CONSTANTS
    Machines = {m1}
    Passwords = {p1, p2}
    Ciphers = {c1, c2}
    DefaultCipher = c1
    FsIds = {f1, f2}
    Keys = {k1, k2}
    Salts = {s1, s2}
    f1 = f1  k1 = k1  s1 = s1  p1 = p1  c1 = c1  c2 = c2
    m1 = m1  p2 = p2  f2 = f2   k2 = k2 
    s2 = s2
    MaxClientId = 2
    MaxVersion = 6
    MinSupportedVersion = 2
    FilesystemFormatVersion = 5
    LegacyVersions = {4}
    LegacyFormatVersion = 3
    ThisBuild = ThisBuild
    OtherBuild = OtherBuild
    None = None
    InitFiles <- MCInitFiles
    CipherOptions <- CipherUnset
    MissingBlockOptions <- MissingBlockAny
    UpgradeOptions <- FlagAny
    ReplacedOptions <- FlagAny

SPECIFICATION Spec

INVARIANT TypeOK
INVARIANT MountsOneFilesystem
INVARIANT MountsOneKey
PROPERTY VersionNeverLowered
