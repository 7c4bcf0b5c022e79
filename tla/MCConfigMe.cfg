SPECIFICATION Spec
CONSTANTS
    note = note
    note_x = note_x
    hello = hello
    hexed = hexed
    badhex = badhex
    secret = secret
    rest = rest
    Empty = Empty
    Junk = Junk
    Unreadable = Unreadable
    Name = name
    PlainKeys = {name, note}
    ColonKeys = {note_x}
    KeyHead <- MCKeyHead
    KeyRest <- MCKeyRest
    Texts = {hello, hexed, badhex}
    Secrets = {secret}
    HexLike = {hexed}
    BadHex = {badhex}
    Decrypted <- MCDecrypted
    Files = {file}
    ConfigFile = file
INVARIANTS RoundTrip LoadedIsStable SecretsStaySealed
