CONSTANTS
    home = home
    cafe = cafe
    Nets = {home, cafe}
    NoNet = NoNet
    Workers = {1, 2}
    Bodies <- MCBodies
    Tried = {cafe}
    MaxAttempts = 2
    MaxRequests = 2
    MaxTroubles = 0
SPECIFICATION AppSpec
PROPERTY
    SetupUndone
