--------------------------- MODULE IragRouteSpecs ---------------------------
(***************************************************************************)
(* irag/service.go: which paths the gateway serves, and by which providers *)
(* in which order (routeSpecForPath and the chains it asks).               *)
(***************************************************************************)
EXTENDS RouteText

NRC == <<"nexure", "ryzumi", "chocomilk">>
RNC == <<"ryzumi", "nexure", "chocomilk">>
CNR == <<"chocomilk", "nexure", "ryzumi">>
CRN == <<"chocomilk", "ryzumi", "nexure">>
NKR == <<"nexure", "kanata", "ryzumi">>
KNR == <<"kanata", "nexure", "ryzumi">>
RNK == <<"ryzumi", "nexure", "kanata">>
YNR == <<"ytdlp", "nexure", "ryzumi">>
YRN == <<"ytdlp", "ryzumi", "nexure">>
RN == <<"ryzumi", "nexure">>
NR == <<"nexure", "ryzumi">>
KN == <<"kanata", "nexure">>

aiTextChain(path) ==
    IF Holds(path, "mistral") THEN RNC
    ELSE IF Holds(path, "gemini") /\ ~Holds(path, "gemini-ryz")
         THEN <<"ytdlp", "nexure", "ryzumi", "chocomilk">>
    ELSE ByWord(<< <<{"chocomilk"}, CNR>>,
                   <<{"deepseek-ryz", "gemini-ryz", "qwen", "chatgpt-ryz"}, RNC>> >>, path, NRC)

aiImageChain(path) == IF Holds(path, "kanata") THEN KNR ELSE NKR

aiDirectImageChain == <<"kanata", "nexure", "ryzumi", "chocomilk">>

aiProcessChain(path) ==
    ByWord(<< <<{"tololi", "enhance2x", "nanobanana", "nano-banana"}, CNR>>,
              <<{"colorize", "faceswap", "upscale", "enhance", "removebg", "waifu2x", "image2txt"}, RNC>>,
              <<{"nsfw-check", "toanime"}, NRC>> >>, path, RNC)

youtubeChain == <<"chocomilk", "ytdlp", "nexure">>

downloadChain(path) ==
    IF Holds(path, "/youtube/")
    THEN ByWord(<< <<{"/search"}, RN>>, <<{"/playlist", "/subtitle"}, YNR>> >>, path,
                <<"kanata", "nexure", "ytdlp", "ryzumi">>)
    ELSE IF Holds(path, "/tiktok")
    THEN ByWord(<< <<{"/hd", "/douyin"}, YRN>> >>, path, <<"nexure", "kanata", "ryzumi", "ytdlp">>)
    ELSE ByWord(<< <<{"/instagram"}, NRC>>,
                   <<{"/spotify"}, IF Holds(path, "/playlist") THEN <<"ytdlp", "ryzumi">>
                                   ELSE <<"nexure", "ryzumi", "ytdlp">>>>,
                   <<{"/twitter", "/threads"}, CRN>>,
                   <<{"/soundcloud"}, <<"nexure", "ryzumi", "ytdlp">>>>,
                   <<{"/gdrive"}, NR>>,
                   <<{"/mediafire", "/applemusic"}, YRN>>,
                   <<{"/videy", "/sfile", "/shopee/video", "/nhentai"}, YNR>>,
                   <<{"/douyin"}, YRN>>,
                   <<{"/bilibili", "/bstation"}, RN>>,
                   <<{"/tidal", "/deezer", "/capcut"}, <<"chocomilk">>>>,
                   <<{"/scribd"}, <<"nexure">>>>,
                   <<{"/mega", "/terabox", "/pixeldrain", "/krakenfiles", "/danbooru"}, RN>>,
                   <<{"/reddit"}, <<"nexure">>>> >>, path, NKR)

downloadRoutes ==
    {"aio", "youtube", "youtube/info", "youtube/video", "youtube/audio", "youtube/playlist",
     "youtube/subtitle", "youtube/search", "tiktok", "tiktok/hd", "douyin", "instagram",
     "instagram/story", "spotify", "spotify/playlist", "facebook", "threads", "twitter", "pinterest",
     "soundcloud", "soundcloud/playlist", "gdrive", "bilibili", "bstation", "tidal", "deezer",
     "capcut", "scribd", "mediafire", "mega", "terabox", "pixeldrain", "krakenfiles", "danbooru",
     "reddit", "applemusic", "videy", "sfile", "shopee/video", "nhentai"}

downloadRouteAllowed(path) == After(path, "/v1/download/") \in downloadRoutes

islamicChain(path) ==
    ByWord(<< <<{"/quran", "/tafsir", "/topegon", "/hadith"}, <<"ytdlp", "kanata">>>> >>, path,
           <<"kanata", "ytdlp">>)

gameChain(path) ==
    ByWord(<< <<{"/growagarden/stock"}, NR>>, <<{"/growagarden/"}, RN>> >>, path, RNK)

searchChain(path) ==
    ByWord(<< <<{"/google", "/youtube", "/spotify", "/pinterest", "/lyrics"}, RN>>,
              <<{"/tiktok", "/tidal", "/novel"}, CNR>>,
              <<{"/anime", "/manga", "/bstation", "/cookpad", "/wallpaper", "/pddikti", "/drama",
                 "/film", "/cctv", "/server-info"}, IF Holds(path, "/wallpaper") THEN RNK
                                                    ELSE <<"nexure", "kanata">>>> >>, path, RNK)

stalkChain(path) == ByWord(<< <<{"/instagram"}, NR>> >>, path, RN)

toolsChain(path) ==
    ByWord(<< <<{"/translate", "/kbbi", "/ipinfo", "/carbon"}, KNR>>,
              <<{"/weather", "/cekresi", "/pln", "/pajak", "/qr", "/nsfw", "/brat"}, NKR>>,
              <<{"/whois", "/check-hosting", "/hargapangan", "/mc-lookup", "/qris-converter",
                 "/turnstile", "/yt-transcript", "/shortlink/bypass", "/tinyurl",
                 "/currency-converter", "/subdofinder"}, <<"ryzumi", "nexure", "ytdlp", "kanata">>>>,
              <<{"/isrc"}, YNR>>,
              <<{"/screenshot", "/kurs", "/gsmarena", "/distance", "/shorturl", "/listbank",
                 "/cekbank", "/removebg", "/iphonechat"}, <<"ytdlp", "nexure", "ryzumi", "kanata">>>> >>,
           path, KNR)

isDirectAIImageSlug(slug) ==
    \E w \in {"animagine-xl-", "deepimg", "flux-schnell", "pollinations/image"} : Holds(slug, w)

isAllowedDirectAITextSlug(slug) ==
    slug \in {"ai4chat", "beago", "chatgpt-ryz", "chocomilk-gpt", "claila", "copilot", "deepai-chat",
              "deepseek", "deepseek-ryz", "felo", "gemini", "gemini-ryz", "gpt", "gpt-v2", "groq",
              "meta", "mistral", "perplexity", "powerbrain", "qwen", "v2/gpt", "webpilot", "z-ai"}

isAllowedYouTubeSlug(slug) == slug \in {"download", "info", "play", "search"}

directAIChain(path) ==
    LET slug == After(path, "/v1/ai/")
    IN  IF isDirectAIImageSlug(slug) THEN aiDirectImageChain
        ELSE IF isAllowedDirectAITextSlug(slug) THEN aiTextChain(slug) ELSE <<>>

(***************************************************************************)
(* routeSpecForPath's switch, as far as its providers go: a rule has whole *)
(* paths, prefixes and the family they belong to.  An empty chain: the     *)
(* path is not served.                                                     *)
(***************************************************************************)
routeRules ==
    << <<{}, {"/v1/ai/text/"}, "ai text">>, <<{"/v1/ai/generate", "/v1/ai/image"}, {}, "kanata alone">>,
       <<{}, {"/v1/ai/image/"}, "ai image">>, <<{}, {"/v1/ai/process/", "/v1/i2i/"}, "ai process">>,
       <<{}, {"/v1/ai/"}, "ai direct">>, <<{}, {"/v1/youtube/"}, "youtube">>,
       <<{"/v1/llm/chatgpt/completions"}, {}, "llm">>,
       <<{}, {"/v1/download/youtube/search"}, "download search">>, <<{}, {"/v1/download/"}, "download">>,
       <<{}, {"/v1/search/"}, "search">>, <<{}, {"/v1/tools/"}, "tools">>,
       <<{"/v1/utility/upscale"}, {}, "upscale">>, <<{}, {"/v1/stalk/"}, "stalk">>,
       <<{}, {"/v1/bmkg/"}, "kanata alone">>, <<{}, {"/v1/islamic/"}, "islamic">>,
       <<{}, {"/v1/anime/"}, "anime">>, <<{}, {"/v1/manga/"}, "two">>,
       <<{"/v1/otakudesu", "/v1/komiku"}, {"/v1/otakudesu/", "/v1/komiku/"}, "two">>,
       <<{}, {"/v1/weebs/"}, "ryzumi alone">>, <<{"/v1/novel"}, {"/v1/novel/"}, "chocomilk alone">>,
       <<{}, {"/v1/film/", "/v1/drama/", "/v1/lk21"}, "two">>, <<{}, {"/v1/game/"}, "game">>,
       <<{"/v1/media"}, {"/v1/news/", "/v1/media/"}, "two">>, <<{}, {"/v1/dramabox"}, "nexure alone">>,
       <<{}, {"/v1/bsw/cctv"}, "nexure alone">>,
       <<{"/v1/misc/server-info", "/v1/server-info"}, {}, "nexure alone">>,
       <<{"/v1/misc/ip-whitelist-check"}, {}, "ryzumi alone">>,
       <<{"/v1/upload"}, {"/v1/upload/"}, "upload">> >>

routeFamily(rules, path) ==
    LET hits == {i \in DOMAIN rules : \/ path \in rules[i][1]
                                      \/ \E p \in rules[i][2] : HasPrefix(path, p)}
    IN  IF hits = {} THEN "none" ELSE rules[Min(hits)][3]

routeSpecForPath(path) ==
    LET family == routeFamily(routeRules, path)
    IN  CASE family = "ai text" -> aiTextChain(path)
          [] family = "ai image" -> aiImageChain(path)
          [] family = "ai process" -> aiProcessChain(path)
          [] family = "ai direct" -> directAIChain(path)
          [] family = "youtube" /\ isAllowedYouTubeSlug(After(path, "/v1/youtube/")) -> youtubeChain
          [] family = "llm" -> CNR
          [] family = "download search" /\ downloadRouteAllowed(path) -> RN
          [] family = "download" /\ downloadRouteAllowed(path) -> downloadChain(path)
          [] family = "search" -> searchChain(path)
          [] family = "tools" -> toolsChain(path)
          [] family = "upscale" -> NR
          [] family = "stalk" -> stalkChain(path)
          [] family = "islamic" -> islamicChain(path)
          [] family \in {"anime", "upload"} -> NKR
          [] family = "two" -> KN
          [] family = "game" -> gameChain(path)
          [] family = "kanata alone" -> <<"kanata">>
          [] family = "ryzumi alone" -> <<"ryzumi">>
          [] family = "chocomilk alone" -> <<"chocomilk">>
          [] family = "nexure alone" -> <<"nexure">>
          [] OTHER -> <<>>
=============================================================================
